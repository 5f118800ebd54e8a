-------------------------- MODULE RecordingProofs --------------------------
(***************************************************************************)
(* What is proved of recording a dataset, for any number of episodes,      *)
(* takes, sessions, key presses and faults: the types; that what an        *)
(* earlier session recorded is never written to again; that every episode  *)
(* reads back as it was recorded; and that only what an earlier take left  *)
(* makes a video longer than its episode.                                  *)
(***************************************************************************)
EXTENDS Recording, FlattenProofs

-----------------------------------------------------------------------------
(***************************************************************************)
(* Files.                                                                  *)
(***************************************************************************)
LEMMA Bounds ==
  /\ NumEpisodes \in Nat \ {0} /\ MetaBuffer \in Nat \ {0}
  /\ QueueMax \in Nat \ {0} /\ MaxFrames \in Nat \ {0}
  /\ MaxTakes \in Nat \ {0} /\ MaxSessions \in Nat \ {0}
  /\ MaxKeys \in Nat /\ MaxFaults \in Nat /\ MaxLost \in Nat
BY RecordingAssumption DEF RecordingAssumption

\* What storing leaves in the files: those before are kept, those after are gone
\* unless the file is open.
Stored(f, S, files, n, open, new) ==
  /\ f \in Seq(Seq(S))
  /\ open => Len(f) = Len(files) /\ f[n + 1] = files[n + 1] \o new
  /\ ~open => Len(f) = n + 1 /\ f[n + 1] = new
  /\ \A i \in 1 .. n : f[i] = files[i]

LEMMA StoreIs ==
  ASSUME NEW S, NEW files \in Seq(Seq(S)), NEW n \in 0 .. Len(files),
         NEW open \in BOOLEAN, open => n < Len(files), NEW new \in Seq(S)
  PROVE  Stored(Store(files, n, open, new), S, files, n, open, new)
<1> DEFINE f == Store(files, n, open, new)
<1>0. Len(files) \in Nat /\ n \in Nat
      OBVIOUS
<1>1. CASE open
  <2>1. f = [files EXCEPT ![n + 1] = files[n + 1] \o new]
        BY <1>1 DEF Store
  <2>2. n + 1 \in 1 .. Len(files) /\ files[n + 1] \in Seq(S)
        BY <1>0, <1>1
  <2>3. files[n + 1] \o new \in Seq(S)
        BY <2>2, ConcatProperties
  <2>4. f \in Seq(Seq(S)) /\ Len(f) = Len(files)
        BY <2>1, <2>2, <2>3, ExceptSeq
  <2>5. /\ f[n + 1] = files[n + 1] \o new
        /\ \A i \in 1 .. n : f[i] = files[i]
        BY <1>0, <2>1, <2>2
  <2>6. QED
        BY <1>1, <2>4, <2>5 DEF Stored
<1>2. CASE ~open
  <2> DEFINE d == SubSeq(files, 1, n)
  <2>1. /\ d \in Seq(Seq(S)) /\ Len(d) = n
        /\ \A i \in 1 .. n : d[i] = files[i]
        BY <1>0, SubSeqProperties
  <2>2. f = Append(d, new)
        BY <1>2 DEF Store
  <2> HIDE DEF d
  <2>3. /\ f \in Seq(Seq(S)) /\ Len(f) = n + 1
        /\ \A i \in 1 .. n : f[i] = d[i]
        /\ f[n + 1] = new
        BY <1>0, <2>1, <2>2, AppendProperties
  <2>4. QED
        BY <1>2, <2>1, <2>3 DEF Stored
<1>3. QED
      BY <1>1, <1>2

\* Read one file after the other, what is stored comes behind what it joins.
LEMMA StoreFlat ==
  ASSUME NEW S, NEW files \in Seq(Seq(S)), NEW n \in 0 .. Len(files),
         NEW open \in BOOLEAN, open => n < Len(files), NEW new \in Seq(S)
  PROVE  FlattenSeq(SubSeq(Store(files, n, open, new), 1, n + 1))
           = FlattenSeq(SubSeq(files, 1, IF open THEN n + 1 ELSE n)) \o new
<1> DEFINE f == Store(files, n, open, new)  d == SubSeq(files, 1, n)
           x == IF open THEN files[n + 1] \o new ELSE new
<1>0. Len(files) \in Nat /\ n \in Nat
      OBVIOUS
<1>1. /\ f \in Seq(Seq(S)) /\ n + 1 <= Len(f) /\ Len(f) \in Nat
      /\ \A i \in 1 .. n : f[i] = files[i]
      /\ f[n + 1] = x
  <2>1. Stored(f, S, files, n, open, new)
        BY StoreIs
  <2> HIDE DEF f
  <2>2. f \in Seq(Seq(S)) /\ \A i \in 1 .. n : f[i] = files[i]
        BY <2>1 DEF Stored
  <2>3. Len(f) = (IF open THEN Len(files) ELSE n + 1) /\ f[n + 1] = x
        BY <2>1 DEF Stored
  <2>4. n + 1 <= Len(f) /\ Len(f) \in Nat
        BY <1>0, <2>3
  <2>5. QED
        BY <2>2, <2>3, <2>4
<1> HIDE DEF f
<1>2. /\ d \in Seq(Seq(S)) /\ Len(d) = n
      /\ \A i \in 1 .. n : d[i] = files[i]
      BY <1>0, SubSeqProperties
<1>3. SubSeq(f, 1, n + 1) = Append(d, f[n + 1])
  <2>1. /\ SubSeq(f, 1, n + 1) \in Seq(Seq(S)) /\ Len(SubSeq(f, 1, n + 1)) = n + 1
        /\ \A i \in 1 .. n + 1 : SubSeq(f, 1, n + 1)[i] = f[i]
        BY <1>0, <1>1, SubSeqProperties
  <2>2. f[n + 1] \in Seq(S)
        BY <1>0, <1>1
  <2> HIDE DEF d
  <2>3. /\ Append(d, f[n + 1]) \in Seq(Seq(S)) /\ Len(Append(d, f[n + 1])) = n + 1
        /\ \A i \in 1 .. n : Append(d, f[n + 1])[i] = d[i]
        /\ Append(d, f[n + 1])[n + 1] = f[n + 1]
        BY <1>2, <2>2, AppendProperties
  <2>4. ASSUME NEW i \in 1 .. n + 1
        PROVE  SubSeq(f, 1, n + 1)[i] = Append(d, f[n + 1])[i]
    <3>1. SubSeq(f, 1, n + 1)[i] = f[i]
          BY <2>1
    <3>2. CASE i = n + 1
          BY <2>3, <3>1, <3>2
    <3>3. CASE i # n + 1
      <4>1. i \in 1 .. n
            BY <1>0, <3>3
      <4>2. QED
            BY <1>1, <1>2, <2>3, <3>1, <4>1
    <3>4. QED
          BY <3>2, <3>3
  <2>5. QED
        BY <2>1, <2>3, <2>4, SeqEqual
<1>4. CASE ~open
  <2>1. FlattenSeq(Append(d, new)) = FlattenSeq(d) \o new
        BY <1>2, FlattenAppend
  <2>2. QED
        BY <1>1, <1>3, <1>4, <2>1 DEF f
<1>5. CASE open
  <2> DEFINE y == files[n + 1]
  <2>1. y \in Seq(S) /\ y \o new \in Seq(S)
        BY <1>0, <1>5, ConcatProperties
  <2>2. SubSeq(files, 1, n + 1) = Append(d, y)
    <3>1. /\ SubSeq(files, 1, n + 1) \in Seq(Seq(S))
          /\ Len(SubSeq(files, 1, n + 1)) = n + 1
          /\ \A i \in 1 .. n + 1 : SubSeq(files, 1, n + 1)[i] = files[i]
          BY <1>0, <1>5, SubSeqProperties
    <3> HIDE DEF d
    <3>2. /\ Append(d, y) \in Seq(Seq(S)) /\ Len(Append(d, y)) = n + 1
          /\ \A i \in 1 .. n : Append(d, y)[i] = d[i]
          /\ Append(d, y)[n + 1] = y
          BY <1>2, <2>1, AppendProperties
    <3>3. \A i \in 1 .. n + 1 : SubSeq(files, 1, n + 1)[i] = Append(d, y)[i]
          BY <1>0, <1>2, <3>1, <3>2
    <3>4. QED
          BY <3>1, <3>2, <3>3, SeqEqual
  <2> HIDE DEF y
  <2>3. /\ FlattenSeq(Append(d, y)) = FlattenSeq(d) \o y
        /\ FlattenSeq(Append(d, y \o new)) = FlattenSeq(d) \o (y \o new)
        BY <1>2, <2>1, FlattenAppend
  <2> DEFINE g == FlattenSeq(d)
  <2>4. g \in Seq(S)
        BY <1>2, FlattenType
  <2> HIDE DEF g, d
  <2>5. g \o (y \o new) = (g \o y) \o new
        BY <2>1, <2>4
  <2>6. f[n + 1] = y \o new
        BY <1>1, <1>5 DEF y
  <2>7. QED
        BY <1>3, <1>5, <2>2, <2>3, <2>5, <2>6 DEF g, f
<1>6. QED
      BY <1>4, <1>5

\* Stored to the last file, or to a new one, what is new comes last.
LEMMA StoreLast ==
  ASSUME NEW S, NEW files \in Seq(Seq(S)), NEW n \in 0 .. Len(files),
         NEW open \in BOOLEAN, open => Len(files) = n + 1,
         ~open => Len(files) = n, NEW new \in Seq(S)
  PROVE  FlattenSeq(Store(files, n, open, new)) = FlattenSeq(files) \o new
<1> DEFINE f == Store(files, n, open, new)  m == IF open THEN n + 1 ELSE n
<1>0. open => n < Len(files)
      OBVIOUS
<1>1. m = Len(files) /\ Len(files) \in Nat
      OBVIOUS
<1>2. f \in Seq(Seq(S)) /\ Len(f) = n + 1
  <2>1. Stored(f, S, files, n, open, new)
        BY <1>0, StoreIs
  <2> HIDE DEF f
  <2>2. QED
        BY <1>1, <2>1 DEF Stored
<1>3. SubSeq(f, 1, n + 1) = f /\ SubSeq(files, 1, m) = files
      BY <1>1, <1>2, SubSeqFull
<1>4. FlattenSeq(SubSeq(f, 1, n + 1)) = FlattenSeq(SubSeq(files, 1, m)) \o new
      BY <1>0, StoreFlat
<1> HIDE DEF f, m
<1>5. FlattenSeq(f) = FlattenSeq(files) \o new
      BY <1>3, <1>4
<1>6. QED
      BY <1>5 DEF f

-----------------------------------------------------------------------------
(***************************************************************************)
(* Types.  They depend on where files go: Store writes no file but one     *)
(* that is there, or the next one.  The records, those in metas and those  *)
(* that wait, are the log of all that was saved, and the last of them has  *)
(* the last file of each kind that was finished.                           *)
(***************************************************************************)
All == loaded \o latest
Kind == {"data", "meta", "video"}
NextNumber(kind) == IF All = <<>> THEN 0 ELSE Last(All)[kind] + 1

\* No record before has a later file, and none of an earlier session this one.
Fits(kind, n) ==
  /\ \A i \in 1 .. Len(All) : All[i][kind] <= n
  /\ \A i \in 1 .. Len(loaded) : loaded[i][kind] < n

LogInv ==
  /\ FlattenSeq(metas) \o buffered = All
  /\ All # <<>> => \A kind \in Kind : \A i \in 1 .. Len(All) :
                     All[i][kind] <= Last(All)[kind]
  /\ latest # <<>> => \A kind \in Kind : \A i \in 1 .. Len(loaded) :
                        loaded[i][kind] < Last(latest)[kind]
  /\ NextNumber("data") <= Len(data) /\ NextNumber("video") <= Len(videos)

\* The file of the records that wait is open, or the next one.
Unflushed == pc # "over" /\ latest # <<>> /\ ~appending.meta

MetaInv ==
  /\ NextNumber("meta") = IF Unflushed THEN Len(metas) + 1 ELSE Len(metas)
  /\ Unflushed => buffered # <<>>
  /\ buffered # <<>> =>
       latest # <<>> /\ Head(buffered).meta = Last(latest).meta
  /\ pc = "over" => buffered = <<>> /\ ~appending.meta /\ ~appending.data
  /\ latest = <<>> => ~appending.meta

\* The episode being saved has its rows on disk, and its video.
Placed == {"video", "finish", "file", "meta"}

PartInv ==
  /\ pc \in Placed => part.data + 1 = Len(data) /\ Fits("data", part.data)
  /\ pc = "meta" => part.video + 1 = Len(videos) /\ Fits("video", part.video)
  /\ pc # "over" /\ latest # <<>> =>
       /\ pc \notin Placed => Len(data) = NextNumber("data")
       /\ pc # "meta" => Len(videos) = NextNumber("video")
  /\ pc \notin {"head", "over"} => recorded < NumEpisodes
  /\ appending.data <=>
       pc # "over" /\ (latest # <<>> \/ pc \in Placed)

FilesInv == LogInv /\ MetaInv /\ PartInv

DiskTypes ==
  /\ info \in [episodes : Nat, frames : Nat]
  /\ data \in Seq(Seq(Row)) /\ metas \in Seq(Seq(Record))
  /\ videos \in Seq(Seq(Frame))

ObjectTypes ==
  /\ {loaded, latest, buffered} \subseteq Seq(Record)
  /\ appending \in [data : BOOLEAN, meta : BOOLEAN]

EncoderType == [st : {"off", "on", "dead"}, queue : Seq(Frame), hand : Seq(Frame),
                out : Seq(Frame)]

TakeTypes ==
  /\ images \subseteq Image
  /\ size \in 0 .. MaxFrames /\ take \in 1 .. (MaxTakes + 1)
  /\ pc \notin {"head", "over"} => take <= MaxTakes
  /\ part \in Record /\ unwritten \subseteq Image
  /\ encoder \in EncoderType
  /\ Len(encoder.queue) <= QueueMax /\ Len(encoder.hand) <= 1
  /\ discarded \subseteq (Nat \X (1 .. MaxTakes)) /\ lost \subseteq Frame

LoopTypes ==
  /\ pc \in Saving \cup Looping \cup {"over"}
  /\ {exitEarly, rerecord, stop, streaming} \subseteq BOOLEAN
  /\ recorded \in 0 .. NumEpisodes
  /\ keys \in 0 .. MaxKeys /\ faults \in 0 .. MaxFaults
  /\ session \in 1 .. MaxSessions

LEMMA Types == TypeOK <=> DiskTypes /\ ObjectTypes /\ TakeTypes /\ LoopTypes
BY DEF TypeOK, DiskTypes, ObjectTypes, TakeTypes, LoopTypes, EncoderType

LEMMA NoRecordType == NoRecord \in Record
BY Bounds DEF NoRecord, Record

LEMMA OffType ==
  /\ Off \in EncoderType
  /\ Off.queue = <<>> /\ Off.hand = <<>> /\ Off.out = <<>> /\ Off.st = "off"
  /\ Len(Off.queue) = 0 /\ Len(Off.hand) = 0 /\ Len(Off.out) = 0
BY DEF Off, EncoderType

LEMMA RecordKinds ==
  ASSUME NEW r \in Record
  PROVE  /\ r["data"] = r.data /\ r["meta"] = r.meta /\ r["video"] = r.video
         /\ \A kind \in Kind : r[kind] \in Nat
BY DEF Record, Kind

LEMMA AllType ==
  ASSUME ObjectTypes
  PROVE  /\ All \in Seq(Record)
         /\ Len(All) = Len(loaded) + Len(latest)
         /\ Len(loaded) \in Nat /\ Len(latest) \in Nat
         /\ \A i \in 1 .. Len(loaded) : All[i] = loaded[i] /\ loaded[i] \in Record
         /\ All = <<>> <=> First
         /\ latest = <<>> => All = loaded
         /\ latest # <<>> => Last(All) = Last(latest) /\ Last(latest) \in Record
         /\ loaded # <<>> => Last(loaded) \in Record
         /\ All # <<>> => Last(All) \in Record /\ Len(All) \in 1 .. Len(All)
<1>1. loaded \in Seq(Record) /\ latest \in Seq(Record)
      BY DEF ObjectTypes
<1>2. /\ All \in Seq(Record) /\ Len(All) = Len(loaded) + Len(latest)
      /\ \A i \in 1 .. Len(All) :
           All[i] = IF i <= Len(loaded) THEN loaded[i] ELSE latest[i - Len(loaded)]
      BY <1>1, ConcatProperties DEF All
<1>3. /\ Len(loaded) \in Nat /\ Len(latest) \in Nat
      /\ loaded # <<>> <=> Len(loaded) # 0
      /\ latest # <<>> <=> Len(latest) # 0
      /\ All # <<>> <=> Len(All) # 0
      BY <1>1, <1>2
<1>4. \A i \in 1 .. Len(loaded) : All[i] = loaded[i] /\ loaded[i] \in Record
      BY <1>1, <1>2, <1>3
<1>5. All = <<>> <=> First
      BY <1>2, <1>3 DEF First
<1>6. latest = <<>> => All = loaded
      BY <1>1, ConcatEmptySeq, Zenon DEF All
<1>7. latest # <<>> => Last(All) = Last(latest) /\ Last(latest) \in Record
      BY <1>1, <1>2, <1>3 DEF Last
<1>8. /\ loaded # <<>> => Last(loaded) \in Record
      /\ All # <<>> => Last(All) \in Record /\ Len(All) \in 1 .. Len(All)
      BY <1>1, <1>2, <1>3 DEF Last
<1>9. QED
      BY <1>2, <1>3, <1>4, <1>5, <1>6, <1>7, <1>8

LEMMA NextType ==
  ASSUME ObjectTypes, NEW kind \in Kind
  PROVE  NextNumber(kind) \in Nat
BY AllType, RecordKinds DEF NextNumber

\* What is saved goes to the file of the record before, if it is of this session,
\* or to the next one.
LEMMA FileAfterIs ==
  ASSUME ObjectTypes, LogInv, NEW kind \in Kind, NEW n \in FileAfter(kind)
  PROVE  /\ n \in Nat /\ Fits(kind, n)
         /\ \/ n = NextNumber(kind) /\ ~Continues(kind, n)
            \/ n + 1 = NextNumber(kind) /\ Continues(kind, n)
<1>1. CASE First
  <2>1. n = 0 /\ NextNumber(kind) = 0 /\ latest = <<>>
        BY <1>1, AllType DEF FileAfter, NextNumber, First
  <2>2. Len(All) = 0 /\ Len(loaded) = 0
        BY <1>1, AllType DEF First, ObjectTypes
  <2>3. 1 .. Len(All) = {} /\ 1 .. Len(loaded) = {}
        BY <2>2
  <2>4. Fits(kind, n)
        BY <2>3 DEF Fits
  <2>5. ~Continues(kind, n)
        BY <2>1, Zenon DEF Continues
  <2>6. QED
        BY <2>1, <2>4, <2>5
<1>2. CASE ~First /\ latest = <<>>
  <2>1. All = loaded /\ All # <<>> /\ n = Last(All)[kind] + 1
        BY <1>2, AllType DEF FileAfter, NextFile
  <2>2. Last(All)[kind] \in Nat
        BY <2>1, AllType, RecordKinds
  <2>3. \A i \in 1 .. Len(All) : All[i][kind] \in Nat /\ All[i][kind] <= Last(All)[kind]
        BY <2>1, AllType, RecordKinds DEF LogInv
  <2>4. \A i \in 1 .. Len(All) : All[i][kind] < n
        BY <2>1, <2>2, <2>3
  <2>5. n \in Nat /\ n = NextNumber(kind)
        BY <2>1, <2>2 DEF NextNumber
  <2>6. \A i \in 1 .. Len(All) : All[i][kind] <= n
        BY <2>3, <2>4, <2>5
  <2>7. \A i \in 1 .. Len(loaded) : loaded[i][kind] < n
        BY <2>1, <2>4, Zenon
  <2>8. QED
        BY <1>2, <2>5, <2>6, <2>7 DEF Fits, Continues
<1>3. CASE latest # <<>>
  <2>1. /\ All # <<>> /\ Last(All) = Last(latest)
        /\ n = Last(All)[kind] \/ n = Last(All)[kind] + 1
        BY <1>3, AllType DEF FileAfter, NextFile, First
  <2>2. Last(All)[kind] \in Nat
        BY <2>1, AllType, RecordKinds
  <2>3. \A i \in 1 .. Len(All) : All[i][kind] \in Nat /\ All[i][kind] <= Last(All)[kind]
        BY <2>1, AllType, RecordKinds DEF LogInv
  <2>4. \A i \in 1 .. Len(loaded) :
          loaded[i][kind] \in Nat /\ loaded[i][kind] < Last(All)[kind]
        BY <1>3, <2>1, AllType, RecordKinds DEF LogInv
  <2>5. Fits(kind, n) /\ n \in Nat
        BY <2>1, <2>2, <2>3, <2>4 DEF Fits
  <2>6. QED
        BY <1>3, <2>1, <2>2, <2>5 DEF Continues, NextNumber
<1>4. QED
      BY <1>1, <1>2, <1>3

\* What is pending when the session ends, or before a next file is begun, goes to
\* the last file, or to the one that is due.
LEMMA FlushedIs ==
  ASSUME DiskTypes, ObjectTypes, LogInv, MetaInv, pc # "over"
  PROVE  /\ Flushed \in Seq(Seq(Record)) /\ FlattenSeq(Flushed) = All
         /\ Len(Flushed) = NextNumber("meta")
         /\ \A r \in ToSet(loaded) : Flushed[r.meta + 1] = metas[r.meta + 1]
<1>0. /\ metas \in Seq(Seq(Record)) /\ buffered \in Seq(Record)
      /\ loaded \in Seq(Record) /\ latest \in Seq(Record)
      /\ FlattenSeq(metas) \in Seq(Record)
      /\ FlattenSeq(metas) \o buffered = All
      /\ appending.meta \in BOOLEAN /\ Len(metas) \in Nat
      BY FlattenType DEF DiskTypes, ObjectTypes, LogInv
<1>1. CASE buffered = <<>>
  <2>1. Flushed = metas
        BY <1>1, Zenon DEF Flushed
  <2>2. FlattenSeq(metas) = All
        BY <1>0, <1>1, ConcatEmptySeq
  <2>3. Len(metas) = NextNumber("meta")
        BY <1>1 DEF MetaInv
  <2>4. QED
        BY <1>0, <2>1, <2>2, <2>3
<1>2. CASE buffered # <<>>
  <2> DEFINE n == Head(buffered).meta
  <2>1. /\ Flushed = Store(metas, n, appending.meta, buffered)
        /\ latest # <<>> /\ n = Last(latest).meta
        BY <1>2 DEF Flushed, MetaInv
  <2>2. n \in Nat /\ NextNumber("meta") = n + 1
        BY <2>1, AllType DEF NextNumber, First, Record
  <2>3. /\ appending.meta => Len(metas) = n + 1
        /\ ~appending.meta => Len(metas) = n
        BY <1>0, <2>1, <2>2 DEF MetaInv, Unflushed
  <2> HIDE DEF n
  <2>4. n \in 0 .. Len(metas) /\ (appending.meta => n < Len(metas))
        BY <1>0, <2>2, <2>3
  <2>5. FlattenSeq(Store(metas, n, appending.meta, buffered))
          = FlattenSeq(metas) \o buffered
        BY <1>0, <2>3, <2>4, StoreLast
  <2> DEFINE f == Store(metas, n, appending.meta, buffered)
  <2>6. Stored(f, Record, metas, n, appending.meta, buffered)
        BY <1>0, <2>4, StoreIs
  <2> HIDE DEF f
  <2>7. ASSUME NEW r \in ToSet(loaded) PROVE r.meta + 1 \in 1 .. n
    <3>1. PICK i \in 1 .. Len(loaded) : r = loaded[i]
          BY <2>7 DEF ToSet
    <3>2. loaded[i] \in Record
          BY <1>0
    <3>4. loaded[i]["meta"] < Last(latest)["meta"]
          BY <2>1, Zenon DEF LogInv, Kind
    <3>3. QED
          BY <3>1, <3>2, <3>4, <2>1, <2>2 DEF Record
  <2>8. \A r \in ToSet(loaded) : f[r.meta + 1] = metas[r.meta + 1]
        BY <2>6, <2>7 DEF Stored
  <2>9. f \in Seq(Seq(Record)) /\ Len(f) = NextNumber("meta")
        BY <2>2, <2>3, <2>6 DEF Stored
  <2>10. Flushed = f /\ FlattenSeq(f) = All
        BY <1>0, <2>1, <2>5 DEF f
  <2>11. QED
        BY <2>8, <2>9, <2>10
<1>3. QED
      BY <1>1, <1>2

\* The log with one more record.
LEMMA Grow ==
  ASSUME ObjectTypes, NEW r \in Record,
         loaded' = loaded, latest' = Append(latest, r)
  PROVE  /\ All' = Append(All, r) /\ latest' \in Seq(Record)
         /\ latest' # <<>> /\ Last(latest') = r /\ All' # <<>> /\ Last(All') = r
         /\ \A kind \in Kind : NextNumber(kind)' = r[kind] + 1
<1>1. loaded \in Seq(Record) /\ latest \in Seq(Record) /\ All \in Seq(Record)
      BY AllType DEF ObjectTypes
<1>2. loaded \o Append(latest, r) = Append(loaded \o latest, r)
      BY <1>1
<1>3. All' = Append(All, r)
      BY <1>2 DEF All
<1>4. /\ Append(All, r) # <<>> /\ Last(Append(All, r)) = r
      /\ Append(latest, r) # <<>> /\ Last(Append(latest, r)) = r
      /\ Append(latest, r) \in Seq(Record)
      BY <1>1, AppendProperties DEF Last
<1>5. QED
      BY <1>3, <1>4 DEF NextNumber

LEMMA GrowLog ==
  ASSUME ObjectTypes, NEW r \in Record,
         loaded' = loaded, latest' = Append(latest, r),
         \A kind \in Kind : Fits(kind, r[kind])
  PROVE  /\ \A kind \in Kind : \A i \in 1 .. Len(All') :
              All'[i][kind] <= Last(All')[kind]
         /\ \A kind \in Kind : \A i \in 1 .. Len(loaded') :
              loaded'[i][kind] < Last(latest')[kind]
<1>1. /\ All' = Append(All, r) /\ Last(All') = r /\ Last(latest') = r
      /\ All \in Seq(Record) /\ Len(All) \in Nat
      BY Grow, AllType
<1>2. ASSUME NEW kind \in Kind, NEW i \in 1 .. Len(All')
      PROVE  All'[i][kind] <= Last(All')[kind]
  <2>1. r[kind] \in Nat
        BY RecordKinds
  <2>2. /\ Len(All') = Len(All) + 1 /\ All'[Len(All) + 1] = r
        /\ \A j \in 1 .. Len(All) : All'[j] = All[j]
        BY <1>1, AppendProperties
  <2>3. CASE i = Len(All) + 1
        BY <1>1, <2>1, <2>2, <2>3
  <2>4. CASE i # Len(All) + 1
    <3>1. i \in 1 .. Len(All)
          BY <1>1, <2>2, <2>4
    <3>2. All[i][kind] <= r[kind]
          BY <3>1 DEF Fits
    <3>3. QED
          BY <1>1, <2>2, <3>1, <3>2
  <2>5. QED
        BY <2>3, <2>4
<1>3. ASSUME NEW kind \in Kind, NEW i \in 1 .. Len(loaded')
      PROVE  loaded'[i][kind] < Last(latest')[kind]
      BY <1>1 DEF Fits
<1>4. QED
      BY <1>2, <1>3

\* The fields of the record saved.
LEMMA PartRecord ==
  ASSUME TakeTypes, NEW n \in Nat, NEW from \in Nat
  PROVE  LET r == [part EXCEPT !.meta = n, !.from = from,
                               !.to = from + part.length] IN
         /\ r \in Record /\ r["meta"] = n /\ r.from = from /\ r.to = from + part.length
         /\ r["data"] = part.data /\ r["video"] = part.video /\ r.length = part.length
         /\ r.ep = part.ep /\ r.take = part.take
         /\ r.vfrom = part.vfrom /\ r.vto = part.vto
<1> DEFINE r == [part EXCEPT !.meta = n, !.from = from, !.to = from + part.length]
<1>1. part \in Record /\ from + part.length \in Nat
      BY DEF TakeTypes, Record
<1>2. r \in Record
      BY <1>1 DEF Record
<1>3. /\ r["meta"] = n /\ r.from = from /\ r.to = from + part.length
      /\ r["data"] = part.data /\ r["video"] = part.video /\ r.length = part.length
      BY <1>1 DEF Record
<1>4. /\ r.ep = part.ep /\ r.take = part.take
      /\ r.vfrom = part.vfrom /\ r.vto = part.vto
      BY <1>1 DEF Record
<1>5. QED
      BY <1>2, <1>3, <1>4
LEMMA EarlierFile ==
  ASSUME ObjectTypes, NEW kind \in Kind, NEW n \in Nat, Fits(kind, n),
         NEW r \in ToSet(loaded)
  PROVE  r \in Record /\ r[kind] + 1 \in 1 .. n
<1>1. PICK i \in 1 .. Len(loaded) : r = loaded[i]
      BY DEF ToSet
<1>2. r \in Record
      BY <1>1 DEF ObjectTypes
<1>3. r[kind] < n /\ r[kind] \in Nat
      BY <1>1, <1>2, RecordKinds DEF Fits
<1>4. QED
      BY <1>2, <1>3

(***************************************************************************)
(* The steps that write no file.                                           *)
(***************************************************************************)
LEMMA QuietFiles ==
  ASSUME FilesInv, UNCHANGED <<data, metas, videos, object>>,
         part' = part \/ pc' \notin Placed,
         pc' = pc \/ (pc # "over" /\ pc' # "over"),
         pc \in Placed <=> pc' \in Placed, pc = "meta" <=> pc' = "meta",
         pc' \notin {"head", "over"} => recorded' < NumEpisodes
  PROVE  FilesInv'
<1>1. /\ All' = All /\ loaded' = loaded /\ latest' = latest
      /\ \A kind \in Kind : NextNumber(kind)' = NextNumber(kind)
      BY DEF object, All, NextNumber
<1>3. LogInv'
      BY <1>1 DEF FilesInv, LogInv, object, Kind
<1>4. MetaInv'
      BY <1>1 DEF FilesInv, MetaInv, Unflushed, object, Kind
<1>5. PartInv'
  <2>1. pc' \in Placed => part' = part /\ pc \in Placed
        OBVIOUS
  <2>2. /\ pc' \in Placed =>
             part.data + 1 = Len(data) /\ Fits("data", part.data)
        /\ pc' = "meta" =>
             part.video + 1 = Len(videos) /\ Fits("video", part.video)
        BY <2>1 DEF FilesInv, PartInv
  <2>3. pc' \in Placed => (part.data + 1 = Len(data) /\ Fits("data", part.data))'
        BY <1>1, <2>1, <2>2 DEF object, Fits
  <2>4. pc' = "meta" => (part.video + 1 = Len(videos) /\ Fits("video", part.video))'
    <3>1. pc' = "meta" => part' = part
          BY DEF Placed
    <3>2. QED
          BY <1>1, <2>2, <3>1 DEF object, Fits
  <2>5. pc' # "over" /\ latest' # <<>> =>
          /\ pc' \notin Placed => Len(data') = NextNumber("data")'
          /\ pc' # "meta" => Len(videos') = NextNumber("video")'
        BY <1>1 DEF FilesInv, PartInv, object, Kind
  <2>6. appending'.data <=> pc' # "over" /\ (latest' # <<>> \/ pc' \in Placed)
        BY DEF FilesInv, PartInv, object
  <2>7. QED
        BY <2>3, <2>4, <2>5, <2>6, Zenon DEF PartInv
<1>6. QED
      BY <1>3, <1>4, <1>5 DEF FilesInv

\* The end of a session.
LEMMA FinalizedFiles ==
  ASSUME DiskTypes, ObjectTypes, FilesInv, pc # "over", NEW pngs, Finalized(pngs)
  PROVE  /\ FilesInv' /\ metas' \in Seq(Seq(Record))
         /\ \A r \in ToSet(loaded) : metas'[r.meta + 1] = metas[r.meta + 1]
<1>1. /\ metas' = Flushed /\ buffered' = <<>> /\ pc' = "over"
      /\ appending' = [data |-> FALSE, meta |-> FALSE]
      /\ UNCHANGED <<data, videos, loaded, latest, part, recorded>>
      BY DEF Finalized
<1>2. /\ Flushed \in Seq(Seq(Record)) /\ FlattenSeq(Flushed) = All
      /\ Len(Flushed) = NextNumber("meta")
      /\ \A r \in ToSet(loaded) : Flushed[r.meta + 1] = metas[r.meta + 1]
      BY FlushedIs DEF FilesInv
<1>3. /\ All' = All
      /\ \A kind \in Kind : NextNumber(kind)' = NextNumber(kind)
      BY <1>1 DEF All, NextNumber
<1>4. LogInv'
  <2>1. All \in Seq(Record)
        BY AllType
  <2>2. FlattenSeq(metas') \o buffered' = All'
        BY <1>1, <1>2, <1>3, <2>1, ConcatEmptySeq
  <2>3. QED
        BY <1>1, <1>3, <2>2 DEF FilesInv, LogInv, Kind
<1>5. MetaInv'
      BY <1>1, <1>2, <1>3 DEF MetaInv, Unflushed, Kind
<1>6. PartInv'
      BY <1>1 DEF PartInv, Placed
<1>7. QED
      BY <1>1, <1>2, <1>4, <1>5, <1>6 DEF FilesInv
(***************************************************************************)
(* The steps that write a file.                                            *)
(***************************************************************************)
NewRows == [i \in 1 .. size |->
              [ep |-> info.episodes, index |-> info.frames + i - 1,
               frame |-> [take |-> take, k |-> i - 1]]]

\* The rows go to the last data file, or to one after all that have a record.
LEMMA RowsStored ==
  ASSUME DiskTypes, ObjectTypes, TakeTypes, FilesInv, WriteRows
  PROVE  \E n \in Nat, j \in BOOLEAN :
           /\ Fits("data", n) /\ n \in 0 .. Len(data)
           /\ \/ ~j /\ n = NextNumber("data")
              \/ j /\ n + 1 = NextNumber("data") /\ Len(data) = n + 1
           /\ NewRows \in Seq(Row) /\ Len(NewRows) = size
           /\ data' = Store(data, n, j, NewRows)
           /\ part' = [NoRecord EXCEPT !.ep = info.episodes, !.take = take,
                                       !.length = size, !.data = n]
<1>1. PICK n \in FileAfter("data") :
        /\ part' = [NoRecord EXCEPT !.ep = info.episodes, !.take = take,
                                    !.length = size, !.data = n]
        /\ data' = Store(data, n, appending.data /\ Continues("data", n), NewRows)
      BY Zenon DEF WriteRows, NewRows
<1> DEFINE open == appending.data /\ Continues("data", n)
<1>2. pc = "save"
      BY DEF WriteRows
<1>3. /\ n \in Nat /\ Fits("data", n)
      /\ \/ n = NextNumber("data") /\ ~Continues("data", n)
         \/ n + 1 = NextNumber("data") /\ Continues("data", n)
      BY FileAfterIs DEF FilesInv, Kind
<1>4. /\ data \in Seq(Seq(Row)) /\ Len(data) \in Nat
      /\ NextNumber("data") <= Len(data)
      /\ latest # <<>> => Len(data) = NextNumber("data") /\ appending.data
      BY <1>2 DEF DiskTypes, FilesInv, LogInv, PartInv, Placed
<1>5. Continues("data", n) => latest # <<>>
      BY DEF Continues
<1>6. /\ n \in 0 .. Len(data) /\ open \in BOOLEAN
      /\ \/ ~open /\ n = NextNumber("data")
         \/ open /\ n + 1 = NextNumber("data") /\ Len(data) = n + 1
      BY <1>3, <1>4, <1>5
<1>7. NewRows \in Seq(Row) /\ Len(NewRows) = size
  <2>1. /\ info.episodes \in Nat /\ info.frames \in Nat /\ size \in 0 .. MaxFrames
        /\ take \in 1 .. MaxTakes /\ MaxFrames \in Nat
        BY <1>2, Bounds DEF DiskTypes, TakeTypes
  <2>2. ASSUME NEW i \in 1 .. size
        PROVE  [ep |-> info.episodes, index |-> info.frames + i - 1,
                frame |-> [take |-> take, k |-> i - 1]] \in Row
        BY <2>1 DEF Row, Frame
  <2>3. NewRows \in [1 .. size -> Row]
        BY <2>2 DEF NewRows
  <2>4. QED
        BY <2>1, <2>3
<1> HIDE DEF open
<1>8. data' = Store(data, n, open, NewRows)
      BY <1>1 DEF open
<1>9. QED
      BY <1>1, <1>3, <1>6, <1>7, <1>8

LEMMA RowsFiles ==
  ASSUME DiskTypes, ObjectTypes, TakeTypes, FilesInv, WriteRows
  PROVE  /\ FilesInv' /\ data' \in Seq(Seq(Row)) /\ part' \in Record
         /\ appending' \in [data : BOOLEAN, meta : BOOLEAN]
         /\ \A r \in ToSet(loaded) : data'[r.data + 1] = data[r.data + 1]
<1>1. PICK n \in Nat, j \in BOOLEAN :
           /\ Fits("data", n) /\ n \in 0 .. Len(data)
           /\ \/ ~j /\ n = NextNumber("data")
              \/ j /\ n + 1 = NextNumber("data") /\ Len(data) = n + 1
           /\ NewRows \in Seq(Row) /\ Len(NewRows) = size
           /\ data' = Store(data, n, j, NewRows)
           /\ part' = [NoRecord EXCEPT !.ep = info.episodes, !.take = take,
                                       !.length = size, !.data = n]
      BY RowsStored
<1>2. /\ pc = "save" /\ pc' \in {"finish", "video"} /\ size > 0
      /\ appending' = [appending EXCEPT !.data = TRUE]
      /\ UNCHANGED <<metas, videos, loaded, latest, buffered, recorded>>
      BY DEF WriteRows
<1>3. /\ data \in Seq(Seq(Row)) /\ Len(data) \in Nat
      /\ NextNumber("data") <= Len(data)
      BY DEF DiskTypes, FilesInv, LogInv
<1>4. Stored(data', Row, data, n, j, NewRows)
  <2>1. j => n < Len(data)
        BY <1>1, <1>3
  <2>2. Stored(Store(data, n, j, NewRows), Row, data, n, j, NewRows)
        BY <1>1, <1>3, <2>1, StoreIs
  <2>3. QED
        BY <1>1, <2>2
<1>5. /\ data' \in Seq(Seq(Row)) /\ Len(data') = n + 1
      /\ \A i \in 1 .. n : data'[i] = data[i]
      BY <1>1, <1>4 DEF Stored
<1>6. ASSUME NEW r \in ToSet(loaded) PROVE data'[r.data + 1] = data[r.data + 1]
  <2>1. r["data"] + 1 \in 1 .. n
        BY <1>1, EarlierFile DEF Kind
  <2>2. QED
        BY <1>5, <2>1
<1>7. part' \in Record /\ part'.data = n
      <2>1. /\ info.episodes \in Nat /\ size \in Nat /\ take \in 1 .. MaxTakes
            BY <1>2, Bounds DEF DiskTypes, TakeTypes
      <2>2. QED
            BY <1>1, <2>1, NoRecordType DEF Record, NoRecord
<1>8. /\ All' = All /\ loaded' = loaded /\ latest' = latest
      /\ \A kind \in Kind : NextNumber(kind)' = NextNumber(kind)
      BY <1>2 DEF All, NextNumber
<1>9. appending'.meta = appending.meta /\ appending'.data = TRUE
      /\ appending' \in [data : BOOLEAN, meta : BOOLEAN]
      BY <1>2 DEF ObjectTypes
<1>10. LogInv'
       BY <1>1, <1>2, <1>3, <1>5, <1>8 DEF FilesInv, LogInv, Kind
<1>11. MetaInv'
       BY <1>2, <1>8, <1>9 DEF FilesInv, MetaInv, Unflushed, Kind
<1>12. PartInv'
  <2>1. pc' \in Placed /\ pc' # "over" /\ pc' # "meta" /\ pc # "meta" /\ pc # "over"
        /\ pc \notin {"head", "over"}
        BY <1>2 DEF Placed
  <2>2. (part.data + 1 = Len(data) /\ Fits("data", part.data))'
        BY <1>1, <1>5, <1>7, <1>8 DEF Fits
  <2>3. pc' # "over" /\ latest' # <<>> =>
          /\ pc' \notin Placed => Len(data') = NextNumber("data")'
          /\ pc' # "meta" => Len(videos') = NextNumber("video")'
        BY <1>2, <1>8, <2>1 DEF FilesInv, PartInv, Kind
  <2>4. recorded' < NumEpisodes
        BY <1>2, <2>1 DEF FilesInv, PartInv
  <2>5. appending'.data <=> pc' # "over" /\ (latest' # <<>> \/ pc' \in Placed)
        BY <1>9, <2>1
  <2>6. QED
        BY <2>1, <2>2, <2>3, <2>4, <2>5 DEF PartInv
<1>13. QED
       BY <1>5, <1>6, <1>7, <1>9, <1>10, <1>11, <1>12 DEF FilesInv

\* The video joins the one before, or goes to a file after all that have a record.
LEMMA VideoStored ==
  ASSUME DiskTypes, ObjectTypes, TakeTypes, FilesInv, PlaceVideo
  PROVE  \E n \in Nat, v \in Nat, j \in BOOLEAN :
           /\ Fits("video", n) /\ (j <=> Continues("video", n))
           /\ \/ ~j /\ n = NextNumber("video") /\ v = 0
              \/ j /\ n + 1 = NextNumber("video") /\ v = Last(latest).vto
           /\ Stored(videos', Frame, videos, n, j, encoder.out)
           /\ Len(videos') = n + 1
           /\ part' = [part EXCEPT !.video = n, !.vfrom = v,
                                   !.vto = v + Len(encoder.out)]
<1> DEFINE joined(n) == Continues("video", n)
           from(n) == IF joined(n) THEN Last(latest).vto ELSE 0
<1>1. PICK n \in FileAfter("video") :
        /\ videos' = Store(videos, n, joined(n), encoder.out)
        /\ part' = [part EXCEPT !.video = n, !.vfrom = from(n),
                                !.vto = from(n) + Len(encoder.out)]
      BY Zenon DEF PlaceVideo
<1>2. pc = "file"
      BY DEF PlaceVideo
<1>3. /\ n \in Nat /\ Fits("video", n)
      /\ \/ n = NextNumber("video") /\ ~joined(n)
         \/ n + 1 = NextNumber("video") /\ joined(n)
      BY FileAfterIs DEF FilesInv, Kind
<1>4. /\ videos \in Seq(Seq(Frame)) /\ Len(videos) \in Nat
      /\ NextNumber("video") <= Len(videos)
      /\ latest # <<>> => Len(videos) = NextNumber("video")
      BY <1>2 DEF DiskTypes, FilesInv, LogInv, PartInv
<1>5. joined(n) => latest # <<>>
      BY DEF Continues
<1>6. /\ n \in 0 .. Len(videos) /\ joined(n) \in BOOLEAN
      /\ joined(n) => n < Len(videos) /\ Len(videos) = n + 1
      BY <1>3, <1>4, <1>5 DEF Continues
<1>7. from(n) \in Nat
      BY <1>5, AllType DEF Record
<1> DEFINE j == joined(n)  v == from(n)
<1>8. /\ v \in Nat /\ j \in BOOLEAN /\ (j <=> Continues("video", n))
      /\ \/ ~j /\ n = NextNumber("video") /\ v = 0
         \/ j /\ n + 1 = NextNumber("video") /\ v = Last(latest).vto
      BY <1>3, <1>6, <1>7
<1> HIDE DEF joined, from
<1>9. encoder.out \in Seq(Frame) /\ Len(encoder.out) \in Nat
      BY DEF TakeTypes, EncoderType
<1>10. Stored(Store(videos, n, j, encoder.out), Frame, videos, n, j, encoder.out)
      BY <1>4, <1>6, <1>9, StoreIs
<1>11. Stored(videos', Frame, videos, n, j, encoder.out)
      BY <1>1, <1>10
<1>12. Len(videos') = n + 1
      BY <1>6, <1>11 DEF Stored
<1> HIDE DEF j, v
<1>13. part' = [part EXCEPT !.video = n, !.vfrom = v, !.vto = v + Len(encoder.out)]
       BY <1>1 DEF v
<1>14. QED
       BY <1>3, <1>8, <1>11, <1>12, <1>13

LEMMA VideoFiles ==
  ASSUME DiskTypes, ObjectTypes, TakeTypes, FilesInv, PlaceVideo
  PROVE  /\ FilesInv' /\ videos' \in Seq(Seq(Frame)) /\ part' \in Record
         /\ \A r \in ToSet(loaded) : videos'[r.video + 1] = videos[r.video + 1]
<1>1. PICK n \in Nat, v \in Nat, j \in BOOLEAN :
           /\ Fits("video", n) /\ (j <=> Continues("video", n))
           /\ \/ ~j /\ n = NextNumber("video") /\ v = 0
              \/ j /\ n + 1 = NextNumber("video") /\ v = Last(latest).vto
           /\ Stored(videos', Frame, videos, n, j, encoder.out)
           /\ Len(videos') = n + 1
           /\ part' = [part EXCEPT !.video = n, !.vfrom = v,
                                   !.vto = v + Len(encoder.out)]
      BY VideoStored
<1>2. /\ pc = "file" /\ pc' = "meta"
      /\ UNCHANGED <<data, metas, loaded, latest, buffered, appending, recorded>>
      BY DEF PlaceVideo, object
<1>3. /\ videos' \in Seq(Seq(Frame)) /\ Len(videos') = n + 1
      /\ \A i \in 1 .. n : videos'[i] = videos[i]
      BY <1>1 DEF Stored
<1>4. ASSUME NEW r \in ToSet(loaded)
      PROVE  videos'[r.video + 1] = videos[r.video + 1]
  <2>1. r["video"] + 1 \in 1 .. n
        BY <1>1, EarlierFile DEF Kind
  <2>2. QED
        BY <1>3, <2>1
<1>5. part' \in Record /\ part'.video = n /\ part'.data = part.data
  <2>1. part \in Record /\ v + Len(encoder.out) \in Nat
        BY DEF TakeTypes, EncoderType
  <2>2. QED
        BY <1>1, <2>1 DEF Record
<1>6. /\ All' = All /\ loaded' = loaded /\ latest' = latest
      /\ \A kind \in Kind : NextNumber(kind)' = NextNumber(kind)
      BY <1>2 DEF All, NextNumber
<1>7. LogInv'
      BY <1>1, <1>2, <1>3, <1>6 DEF FilesInv, LogInv, Kind
<1>8. MetaInv'
      BY <1>2, <1>6 DEF FilesInv, MetaInv, Unflushed, Kind
<1>9. PartInv'
  <2>1. pc \in Placed /\ pc' \in Placed
        BY <1>2 DEF Placed
  <2>2. /\ part.data + 1 = Len(data) /\ Fits("data", part.data)
        /\ recorded < NumEpisodes
        /\ appending.data <=> pc # "over" /\ (latest # <<>> \/ pc \in Placed)
        BY <1>2, <2>1 DEF FilesInv, PartInv
  <2>3. (part.data + 1 = Len(data) /\ Fits("data", part.data))'
        BY <1>2, <1>5, <1>6, <2>2 DEF Fits
  <2>4. (part.video + 1 = Len(videos) /\ Fits("video", part.video))'
        BY <1>1, <1>3, <1>5, <1>6 DEF Fits
  <2>5. recorded' < NumEpisodes
        BY <1>2, <2>2
  <2>6. appending'.data <=> pc' # "over" /\ (latest' # <<>> \/ pc' \in Placed)
        BY <1>2, <2>1, <2>2
  <2>7. QED
        BY <1>2, <2>1, <2>3, <2>4, <2>5, <2>6 DEF PartInv
<1>10. QED
       BY <1>3, <1>4, <1>5, <1>7, <1>8, <1>9 DEF FilesInv

\* The record and the episodes' numbers of a file, in the names of SaveMetadata.
SavedRecord(n) ==
  LET from == IF First THEN 0 ELSE Last(loaded \o latest).to
  IN [part EXCEPT !.meta = n, !.from = from, !.to = from + part.length]

LEMMA MetadataFiles ==
  ASSUME DiskTypes, ObjectTypes, TakeTypes, FilesInv, SaveMetadata
  PROVE  /\ FilesInv' /\ metas' \in Seq(Seq(Record))
         /\ latest' \in Seq(Record) /\ buffered' \in Seq(Record)
         /\ appending' \in [data : BOOLEAN, meta : BOOLEAN]
         /\ \A r \in ToSet(loaded) : metas'[r.meta + 1] = metas[r.meta + 1]
<1> DEFINE nextf(n) == latest # <<>> /\ ~Continues("meta", n)
           diskf(n) == IF nextf(n) THEN Flushed ELSE metas
           openf(n) == appending.meta /\ ~nextf(n)
           waitf(n) == IF nextf(n) THEN <<SavedRecord(n)>>
                       ELSE Append(buffered, SavedRecord(n))
           fullf(n) == Len(waitf(n)) >= MetaBuffer
<1>1. PICK n \in FileAfter("meta") :
        /\ latest' = Append(latest, SavedRecord(n))
        /\ metas' = IF fullf(n)
                    THEN Store(diskf(n), Head(waitf(n)).meta, openf(n), waitf(n))
                    ELSE diskf(n)
        /\ buffered' = IF fullf(n) THEN <<>> ELSE waitf(n)
        /\ appending' = [appending EXCEPT !.meta = openf(n) \/ fullf(n)]
      BY DEF SaveMetadata, SavedRecord
<1> DEFINE r == SavedRecord(n)  next == nextf(n)  onDisk == diskf(n)
           open == openf(n)  waiting == waitf(n)  full == fullf(n)
<1>2. /\ pc = "meta" /\ pc' = "info"
      /\ UNCHANGED <<data, videos, loaded, part, recorded>>
      BY DEF SaveMetadata
<1>3. /\ n \in Nat /\ Fits("meta", n)
      /\ \/ n = NextNumber("meta") /\ ~Continues("meta", n)
         \/ n + 1 = NextNumber("meta") /\ Continues("meta", n)
      BY FileAfterIs DEF FilesInv, Kind
<1>4. /\ r \in Record /\ r["meta"] = n
      /\ r["data"] = part.data /\ r["video"] = part.video
  <2> DEFINE from == IF First THEN 0 ELSE Last(loaded \o latest).to
  <2>1. from \in Nat
        BY AllType DEF All, Record
  <2> DEFINE q == [part EXCEPT !.meta = n, !.from = from, !.to = from + part.length]
  <2>2. r = q
        BY DEF SavedRecord
  <2> HIDE DEF from, r
  <2>3. /\ q \in Record /\ q["meta"] = n
        /\ q["data"] = part.data /\ q["video"] = part.video
        BY <1>3, <2>1, PartRecord
  <2> HIDE DEF q
  <2>4. QED
        BY <2>2, <2>3
<1>5. /\ metas \in Seq(Seq(Record)) /\ Len(metas) \in Nat /\ buffered \in Seq(Record)
      /\ FlattenSeq(metas) \o buffered = All /\ All \in Seq(Record)
      /\ appending.meta \in BOOLEAN /\ appending \in [data : BOOLEAN, meta : BOOLEAN]
      BY AllType DEF FilesInv, LogInv, DiskTypes, ObjectTypes
<1>6. /\ Flushed \in Seq(Seq(Record)) /\ FlattenSeq(Flushed) = All
      /\ Len(Flushed) = NextNumber("meta")
      /\ \A x \in ToSet(loaded) : Flushed[x.meta + 1] = metas[x.meta + 1]
      BY <1>2, FlushedIs DEF FilesInv
<1>7. next \in BOOLEAN /\ open \in BOOLEAN /\ full \in BOOLEAN
      BY <1>5 DEF Continues
<1>8. /\ waiting \in Seq(Record) /\ waiting # <<>> /\ Head(waiting).meta = n
  <2>1. CASE next
        BY <1>4, <2>1
  <2>2. CASE ~next
    <3>1. waiting = Append(buffered, r)
          BY <2>2
    <3>2. buffered # <<>> => Head(buffered).meta = n
          BY <2>2 DEF FilesInv, MetaInv, Continues
    <3> HIDE DEF waiting, r
    <3>3. waiting \in Seq(Record) /\ waiting # <<>>
          BY <1>4, <1>5, <3>1
    <3>4. Head(waiting) = IF buffered = <<>> THEN r ELSE Head(buffered)
          BY <1>4, <1>5, <3>1
    <3>5. QED
          BY <1>4, <3>2, <3>3, <3>4
  <2>3. QED
        BY <2>1, <2>2
<1>9. /\ onDisk \in Seq(Seq(Record))
      /\ FlattenSeq(onDisk) \o waiting = Append(All, r)
      /\ \A x \in ToSet(loaded) : onDisk[x.meta + 1] = metas[x.meta + 1]
  <2>1. CASE next
    <3>1. onDisk = Flushed /\ waiting = <<r>>
          BY <2>1
    <3>2. All \o <<r>> = Append(All, r)
          BY <1>4, <1>5
    <3>3. QED
          BY <1>6, <3>1, <3>2
  <2>2. CASE ~next
    <3>1. onDisk = metas /\ waiting = Append(buffered, r)
          BY <2>2
    <3> DEFINE f == FlattenSeq(metas)
    <3>2. f \in Seq(Record)
          BY <1>5, FlattenType
    <3> HIDE DEF f, r
    <3>3. f \o Append(buffered, r) = Append(f \o buffered, r)
          BY <1>4, <1>5, <3>2
    <3>4. QED
          BY <1>5, <3>1, <3>3 DEF f
  <2>3. QED
        BY <2>1, <2>2
<1>10. /\ open => Len(onDisk) = n + 1
       /\ ~open => Len(onDisk) = n
  <2>1. CASE next
        BY <1>3, <1>6, <2>1
  <2>2. CASE ~next /\ latest = <<>>
    <3>1. ~open /\ onDisk = metas /\ ~Continues("meta", n) /\ ~Unflushed
          BY <2>2 DEF FilesInv, MetaInv, Continues, Unflushed
    <3>2. NextNumber("meta") = Len(metas)
          BY <3>1 DEF FilesInv, MetaInv
    <3>3. QED
          BY <1>3, <3>1, <3>2
  <2>3. CASE ~next /\ latest # <<>>
    <3>1. n + 1 = NextNumber("meta") /\ onDisk = metas /\ open = appending.meta
          BY <1>3, <1>5, <2>3
    <3>2. Unflushed <=> ~open
          BY <1>2, <2>3, <3>1 DEF Unflushed
    <3>3. NextNumber("meta") = IF Unflushed THEN Len(metas) + 1 ELSE Len(metas)
          BY DEF FilesInv, MetaInv
    <3>4. QED
          BY <1>3, <1>5, <3>1, <3>2, <3>3
  <2>4. QED
        BY <2>1, <2>2, <2>3
<1> HIDE DEF r, next, onDisk, open, waiting, full
<1>11. /\ latest' = Append(latest, r)
       /\ full => metas' = Store(onDisk, n, open, waiting) /\ buffered' = <<>>
       /\ ~full => metas' = onDisk /\ buffered' = waiting
       /\ appending' = [appending EXCEPT !.meta = open \/ full]
       BY <1>1, <1>8 DEF r, next, onDisk, open, waiting, full
<1>12. /\ All' = Append(All, r) /\ latest' \in Seq(Record) /\ latest' # <<>>
       /\ Last(latest') = r /\ All' # <<>>
       /\ \A kind \in Kind : NextNumber(kind)' = r[kind] + 1
       BY <1>2, <1>4, <1>11, Grow
<1>13. Len(onDisk) \in Nat /\ n \in 0 .. Len(onDisk) /\ (open => n < Len(onDisk))
       BY <1>3, <1>9, <1>10
<1>14. full => /\ metas' \in Seq(Seq(Record)) /\ Len(metas') = n + 1
               /\ FlattenSeq(metas') = Append(All, r)
               /\ \A i \in 1 .. n : metas'[i] = onDisk[i]
  <2>1. SUFFICES ASSUME full PROVE /\ metas' \in Seq(Seq(Record))
                                   /\ Len(metas') = n + 1
                                   /\ FlattenSeq(metas') = Append(All, r)
                                   /\ \A i \in 1 .. n : metas'[i] = onDisk[i]
        OBVIOUS
  <2>2. Stored(Store(onDisk, n, open, waiting), Record, onDisk, n, open, waiting)
        BY <1>7, <1>8, <1>9, <1>13, StoreIs
  <2>3. FlattenSeq(Store(onDisk, n, open, waiting)) = FlattenSeq(onDisk) \o waiting
        BY <1>7, <1>8, <1>9, <1>10, <1>13, StoreLast
  <2>4. metas' = Store(onDisk, n, open, waiting)
        BY <1>11, <2>1
  <2>5. FlattenSeq(metas') = Append(All, r)
        BY <1>9, <2>3, <2>4
  <2>6. Stored(metas', Record, onDisk, n, open, waiting)
        BY <2>2, <2>4
  <2>7. QED
        BY <1>10, <2>5, <2>6 DEF Stored
<1>15. metas' \in Seq(Seq(Record)) /\ buffered' \in Seq(Record)
  <2>1. CASE full
        BY <1>11, <1>14, <2>1
  <2>2. CASE ~full
        BY <1>8, <1>9, <1>11, <2>2
  <2>3. QED
        BY <2>1, <2>2
<1>16. ASSUME NEW x \in ToSet(loaded) PROVE metas'[x.meta + 1] = metas[x.meta + 1]
  <2>1. x["meta"] + 1 \in 1 .. n
        BY <1>3, EarlierFile DEF Kind
  <2>2. metas'[x.meta + 1] = onDisk[x.meta + 1]
        BY <1>11, <1>14, <2>1
  <2>3. QED
        BY <1>9, <2>2
<1>17. FlattenSeq(metas') \o buffered' = All'
  <2>1. CASE full
    <3>1. Append(All, r) \o <<>> = Append(All, r)
          BY <1>4, <1>5, ConcatEmptySeq
    <3>2. QED
          BY <1>11, <1>12, <1>14, <2>1, <3>1
  <2>2. CASE ~full
        BY <1>9, <1>11, <1>12, <2>2
  <2>3. QED
        BY <2>1, <2>2
<1>18. /\ part.data + 1 = Len(data) /\ Fits("data", part.data)
       /\ part.video + 1 = Len(videos) /\ Fits("video", part.video)
       /\ recorded < NumEpisodes /\ appending.data
       BY <1>2 DEF FilesInv, PartInv, Placed
<1>19. NextNumber("data")' = Len(data) /\ NextNumber("video")' = Len(videos)
       BY <1>4, <1>12, <1>18 DEF Kind
<1>20. LogInv'
  <2>1. \A kind \in Kind : Fits(kind, r[kind])
        BY <1>3, <1>4, <1>18 DEF Kind
  <2>2. /\ \A kind \in Kind : \A i \in 1 .. Len(All') : All'[i][kind] <= Last(All')[kind]
        /\ \A kind \in Kind : \A i \in 1 .. Len(loaded') :
             loaded'[i][kind] < Last(latest')[kind]
        BY <1>2, <1>4, <1>11, <2>1, GrowLog
  <2>3. Len(data) \in Nat /\ Len(videos) \in Nat
        BY DEF DiskTypes
  <2>4. NextNumber("data")' <= Len(data') /\ NextNumber("video")' <= Len(videos')
        BY <1>2, <1>19, <2>3
  <2>5. QED
        BY <1>17, <2>2, <2>4 DEF LogInv
<1>21. appending'.meta = (open \/ full) /\ appending'.data = appending.data
       /\ appending' \in [data : BOOLEAN, meta : BOOLEAN]
       BY <1>5, <1>7, <1>11
<1>22. MetaInv'
  <2>1. Unflushed' <=> ~open /\ ~full
        BY <1>2, <1>12, <1>21 DEF Unflushed
  <2>2. NextNumber("meta")' = n + 1
        BY <1>4, <1>12 DEF Kind
  <2>3. NextNumber("meta")' = IF Unflushed' THEN Len(metas') + 1 ELSE Len(metas')
        BY <1>10, <1>11, <1>14, <2>1, <2>2
  <2>4. buffered' # <<>> => buffered' = waiting
        BY <1>11
  <2>5. Unflushed' => buffered' # <<>>
        BY <1>8, <1>11, <2>1
  <2>6. r.meta = n
        BY <1>4
  <2>7. QED
        BY <1>2, <1>8, <1>12, <2>3, <2>4, <2>5, <2>6 DEF MetaInv
<1>23. PartInv'
       BY <1>2, <1>18, <1>19, <1>12, <1>21 DEF PartInv, Placed
<1>24. QED
       BY <1>12, <1>15, <1>16, <1>20, <1>21, <1>22, <1>23 DEF FilesInv
\* The next session.
LEMMA ResumeFiles ==
  ASSUME DiskTypes, ObjectTypes, FilesInv, Resume
  PROVE  FilesInv' /\ loaded' \in Seq(Record) /\ All' = All
<1>1. /\ pc = "over" /\ pc' = "head" /\ latest' = <<>>
      /\ loaded' = FlattenSeq(metas)
      /\ UNCHANGED <<data, metas, videos, buffered, appending>>
      BY DEF Resume, disk
<1>2. buffered = <<>> /\ ~appending.meta /\ ~appending.data /\ ~Unflushed
      BY <1>1 DEF FilesInv, MetaInv, Unflushed
<1>3. FlattenSeq(metas) \in Seq(Record) /\ FlattenSeq(metas) = All
  <2>1. FlattenSeq(metas) \in Seq(Record)
        BY FlattenType DEF DiskTypes
  <2>2. FlattenSeq(metas) \o buffered = All
        BY DEF FilesInv, LogInv
  <2>3. QED
        BY <1>2, <2>1, <2>2, ConcatEmptySeq
<1>4. All' = All
  <2>1. All' = loaded' \o latest'
        BY DEF All
  <2> DEFINE f == FlattenSeq(metas)
  <2> HIDE DEF f
  <2>2. f \o <<>> = f
        BY <1>3, ConcatEmptySeq DEF f
  <2>3. QED
        BY <1>1, <1>3, <2>1, <2>2 DEF f
<1>5. \A kind \in Kind : NextNumber(kind)' = NextNumber(kind)
      BY <1>4 DEF NextNumber
<1>6. LogInv'
      BY <1>1, <1>4, <1>5 DEF FilesInv, LogInv, Kind
<1>7. MetaInv'
      BY <1>1, <1>2, <1>5 DEF FilesInv, MetaInv, Unflushed, Kind
<1>8. PartInv'
      BY <1>1, <1>2 DEF PartInv, Placed
<1>9. QED
      BY <1>1, <1>3, <1>4, <1>6, <1>7, <1>8 DEF FilesInv

LEMMA FilesInit ==
  ASSUME Init
  PROVE  FilesInv
<1>1. /\ data = <<>> /\ metas = <<>> /\ videos = <<>> /\ buffered = <<>>
      /\ loaded = <<>> /\ latest = <<>> /\ pc = "head"
      /\ appending = [data |-> FALSE, meta |-> FALSE]
      BY DEF Init
<1>2. All = <<>> /\ FlattenSeq(metas) = <<>>
      BY <1>1, FlattenEmpty, ConcatEmptySeq DEF All
<1>3. \A kind \in Kind : NextNumber(kind) = 0
      BY <1>2 DEF NextNumber
<1>4. Len(data) = 0 /\ Len(metas) = 0 /\ Len(videos) = 0
      BY <1>1
<1>5. LogInv
      BY <1>1, <1>2, <1>3, <1>4 DEF LogInv, Kind
<1>6. MetaInv
      BY <1>1, <1>3, <1>4 DEF MetaInv, Unflushed, Kind
<1>7. PartInv
      BY <1>1 DEF PartInv, Placed
<1>8. QED
      BY <1>5, <1>6, <1>7 DEF FilesInv

(***************************************************************************)
(* Types, one step at a time.                                              *)
(***************************************************************************)
LEMMA TypeInit ==
  ASSUME Init
  PROVE  TypeOK
<1>1. DiskTypes /\ ObjectTypes
      BY DEF Init, DiskTypes, ObjectTypes
<1>2. TakeTypes
  <2>1. /\ images = {} /\ size = 0 /\ take = 1 /\ part = NoRecord
        /\ unwritten = {} /\ encoder = Off /\ discarded = {} /\ lost = {}
        /\ pc = "head"
        BY DEF Init
  <2>2. QED
        BY <2>1, Bounds, OffType, NoRecordType DEF TakeTypes
<1>3. LoopTypes
  <2>1. /\ pc = "head" /\ exitEarly = FALSE /\ rerecord = FALSE /\ stop = FALSE
        /\ streaming \in BOOLEAN /\ recorded = 0
        /\ keys = 0 /\ faults = 0 /\ session = 1
        BY DEF Init
  <2>2. {exitEarly, rerecord, stop, streaming} \subseteq BOOLEAN
        BY <2>1
  <2>3. QED
        BY <2>1, <2>2, Bounds DEF LoopTypes, Looping
<1>4. QED
      BY <1>1, <1>2, <1>3, Types

LEMMA CleanedType ==
  ASSUME TakeTypes
  PROVE  images \subseteq Image /\ Cleaned \subseteq images
BY DEF TakeTypes, Cleaned

\* The end of a session.
LEMMA FinalizedTypes ==
  ASSUME TypeOK, FilesInv, pc # "over", NEW pngs \in SUBSET Image, Finalized(pngs),
         faults' \in 0 .. MaxFaults
  PROVE  TypeOK'
<1>1. DiskTypes /\ ObjectTypes /\ TakeTypes /\ LoopTypes
      BY Types
<1>2. metas' \in Seq(Seq(Record))
      BY <1>1, FinalizedFiles
<1>3. DiskTypes' /\ ObjectTypes'
      BY <1>1, <1>2 DEF DiskTypes, ObjectTypes, Finalized
<1>4. TakeTypes'
      BY <1>1, OffType, Bounds DEF TakeTypes, Finalized
<1>5. LoopTypes'
      BY <1>1 DEF LoopTypes, Finalized, events
<1>6. QED
      BY <1>3, <1>4, <1>5, Types, PTL
\* A frame is added.
LEMMA AddFrameTypes ==
  ASSUME TypeOK, AddFrame
  PROVE  TypeOK'
<1> DEFINE frame == [take |-> take, k |-> size]
<1>1. DiskTypes /\ ObjectTypes /\ TakeTypes /\ LoopTypes
      BY Types
<1>2. /\ size < MaxFrames /\ size' = size + 1 /\ pc = "record"
      /\ IF streaming THEN Streamed(frame) ELSE Queued(frame)
      /\ UNCHANGED <<disk, images, object, take, part, pc, events, recorded,
                     streaming, bounds, discarded>>
      BY DEF AddFrame
<1>3. /\ size \in Nat /\ size \in 0 .. (MaxFrames - 1) /\ take \in 1 .. MaxTakes
      /\ info.episodes \in Nat /\ unwritten \subseteq Image
      /\ encoder \in EncoderType /\ lost \subseteq Frame
      /\ Len(encoder.queue) <= QueueMax /\ QueueMax \in Nat
      /\ Len(encoder.hand) <= 1
      BY <1>1, <1>2, Bounds DEF TakeTypes, DiskTypes
<1>4. frame \in Frame /\ [ep |-> info.episodes, k |-> size, frame |-> frame] \in Image
      BY <1>3 DEF Frame, Image
<1>5. /\ unwritten' \subseteq Image /\ encoder' \in EncoderType
      /\ Len(encoder'.queue) <= QueueMax /\ Len(encoder'.hand) <= 1
      /\ lost' \subseteq Frame
  <2>1. CASE streaming
    <3> DEFINE e == IF size = 0 THEN [Off EXCEPT !.st = "on"] ELSE encoder
    <3>1. /\ e \in EncoderType
          /\ Len(e.queue) <= QueueMax /\ Len(e.hand) <= 1
      <4>1. [Off EXCEPT !.st = "on"].queue = <<>> /\ [Off EXCEPT !.st = "on"].hand = <<>>
            BY DEF Off
      <4>2. [Off EXCEPT !.st = "on"] \in EncoderType
            BY OffType DEF EncoderType
      <4>3. Len(<<>>) = 0
            OBVIOUS
      <4>4. QED
            BY <1>3, <4>1, <4>2, <4>3
    <3>2. /\ \/ /\ Len(e.queue) < QueueMax
                /\ encoder' = [e EXCEPT !.queue = Append(@, frame)]
             \/ encoder' = e
          /\ unwritten' = unwritten /\ lost' \in {lost, lost \cup {frame}}
          BY <1>2, <2>1 DEF Streamed
    <3> HIDE DEF e, frame
    <3>3. CASE encoder' = e
          BY <1>3, <1>4, <3>1, <3>2, <3>3
    <3>4. CASE Len(e.queue) < QueueMax /\ encoder' = [e EXCEPT !.queue = Append(@, frame)]
      <4>1. Append(e.queue, frame) \in Seq(Frame)
            /\ Len(Append(e.queue, frame)) = Len(e.queue) + 1
            BY <1>4, <3>1 DEF EncoderType
      <4>2. /\ encoder'.queue = Append(e.queue, frame) /\ encoder'.hand = e.hand
            /\ encoder' \in EncoderType
            BY <3>1, <3>4, <4>1 DEF EncoderType
      <4>3. Len(e.queue) \in Nat
            BY <3>1 DEF EncoderType
      <4>4. QED
            BY <1>3, <1>4, <3>1, <3>2, <3>4, <4>1, <4>2, <4>3
    <3>5. QED
          BY <3>2, <3>3, <3>4
  <2>2. CASE ~streaming
    <3> DEFINE image == [ep |-> info.episodes, k |-> size, frame |-> frame]
    <3>1. unwritten' = unwritten \cup {image} /\ encoder' = encoder /\ lost' = lost
          BY <1>2, <2>2 DEF Queued
    <3> HIDE DEF image
    <3>2. unwritten' \subseteq Image
          BY <1>3, <1>4, <3>1 DEF image
    <3>3. QED
          BY <1>3, <3>1, <3>2
  <2>3. QED
        BY <2>1, <2>2
<1>6. DiskTypes' /\ ObjectTypes'
      BY <1>1, <1>2 DEF DiskTypes, ObjectTypes, disk, object
<1>7. TakeTypes'
      BY <1>1, <1>2, <1>3, <1>5, Bounds DEF TakeTypes
<1>8. LoopTypes'
      BY <1>1, <1>2 DEF LoopTypes, events, bounds
<1>9. QED
      BY <1>6, <1>7, <1>8, Types, PTL

\* The images are encoded.
LEMMA EncodeImagesTypes ==
  ASSUME TypeOK, EncodeImages
  PROVE  TypeOK'
<1>1. DiskTypes /\ ObjectTypes /\ TakeTypes /\ LoopTypes
      BY Types
<1> DEFINE mine == {i \in images : i.ep = info.episodes}
<1>2. /\ images' = images \ mine /\ pc' = "file"
      /\ UNCHANGED <<disk, object, size, take, part, unwritten, events, recorded,
                     streaming, bounds, discarded, lost>>
      /\ pc = "video"
      BY DEF EncodeImages
<1>3. PICK n \in 0 .. MaxFrames :
        \E inOrder \in [1 .. n -> mine] :
          encoder' = [Off EXCEPT !.out = [i \in 1 .. n |-> inOrder[i].frame]]
      BY DEF EncodeImages
<1>11. PICK inOrder \in [1 .. n -> mine] :
         encoder' = [Off EXCEPT !.out = [i \in 1 .. n |-> inOrder[i].frame]]
      BY <1>3
<1> DEFINE out == [i \in 1 .. n |-> inOrder[i].frame]
<1>4. out \in Seq(Frame)
  <2>1. ASSUME NEW i \in 1 .. n PROVE inOrder[i].frame \in Frame
    <3>1. inOrder[i] \in Image
          BY <1>1 DEF TakeTypes
    <3>2. QED
          BY <3>1 DEF Image
  <2>2. n \in Nat
        BY Bounds
  <2>3. QED
        BY <2>1, <2>2
<1>5. /\ encoder' \in EncoderType
      /\ encoder'.queue = <<>> /\ encoder'.hand = <<>>
  <2>1. encoder' = [Off EXCEPT !.out = out]
        BY <1>11
  <2> HIDE DEF out
  <2>2. QED
        BY <1>4, <2>1, OffType DEF EncoderType
<1>6. Len(encoder'.queue) <= QueueMax /\ Len(encoder'.hand) <= 1
  <2>1. Len(<<>>) = 0
        OBVIOUS
  <2>2. QED
        BY <1>5, <2>1, Bounds
<1>7. DiskTypes' /\ ObjectTypes'
      BY <1>1, <1>2 DEF DiskTypes, ObjectTypes, disk, object
<1>8. TakeTypes'
      BY <1>1, <1>2, <1>5, <1>6 DEF TakeTypes
<1>9. LoopTypes'
      BY <1>1, <1>2 DEF LoopTypes, Saving, events, bounds
<1>10. QED
      BY <1>7, <1>8, <1>9, Types, PTL

\* The threads, and the keys.
LEMMA ThreadTypes ==
  ASSUME TypeOK, Press \/ WriteImage \/ TakeFrame \/ EncodeFrame \/ EncoderFails
  PROVE  TypeOK'
<1>1. DiskTypes /\ ObjectTypes /\ TakeTypes /\ LoopTypes
      BY Types
<1>2. UNCHANGED <<disk, object, size, take, part, pc, discarded>>
      BY DEF Press, WriteImage, TakeFrame, EncodeFrame, EncoderFails
<1>3. DiskTypes' /\ ObjectTypes'
      BY <1>1, <1>2 DEF DiskTypes, ObjectTypes, disk, object
<1>4. CASE Press
  <2>1. TakeTypes'
        BY <1>1, <1>4 DEF TakeTypes, Press
  <2>2. keys' \in 0 .. MaxKeys
        BY <1>1, <1>4, Bounds DEF LoopTypes, Press
  <2>3. {exitEarly', rerecord', stop', streaming'} \subseteq BOOLEAN
        BY <1>1, <1>4 DEF LoopTypes, Press
  <2>4. UNCHANGED <<pc, recorded, faults, session>>
        BY <1>4 DEF Press
  <2>5. LoopTypes'
        BY <1>1, <2>2, <2>3, <2>4 DEF LoopTypes
  <2>6. QED
        BY <1>3, <2>1, <2>5, Types, PTL
<1>5. CASE WriteImage
  <2>1. PICK i \in unwritten :
          /\ unwritten' = unwritten \ {i}
          /\ images' \in {images, {j \in images : j.ep # i.ep \/ j.k # i.k} \cup {i}}
          /\ lost' \in {lost, lost \cup {i.frame}}
        BY <1>5 DEF WriteImage
  <2>2. i \in Image /\ i.frame \in Frame
        BY <1>1 DEF TakeTypes, Image
  <2>3. images' \subseteq Image /\ unwritten' \subseteq Image /\ lost' \subseteq Frame
        BY <1>1, <2>1, <2>2 DEF TakeTypes
  <2>4. TakeTypes'
        BY <1>1, <1>2, <1>5, <2>3 DEF TakeTypes, WriteImage
  <2>5. LoopTypes'
        BY <1>1, <1>5 DEF LoopTypes, WriteImage, events, bounds
  <2>6. QED
        BY <1>3, <2>4, <2>5, Types, PTL
<1>6. CASE TakeFrame \/ EncodeFrame \/ EncoderFails
  <2> DEFINE q == encoder.queue  h == encoder.hand  o == encoder.out
  <2>1. /\ q \in Seq(Frame) /\ h \in Seq(Frame) /\ o \in Seq(Frame)
        /\ encoder \in EncoderType /\ Len(q) <= QueueMax /\ Len(h) <= 1
        BY <1>1 DEF TakeTypes, EncoderType
  <2>2. \/ q # <<>> /\ encoder' = [encoder EXCEPT !.queue = Tail(q), !.hand = <<Head(q)>>]
        \/ encoder' = [encoder EXCEPT !.hand = <<>>, !.out = o \o h]
        \/ encoder' = [encoder EXCEPT !.st = "dead", !.hand = <<>>]
        BY <1>6 DEF TakeFrame, EncodeFrame, EncoderFails
  <2>3. /\ encoder' \in EncoderType /\ Len(encoder'.queue) <= QueueMax
        /\ Len(encoder'.hand) <= 1
    <3> HIDE DEF q, h, o
    <3>0. Len(<<>>) = 0
          OBVIOUS
    <3>1. CASE q # <<>> /\ encoder' = [encoder EXCEPT !.queue = Tail(q), !.hand = <<Head(q)>>]
      <4>1. /\ Head(q) \in Frame /\ Tail(q) \in Seq(Frame) /\ Len(Tail(q)) = Len(q) - 1
            /\ <<Head(q)>> \in Seq(Frame) /\ Len(<<Head(q)>>) = 1 /\ Len(q) \in Nat
            BY <2>1, <3>1
      <4>2. /\ encoder' \in EncoderType
            /\ encoder'.queue = Tail(q) /\ encoder'.hand = <<Head(q)>>
            BY <2>1, <3>1, <4>1 DEF EncoderType
      <4>3. QED
            BY <2>1, <4>1, <4>2, Bounds
    <3>2. CASE encoder' = [encoder EXCEPT !.hand = <<>>, !.out = o \o h]
      <4>1. o \o h \in Seq(Frame) /\ <<>> \in Seq(Frame)
            BY <2>1
      <4>2. encoder' \in EncoderType /\ encoder'.queue = q /\ encoder'.hand = <<>>
            BY <2>1, <3>2, <4>1 DEF EncoderType, q
      <4>3. QED
            BY <2>1, <3>0, <4>2
    <3>3. CASE encoder' = [encoder EXCEPT !.st = "dead", !.hand = <<>>]
      <4>0. <<>> \in Seq(Frame) /\ "dead" \in {"off", "on", "dead"}
            OBVIOUS
      <4>1. encoder' \in EncoderType
            BY <2>1, <3>3, <4>0 DEF EncoderType
      <4>2. encoder'.queue = encoder.queue /\ encoder'.hand = <<>>
            BY <2>1, <3>3 DEF EncoderType
      <4>3. QED
            BY <2>1, <3>0, <4>1, <4>2 DEF q
    <3>4. QED
          BY <2>2, <3>1, <3>2, <3>3
  <2>4. UNCHANGED <<images, unwritten, lost>>
        BY <1>6 DEF TakeFrame, EncodeFrame, EncoderFails
  <2>5. TakeTypes'
        BY <1>1, <1>2, <2>3, <2>4 DEF TakeTypes
  <2>6. LoopTypes'
        BY <1>1, <1>6, Bounds
           DEF LoopTypes, TakeFrame, EncodeFrame, EncoderFails, events, bounds
  <2>7. QED
        BY <1>3, <2>5, <2>6, Types, PTL
<1>7. QED
      BY <1>4, <1>5, <1>6
\* The loops.
LEMMA LoopTypesStep ==
  ASSUME TypeOK, BeginEpisode \/ LeaveLoop \/ Rerecord \/ Keep
  PROVE  TypeOK'
<1>1. DiskTypes /\ ObjectTypes /\ TakeTypes /\ LoopTypes
      BY Types
<1>2. UNCHANGED <<disk, object, part, stop, recorded, streaming, bounds>>
      BY DEF BeginEpisode, LeaveLoop, Rerecord, Keep, events
<1>3. DiskTypes' /\ ObjectTypes'
      BY <1>1, <1>2 DEF DiskTypes, ObjectTypes, disk, object
<1>4. LoopTypes'
  <2>1. pc' \in Saving \cup Looping \cup {"over"}
        BY DEF BeginEpisode, LeaveLoop, Rerecord, Keep, Saving, Looping
  <2>2. exitEarly' \in {exitEarly, FALSE} /\ rerecord' \in {rerecord, FALSE}
        BY DEF BeginEpisode, LeaveLoop, Rerecord, Keep, events
  <2>3. {exitEarly', rerecord', stop', streaming'} \subseteq BOOLEAN
        BY <1>1, <1>2, <2>2 DEF LoopTypes
  <2>4. QED
        BY <1>1, <1>2, <2>1, <2>3 DEF LoopTypes, bounds
<1>5. TakeTypes'
  <2>1. CASE Rerecord
    <3>1. /\ encoder' = Off /\ UNCHANGED <<images, unwritten, lost>>
          /\ size' = 0 /\ take' = take + 1 /\ pc = "decide" /\ pc' = "head"
          /\ discarded' = discarded \cup {<<info.episodes, take>>}
          BY <2>1 DEF Rerecord
    <3>2. info.episodes \in Nat /\ take \in 1 .. MaxTakes
          BY <1>1, <3>1, Bounds DEF DiskTypes, TakeTypes
    <3>3. discarded' \subseteq (Nat \X (1 .. MaxTakes))
          BY <1>1, <3>1, <3>2 DEF TakeTypes
    <3>4. size' \in 0 .. MaxFrames /\ take' \in 1 .. (MaxTakes + 1)
          BY <3>1, <3>2, Bounds
    <3>5. /\ encoder' \in EncoderType
          /\ Len(encoder'.queue) <= QueueMax /\ Len(encoder'.hand) <= 1
          BY <3>1, OffType, Bounds
    <3>6. QED
          BY <1>1, <1>2, <3>1, <3>2, <3>3, <3>4, <3>5 DEF TakeTypes
  <2>2. CASE BeginEpisode \/ LeaveLoop \/ Keep
        BY <1>1, <2>2 DEF TakeTypes, BeginEpisode, LeaveLoop, Keep
  <2>3. QED
        BY <2>1, <2>2
<1>6. QED
      BY <1>3, <1>4, <1>5, Types, PTL

\* The steps of a save that do not raise, but for the images, and a resume.
LEMMA SaveTypes ==
  ASSUME TypeOK, FilesInv, SaveRows \/ FinishAlive \/ PlaceVideo \/ SaveMetadata
  PROVE  TypeOK'
<1>1. DiskTypes /\ ObjectTypes /\ TakeTypes /\ LoopTypes
      BY Types
<1>2. UNCHANGED <<info, loaded, size, take, events, recorded, streaming, bounds,
                  discarded, lost>>
      BY DEF SaveRows, WriteRows, FinishAlive, PlaceVideo, SaveMetadata, disk, object
<1>3. pc' \in Saving
      BY DEF SaveRows, WriteRows, FinishAlive, PlaceVideo, SaveMetadata, Saving
<1>4. LoopTypes'
      BY <1>1, <1>2, <1>3 DEF LoopTypes, events, bounds
<1>5. CASE SaveRows
  <2>1. /\ data' \in Seq(Seq(Row)) /\ part' \in Record
        /\ appending' \in [data : BOOLEAN, meta : BOOLEAN]
        BY <1>1, <1>5, RowsFiles DEF SaveRows
  <2>2. /\ UNCHANGED <<metas, videos, loaded, latest, buffered, encoder>>
        /\ UNCHANGED <<images, unwritten>> /\ pc = "save"
        BY <1>5 DEF SaveRows, WriteRows
  <2>3. DiskTypes' /\ ObjectTypes'
        BY <1>1, <1>2, <2>1, <2>2 DEF DiskTypes, ObjectTypes
  <2>4. TakeTypes'
        BY <1>1, <1>2, <2>1, <2>2 DEF TakeTypes
  <2>5. QED
        BY <1>4, <2>3, <2>4, Types, PTL
<1>6. CASE FinishAlive
  <2>1. /\ UNCHANGED <<disk, object, part, images, unwritten>>
        /\ encoder' = [encoder EXCEPT !.st = "off"] /\ pc = "finish"
        BY <1>6 DEF FinishAlive
  <2>2. DiskTypes' /\ ObjectTypes'
        BY <1>1, <2>1 DEF DiskTypes, ObjectTypes, disk, object
  <2>3. TakeTypes'
        BY <1>1, <1>2, <2>1 DEF TakeTypes, EncoderType
  <2>4. QED
        BY <1>4, <2>2, <2>3, Types, PTL
<1>7. CASE PlaceVideo
  <2>1. videos' \in Seq(Seq(Frame)) /\ part' \in Record
        BY <1>1, <1>7, VideoFiles
  <2>2. /\ UNCHANGED <<data, metas, object, images, unwritten>>
        /\ encoder' = Off /\ pc = "file"
        BY <1>7 DEF PlaceVideo
  <2>3. DiskTypes' /\ ObjectTypes'
        BY <1>1, <1>2, <2>1, <2>2 DEF DiskTypes, ObjectTypes, object
  <2>4. TakeTypes'
        BY <1>1, <1>2, <2>1, <2>2, OffType, Bounds DEF TakeTypes
  <2>5. QED
        BY <1>4, <2>3, <2>4, Types, PTL
<1>8. CASE SaveMetadata
  <2>1. /\ metas' \in Seq(Seq(Record)) /\ latest' \in Seq(Record)
        /\ buffered' \in Seq(Record)
        /\ appending' \in [data : BOOLEAN, meta : BOOLEAN]
        BY <1>1, <1>8, MetadataFiles
  <2>2. UNCHANGED <<data, videos, images, part, unwritten, encoder>> /\ pc = "meta"
        BY <1>8 DEF SaveMetadata
  <2>3. DiskTypes' /\ ObjectTypes'
        BY <1>1, <1>2, <2>1, <2>2 DEF DiskTypes, ObjectTypes
  <2>4. TakeTypes'
        BY <1>1, <1>2, <2>2 DEF TakeTypes
  <2>5. QED
        BY <1>4, <2>3, <2>4, Types, PTL
<1>9. QED
      BY <1>5, <1>6, <1>7, <1>8

LEMMA NextTakeTypes ==
  ASSUME TypeOK, FilesInv, SaveInfo \/ NewBuffer \/ Resume
  PROVE  TypeOK'
<1>1. DiskTypes /\ ObjectTypes /\ TakeTypes /\ LoopTypes
      BY Types
<1>2. CASE SaveInfo
  <2>1. info' \in [episodes : Nat, frames : Nat]
        BY <1>1, <1>2, Bounds DEF SaveInfo, DiskTypes, TakeTypes
  <2>2. DiskTypes' /\ ObjectTypes'
        BY <1>1, <1>2, <2>1 DEF DiskTypes, ObjectTypes, SaveInfo, object
  <2>3. TakeTypes' /\ LoopTypes'
        BY <1>1, <1>2 DEF TakeTypes, LoopTypes, SaveInfo, Saving, events, bounds
  <2>4. QED
        BY <2>2, <2>3, Types, PTL
<1>3. CASE NewBuffer
  <2>1. recorded < NumEpisodes
        BY <1>3 DEF FilesInv, PartInv, NewBuffer
  <2>2. recorded' \in 0 .. NumEpisodes
        BY <1>1, <1>3, <2>1, Bounds DEF NewBuffer, LoopTypes
  <2>3. /\ take' \in 1 .. (MaxTakes + 1) /\ size' \in 0 .. MaxFrames
        /\ part' \in Record
        BY <1>1, <1>3, NoRecordType, Bounds DEF NewBuffer, TakeTypes
  <2>4. DiskTypes' /\ ObjectTypes'
        BY <1>1, <1>3 DEF DiskTypes, ObjectTypes, NewBuffer, disk, object
  <2>5. TakeTypes' /\ LoopTypes'
        BY <1>1, <1>3, <2>2, <2>3
           DEF TakeTypes, LoopTypes, NewBuffer, Looping, events, bounds
  <2>6. QED
        BY <2>4, <2>5, Types, PTL
<1>4. CASE Resume
  <2>1. loaded' \in Seq(Record)
        BY <1>1, <1>4, ResumeFiles
  <2>2. /\ take' \in 1 .. (MaxTakes + 1) /\ size' \in 0 .. MaxFrames
        /\ part' \in Record
        BY <1>1, <1>4, NoRecordType, Bounds DEF Resume, TakeTypes
  <2>3. session' \in 1 .. MaxSessions /\ recorded' \in 0 .. NumEpisodes
        BY <1>1, <1>4, Bounds DEF Resume, LoopTypes
  <2>4. DiskTypes' /\ ObjectTypes'
        BY <1>1, <1>4, <2>1 DEF DiskTypes, ObjectTypes, Resume, disk
  <2>5. TakeTypes'
        BY <1>1, <1>4, <2>2 DEF TakeTypes, Resume
  <2>6. LoopTypes'
    <3>1. exitEarly' = FALSE /\ rerecord' = FALSE /\ stop' = FALSE
          /\ streaming' \in BOOLEAN
          BY <1>4 DEF Resume
    <3>2. {exitEarly', rerecord', stop', streaming'} \subseteq BOOLEAN
          BY <3>1
    <3>3. QED
          BY <1>1, <1>4, <2>3, <3>2 DEF LoopTypes, Resume, Looping
  <2>7. QED
        BY <2>4, <2>5, <2>6, Types, PTL
<1>5. QED
      BY <1>2, <1>3, <1>4

-----------------------------------------------------------------------------
(***************************************************************************)
(* A step keeps all this, and writes to no file of an earlier session.     *)
(***************************************************************************)
WritesNoEarlier ==
  \A r \in ToSet(loaded) :
    /\ data'[r.data + 1] = data[r.data + 1]
    /\ metas'[r.meta + 1] = metas[r.meta + 1]
    /\ videos'[r.video + 1] = videos[r.video + 1]

\* The steps that end a session.
Ending ==
  \/ Interrupted \/ EndSession \/ AddFrameFails \/ RefuseEmpty \/ MissesImage
  \/ (pc = "finish" /\ encoder.st = "dead" /\ Len(encoder.queue) < QueueMax /\ Raise)

LEMMA EndingStep ==
  ASSUME TypeOK, FilesInv, Ending
  PROVE  TypeOK' /\ FilesInv' /\ WritesNoEarlier
<1>1. DiskTypes /\ ObjectTypes /\ TakeTypes /\ LoopTypes
      BY Types
<1>2. /\ pc # "over" /\ faults' \in 0 .. MaxFaults
      /\ Finalized(Cleaned) \/ Finalized(images)
  <2>1. CASE Interrupted
        BY <1>1, <2>1, Bounds DEF Interrupted, LoopTypes
  <2>2. CASE EndSession
        BY <1>1, <2>2 DEF EndSession, LoopTypes
  <2>3. CASE AddFrameFails \/ RefuseEmpty \/ MissesImage
        BY <1>1, <2>3 DEF AddFrameFails, RefuseEmpty, MissesImage, Raise, LoopTypes
  <2>4. CASE pc = "finish" /\ Raise
        BY <1>1, <2>4 DEF Raise, LoopTypes
  <2>5. QED
        BY <2>1, <2>2, <2>3, <2>4 DEF Ending
<1>3. PICK pngs \in SUBSET Image : Finalized(pngs)
      BY <1>1, <1>2, CleanedType
<1>4. TypeOK'
      BY <1>2, <1>3, FinalizedTypes
<1>5. FilesInv' /\ \A r \in ToSet(loaded) : metas'[r.meta + 1] = metas[r.meta + 1]
      BY <1>1, <1>2, <1>3, FinalizedFiles
<1>6. UNCHANGED <<data, videos>>
      BY <1>3 DEF Finalized
<1>7. QED
      BY <1>4, <1>5, <1>6 DEF WritesNoEarlier

LEMMA FilesStep ==
  ASSUME TypeOK, FilesInv, [Next]_vars
  PROVE  TypeOK' /\ FilesInv' /\ WritesNoEarlier
<1>1. DiskTypes /\ ObjectTypes /\ TakeTypes /\ LoopTypes
      BY Types
<1>2. CASE Ending
      BY <1>2, EndingStep
<1>3. CASE Press \/ WriteImage \/ TakeFrame \/ EncodeFrame \/ EncoderFails
  <2>1. UNCHANGED <<disk, object, part, pc, recorded>>
        BY <1>3 DEF Press, WriteImage, TakeFrame, EncodeFrame, EncoderFails
  <2>2. pc \notin {"head", "over"} => recorded < NumEpisodes
        BY DEF FilesInv, PartInv
  <2>3. FilesInv'
        BY <2>1, <2>2, QuietFiles DEF disk
  <2>4. QED
        BY <1>3, <2>1, <2>3, ThreadTypes DEF WritesNoEarlier, disk
<1>4. CASE BeginEpisode \/ AddFrame \/ LeaveLoop \/ Rerecord \/ Keep
  <2>1. /\ UNCHANGED <<disk, object, part, recorded>>
        /\ pc \in Looping /\ pc' \in Looping \cup {"save"}
        /\ pc = "head" => recorded < NumEpisodes
        BY <1>4 DEF BeginEpisode, AddFrame, LeaveLoop, Rerecord, Keep, Looping
  <2>2. pc \notin {"head", "over"} => recorded < NumEpisodes
        BY DEF FilesInv, PartInv
  <2>3. FilesInv'
        BY <2>1, <2>2, QuietFiles DEF disk, Looping, Placed
  <2>4. QED
        BY <1>4, <2>1, <2>3, LoopTypesStep, AddFrameTypes DEF WritesNoEarlier, disk
<1>5. CASE EncodeImages \/ FinishAlive \/ SaveInfo \/ NewBuffer
  <2>1. /\ UNCHANGED <<data, metas, videos, object>>
        /\ \/ pc \in {"video", "finish"} /\ pc' = "file" /\ UNCHANGED <<part, recorded>>
           \/ pc = "info" /\ pc' = "after" /\ UNCHANGED <<part, recorded>>
           \/ pc = "after" /\ pc' = "head"
        BY <1>5 DEF EncodeImages, FinishAlive, SaveInfo, NewBuffer, disk
  <2>2. pc \notin {"head", "over"} => recorded < NumEpisodes
        BY DEF FilesInv, PartInv
  <2>3. FilesInv'
        BY <2>1, <2>2, QuietFiles DEF Placed
  <2>4. QED
        BY <1>5, <2>1, <2>3, EncodeImagesTypes, SaveTypes, NextTakeTypes
           DEF WritesNoEarlier
<1>6. CASE SaveRows
  <2>1. /\ FilesInv'
        /\ \A r \in ToSet(loaded) : data'[r.data + 1] = data[r.data + 1]
        BY <1>1, <1>6, RowsFiles DEF SaveRows
  <2>2. UNCHANGED <<metas, videos>>
        BY <1>6 DEF SaveRows, WriteRows
  <2>3. QED
        BY <1>6, <2>1, <2>2, SaveTypes DEF WritesNoEarlier
<1>7. CASE PlaceVideo
  <2>1. /\ FilesInv'
        /\ \A r \in ToSet(loaded) : videos'[r.video + 1] = videos[r.video + 1]
        BY <1>1, <1>7, VideoFiles
  <2>2. UNCHANGED <<metas, data>>
        BY <1>7 DEF PlaceVideo
  <2>3. QED
        BY <1>7, <2>1, <2>2, SaveTypes DEF WritesNoEarlier
<1>8. CASE SaveMetadata
  <2>1. /\ FilesInv'
        /\ \A r \in ToSet(loaded) : metas'[r.meta + 1] = metas[r.meta + 1]
        BY <1>1, <1>8, MetadataFiles
  <2>2. UNCHANGED <<data, videos>>
        BY <1>8 DEF SaveMetadata
  <2>3. QED
        BY <1>8, <2>1, <2>2, SaveTypes DEF WritesNoEarlier
<1>9. CASE Resume
  <2>1. FilesInv'
        BY <1>1, <1>9, ResumeFiles
  <2>2. UNCHANGED disk
        BY <1>9 DEF Resume
  <2>3. QED
        BY <1>9, <2>1, <2>2, NextTakeTypes DEF WritesNoEarlier, disk
<1>10. CASE UNCHANGED vars
  <2>1. TypeOK'
    <3>1. DiskTypes' /\ ObjectTypes'
          BY <1>1, <1>10 DEF vars, disk, object, DiskTypes, ObjectTypes
    <3>2. TakeTypes' /\ LoopTypes'
          BY <1>1, <1>10 DEF vars, events, bounds, TakeTypes, LoopTypes
    <3>3. QED
          BY <3>1, <3>2, Types, PTL
  <2>2. UNCHANGED <<disk, object, part, pc, recorded>>
        BY <1>10 DEF vars
  <2>3. pc \notin {"head", "over"} => recorded < NumEpisodes
        BY DEF FilesInv, PartInv
  <2>4. FilesInv'
        BY <2>2, <2>3, QuietFiles DEF disk
  <2>5. QED
        BY <2>1, <2>2, <2>4 DEF WritesNoEarlier, disk
<1>11. QED
  <2>1. Terminated => UNCHANGED vars
        BY DEF Terminated
  <2>2. FinishEpisode => FinishAlive \/ Ending
        BY DEF FinishEpisode, Ending
  <2>3. Interrupted \/ EndSession \/ AddFrameFails \/ RefuseEmpty \/ MissesImage
          => Ending
        BY DEF Ending
  <2>4. QED
        BY <1>2, <1>3, <1>4, <1>5, <1>6, <1>7, <1>8, <1>9, <1>10, <2>1, <2>2, <2>3
           DEF Next, Step, SaveEpisode

-----------------------------------------------------------------------------
LEMMA FilesAlways == Spec => [](TypeOK /\ FilesInv)
<1>1. Init => TypeOK /\ FilesInv
      BY TypeInit, FilesInit
<1>2. TypeOK /\ FilesInv /\ [Next]_vars => TypeOK' /\ FilesInv'
      BY FilesStep
<1>3. QED
      BY <1>1, <1>2, PTL DEF Spec

\* The files, the metadata in memory and on disk, the takes and the threads have
\* their types in every state: what is stored goes to a file that is there or to
\* the next one, and a queue to the encoder holds no more than its size.
THEOREM TypeCorrect == Spec => []TypeOK
BY FilesAlways, PTL

\* Whatever is recorded, discarded, interrupted or resumed, no file that an
\* episode of an earlier session is in is written to: a session begins with a
\* file after the last one of each kind, and flushes to its own.
THEOREM EarlierIsKept == Spec => KeepsEarlier
<1>1. TypeOK /\ FilesInv /\ [Next]_vars => WritesNoEarlier
      BY FilesStep
<1>2. Spec => [][WritesNoEarlier]_vars
      BY <1>1, FilesAlways, PTL DEF Spec
<1>3. QED
      BY <1>2 DEF KeepsEarlier, WritesNoEarlier

-----------------------------------------------------------------------------
(***************************************************************************)
(* What an episode reads back as.  First its images: those of the take in  *)
(* progress, each written, to be written or lost, and those that earlier   *)
(* takes left under the same number, of which one is replaced by each new  *)
(* one.                                                                    *)
(***************************************************************************)
Img(k) == [ep |-> info.episodes, k |-> k, frame |-> [take |-> take, k |-> k]]
Current == {"record", "reset", "decide", "save", "video"}
Own == ~streaming /\ pc \in Current

IsOwn(i) == Own /\ \E k \in 0 .. (size - 1) : i = Img(k)
OldImage(i) == i.frame.take < take /\ <<i.ep, i.frame.take>> \in discarded

ImagesInv ==
  /\ \A i, j \in images : i.ep = j.ep /\ i.k = j.k => i = j
  /\ \A i \in images :
       /\ i.ep <= info.episodes /\ i.frame.k = i.k
       /\ i.ep = info.episodes => IsOwn(i) \/ OldImage(i)
  /\ \A i \in unwritten : IsOwn(i) /\ pc # "video"
  /\ Own => \A k \in 0 .. (size - 1) :
              Img(k) \in images \cup unwritten \/ [take |-> take, k |-> k] \in lost
  /\ pc = "head" => size = 0
  /\ \A d \in discarded : d[2] < take

(***************************************************************************)
(* Then what is encoded: frames of the take, in order, or its images and   *)
(* what is among them.                                                     *)
(***************************************************************************)
Ascending(s) == \A i, j \in 1 .. Len(s) : i < j => s[i].k < s[j].k

\* Missing are only frames that were lost.
Covers(s, t, n) ==
  \A k \in 0 .. (n - 1) :
    \/ [take |-> t, k |-> k] \in lost
    \/ \E i \in 1 .. Len(s) : s[i] = [take |-> t, k |-> k]

Stream == encoder.out \o (encoder.hand \o encoder.queue)
Feeding == {"record", "reset", "decide", "save", "finish"}

OfTake(s) == Ascending(s) /\ \A i \in 1 .. Len(s) : s[i].take = take /\ s[i].k < size

StreamInv ==
  /\ streaming /\ encoder.st # "dead" /\ pc \in Feeding =>
       OfTake(Stream) /\ Covers(Stream, take, size)
  /\ pc \notin Feeding \cup {"file"} => encoder = Off
  /\ ~streaming /\ pc # "file" => encoder = Off
  /\ encoder.st = "dead" => faults > 0
  /\ pc = "file" => encoder.st = "off"
  /\ (pc = "video" => ~streaming) /\ (pc = "finish" => streaming)

PartIs ==
  pc \in Placed =>
    part.length = size /\ part.take = take /\ part.ep = info.episodes /\ size > 0

\* The frames of a video, or of the part of one, that is of an episode.
Content(s, ep, t, n) ==
  /\ Ascending(s)
  /\ \A i \in 1 .. Len(s) :
       \/ s[i].take = t /\ s[i].k < n
       \/ s[i].take < t /\ <<ep, s[i].take>> \in discarded
  /\ Covers(s, t, n)

OutInv == pc = "file" => Content(encoder.out, info.episodes, take, size)

(***************************************************************************)
(* Then the videos: the clip of each record.                               *)
(***************************************************************************)
Clip(r, file) ==
  /\ r.vfrom <= r.vto /\ r.vto <= Len(file)
  /\ Content(SubSeq(file, r.vfrom + 1, r.vto), r.ep, r.take, r.length)

VideoInv ==
  /\ \A i \in 1 .. Len(All) : Clip(All[i], videos[All[i].video + 1])
  /\ pc = "meta" =>
       Clip(part, videos[part.video + 1]) /\ Len(videos[part.video + 1]) = part.vto
  /\ pc \notin {"meta", "over"} /\ latest # <<>> =>
       Len(videos[Last(latest).video + 1]) = Last(latest).vto

(***************************************************************************)
(* And the rows, those of each record in its file.                         *)
(***************************************************************************)
Block(r, rows) ==
  \E n \in 0 .. (Len(rows) - r.length) : \A k \in 0 .. (r.length - 1) :
    rows[n + k + 1] = [ep |-> r.ep, index |-> rows[n + 1].index + k,
                       frame |-> [take |-> r.take, k |-> k]]

BlockInv ==
  /\ \A i \in 1 .. Len(All) : Block(All[i], data[All[i].data + 1])
  /\ pc \in Placed => Block(part, data[part.data + 1])

(***************************************************************************)
(* Read one file after the other, those up to the last file with a record  *)
(* of its own are what the records say, or there are more of them than the *)
(* counters know.                                                          *)
(***************************************************************************)
RowsUpTo(n) == FlattenSeq(SubSeq(data, 1, n))
Total == IF All = <<>> THEN 0 ELSE Last(All).to

\* The record of the episode being saved is counted at the end of the save.
Balanced == Len(All) = IF pc = "info" THEN info.episodes + 1 ELSE info.episodes

RowsAt(ep, t, length, from, rows) ==
  \A k \in 0 .. (length - 1) :
    rows[from + k + 1] = [ep |-> ep, index |-> from + k, frame |-> [take |-> t, k |-> k]]

Shown(rows) ==
  \A i \in 1 .. Len(All) :
    RowsAt(All[i].ep, All[i].take, All[i].length, All[i].from, rows)

CountInv ==
  /\ Len(All) >= IF pc = "info" THEN info.episodes + 1 ELSE info.episodes
  /\ Balanced => Total = IF pc = "info" THEN info.frames + size ELSE info.frames
  /\ \A i \in 1 .. Len(All) : All[i].to = All[i].from + All[i].length /\ All[i].to <= Total

RowsInv ==
  Balanced =>
    /\ LET rows == RowsUpTo(NextNumber("data")) IN
       \/ Len(rows) > Total
       \/ Len(rows) = Total /\ Shown(rows)
    /\ pc \in Placed =>
         LET rows == RowsUpTo(part.data + 1) IN
         \/ Len(rows) > Total + size
         \/ /\ Len(rows) = Total + size /\ Shown(rows)
            /\ RowsAt(info.episodes, take, size, Total, rows)

ExactInv ==
  faults = 0 =>
    /\ Balanced
    /\ pc \notin Placed => /\ Len(data) = NextNumber("data")
                           /\ Len(RowsUpTo(NextNumber("data"))) = Total
    /\ pc \in Placed => Len(RowsUpTo(part.data + 1)) = Total + size

ReadInv == /\ ImagesInv /\ StreamInv /\ PartIs /\ OutInv
           /\ VideoInv /\ BlockInv /\ CountInv /\ RowsInv /\ ExactInv

\* What ends a session leaves.
LEMMA EndingIs ==
  ASSUME Ending
  PROVE  /\ pc # "over" /\ pc' = "over" /\ unwritten' = {} /\ encoder' = Off
         /\ UNCHANGED <<info, data, videos, loaded, latest, size, take, part,
                        streaming, discarded, lost>>
         /\ images' = Cleaned \/ (pc = "head" /\ unwritten = {} /\ images' = images)
<1>1. /\ pc # "over"
      /\ Finalized(Cleaned) \/ (pc = "head" /\ unwritten = {} /\ Finalized(images))
      BY DEF Ending, Interrupted, EndSession, AddFrameFails, RefuseEmpty, MissesImage, Raise
<1>2. QED
      BY <1>1 DEF Finalized

LEMMA StepIs ==
  ASSUME [Next]_vars
  PROVE  \/ Ending \/ Resume \/ UNCHANGED vars
         \/ Press \/ WriteImage \/ TakeFrame \/ EncodeFrame \/ EncoderFails
         \/ BeginEpisode \/ AddFrame \/ LeaveLoop \/ Rerecord \/ Keep
         \/ SaveRows \/ EncodeImages \/ FinishAlive \/ PlaceVideo
         \/ SaveMetadata \/ SaveInfo \/ NewBuffer
<1>1. Terminated => UNCHANGED vars
      BY DEF Terminated
<1>2. FinishEpisode => FinishAlive \/ Ending
      BY DEF FinishEpisode, Ending
<1>3. Interrupted \/ EndSession \/ AddFrameFails \/ RefuseEmpty \/ MissesImage => Ending
      BY DEF Ending
<1>4. QED
      BY <1>1, <1>2, <1>3 DEF Next, Step, SaveEpisode

(***************************************************************************)
(* The images.                                                             *)
(***************************************************************************)
LEMMA ImgIs ==
  ASSUME NEW k
  PROVE  /\ Img(k).ep = info.episodes /\ Img(k).k = k
         /\ Img(k).frame = [take |-> take, k |-> k]
         /\ Img(k).frame.take = take /\ Img(k).frame.k = k
BY DEF Img

\* The images are the same, and so are those that wait.
LEMMA ImagesSame ==
  ASSUME ImagesInv,
         UNCHANGED <<info, take, streaming, discarded, images, unwritten, size>>,
         lost \subseteq lost', pc \in Current <=> pc' \in Current,
         pc' = "head" => size = 0, pc' = pc \/ unwritten = {} \/ pc' # "video"
  PROVE  ImagesInv'
<1>1. /\ Own' <=> Own
      /\ \A k : Img(k)' = Img(k)
      BY DEF Own, Img
<1>2. /\ \A i : IsOwn(i)' <=> IsOwn(i)
      /\ \A i : OldImage(i)' <=> OldImage(i)
      BY <1>1 DEF IsOwn, OldImage
<1>3. Own' => \A k \in 0 .. (size' - 1) :
                 Img(k)' \in images' \cup unwritten' \/ [take |-> take', k |-> k] \in lost'
      BY <1>1 DEF ImagesInv
<1>4. \A i \in unwritten' : IsOwn(i)' /\ pc' # "video"
      BY <1>2 DEF ImagesInv
<1>5. QED
      BY <1>2, <1>3, <1>4 DEF ImagesInv

LEMMA ImagesQuiet ==
  ASSUME TypeOK, ImagesInv,
         \/ Press \/ TakeFrame \/ EncodeFrame \/ EncoderFails \/ UNCHANGED vars
         \/ LeaveLoop \/ Keep \/ SaveRows \/ FinishAlive \/ PlaceVideo \/ SaveMetadata
  PROVE  ImagesInv'
<1>1. CASE Press \/ TakeFrame \/ EncodeFrame \/ EncoderFails \/ UNCHANGED vars
  <2>1. UNCHANGED <<info, take, streaming, discarded, images, unwritten, size, pc, lost>>
        BY <1>1 DEF Press, TakeFrame, EncodeFrame, EncoderFails, vars, disk
  <2>2. QED
        BY <2>1, ImagesSame DEF ImagesInv
<1>2. CASE LeaveLoop \/ Keep
  <2>1. /\ UNCHANGED <<info, take, streaming, discarded, images, unwritten, size, lost>>
        /\ pc \in {"record", "reset", "decide"} /\ pc' \in {"reset", "decide", "save"}
        BY <1>2 DEF LeaveLoop, Keep, disk
  <2>2. QED
        BY <2>1, ImagesSame DEF Current
<1>3. CASE FinishAlive \/ PlaceVideo \/ SaveMetadata
  <2>1. /\ UNCHANGED <<info, take, streaming, discarded, images, unwritten, size, lost>>
        /\ pc \in {"finish", "file", "meta"} /\ pc' \in {"file", "meta", "info"}
        BY <1>3 DEF FinishAlive, PlaceVideo, SaveMetadata, disk
  <2>2. QED
        BY <2>1, ImagesSame DEF Current
<1>4. CASE SaveRows
  <2>1. /\ UNCHANGED <<info, take, streaming, discarded, images, unwritten, size, lost>>
        /\ pc = "save" /\ unwritten = {}
        /\ pc' = IF streaming THEN "finish" ELSE "video"
        BY <1>4 DEF SaveRows, WriteRows
  <2>2. CASE ~streaming
        BY <2>1, <2>2, ImagesSame DEF Current
  <2>3. CASE streaming
    <3>1. ~Own /\ ~Own' /\ pc' # "head"
          BY <2>1, <2>3 DEF Own
    <3>2. \A i : OldImage(i)' <=> OldImage(i)
          BY <2>1 DEF OldImage
    <3>3. QED
          BY <2>1, <3>1, <3>2 DEF ImagesInv, IsOwn
  <2>4. QED
        BY <2>2, <2>3
<1>5. QED
      BY <1>1, <1>2, <1>3, <1>4

LEMMA ImagesBegin ==
  ASSUME TypeOK, ImagesInv, BeginEpisode
  PROVE  ImagesInv'
<1>1. /\ UNCHANGED <<info, take, streaming, discarded, images, unwritten, size>>
      /\ pc = "head" /\ pc' = "record" /\ size = 0
      BY DEF BeginEpisode, ImagesInv, disk
<1>2. ~Own /\ 0 .. (size' - 1) = {}
      BY <1>1 DEF Own, Current
<1>3. unwritten = {} /\ \A i \in images : i.ep = info.episodes => OldImage(i)
      BY <1>2 DEF ImagesInv, IsOwn
<1>4. \A i : OldImage(i)' <=> OldImage(i)
      BY <1>1 DEF OldImage
<1>5. QED
      BY <1>1, <1>2, <1>3, <1>4 DEF ImagesInv

\* An image replaces the one of its name, or is lost.
LEMMA ImagesWrite ==
  ASSUME TypeOK, ImagesInv, WriteImage
  PROVE  ImagesInv'
<1>1. UNCHANGED <<info, take, streaming, discarded, size, pc>>
      BY DEF WriteImage, disk
<1>2. PICK i \in unwritten :
        /\ unwritten' = unwritten \ {i}
        /\ \/ /\ images' = {j \in images : j.ep # i.ep \/ j.k # i.k} \cup {i}
              /\ lost' = lost
           \/ lost' = lost \cup {i.frame} /\ images' = images
      BY DEF WriteImage
<1>3. /\ Own' <=> Own
      /\ \A k : Img(k)' = Img(k)
      BY <1>1 DEF Own, Img
<1>4. /\ \A j : IsOwn(j)' <=> IsOwn(j)
      /\ \A j : OldImage(j)' <=> OldImage(j)
      BY <1>1, <1>3 DEF IsOwn, OldImage
<1>5. IsOwn(i) /\ pc # "video"
      BY <1>2 DEF ImagesInv
<1>6. PICK l \in 0 .. (size - 1) : i = Img(l)
      BY <1>5 DEF IsOwn
<1>7. /\ i.ep = info.episodes /\ i.k = l /\ i.frame.k = i.k
      /\ i.frame = [take |-> take, k |-> l]
      BY <1>6, ImgIs
<1>8. info.episodes \in Nat
      BY Types DEF DiskTypes
<1>9. \A j, m \in images' : j.ep = m.ep /\ j.k = m.k => j = m
      BY <1>2 DEF ImagesInv
<1>10. ASSUME NEW j \in images'
       PROVE  /\ j.ep <= info'.episodes /\ j.frame.k = j.k
              /\ j.ep = info'.episodes => IsOwn(j)' \/ OldImage(j)'
  <2>1. j \in images \/ j = i
        BY <1>2
  <2>2. QED
        BY <1>1, <1>4, <1>5, <1>7, <1>8, <2>1 DEF ImagesInv
<1>11. \A j \in unwritten' : IsOwn(j)' /\ pc' # "video"
       BY <1>1, <1>2, <1>4 DEF ImagesInv
<1>12. ASSUME Own', NEW k \in 0 .. (size' - 1)
       PROVE  Img(k)' \in images' \cup unwritten' \/ [take |-> take', k |-> k] \in lost'
  <2>1. k \in 0 .. (size - 1) /\ Own /\ Img(k)' = Img(k)
        BY <1>1, <1>3, <1>12
  <2>2. Img(k) \in images \cup unwritten \/ [take |-> take, k |-> k] \in lost
        BY <2>1 DEF ImagesInv
  <2>3. CASE k = l
        BY <1>1, <1>2, <1>6, <1>7, <2>1, <2>3
  <2>4. CASE k # l
    <3>1. Img(k).k = k /\ Img(k) # i
          BY <1>7, <2>4, ImgIs
    <3>2. QED
          BY <1>1, <1>2, <1>7, <2>1, <2>2, <2>4, <3>1
  <2>5. QED
        BY <2>3, <2>4
<1>13. (pc' = "head" => size' = 0) /\ \A d \in discarded' : d[2] < take'
       BY <1>1 DEF ImagesInv
<1>14. QED
       BY <1>9, <1>10, <1>11, <1>12, <1>13 DEF ImagesInv

LEMMA ImagesFinal ==
  ASSUME TypeOK, ImagesInv, Ending
  PROVE  ImagesInv'
<1>1. /\ pc # "over" /\ pc' = "over" /\ unwritten' = {}
      /\ UNCHANGED <<info, take, size, streaming, discarded>>
      /\ images' = Cleaned \/ (pc = "head" /\ images' = images)
      BY EndingIs
<1>2. images' \subseteq images
      BY <1>1 DEF Cleaned
<1>3. ASSUME NEW i \in images', i.ep = info.episodes PROVE OldImage(i)
  <2>1. ~IsOwn(i)
    <3>1. CASE images' = Cleaned
          BY <1>3, <3>1 DEF Cleaned, IsOwn, Own
    <3>2. CASE pc = "head"
          BY <3>2 DEF IsOwn, Own, Current
    <3>3. QED
          BY <1>1, <3>1, <3>2
  <2>2. QED
        BY <1>2, <1>3, <2>1 DEF ImagesInv
<1>4. ~Own' /\ \A i : OldImage(i)' <=> OldImage(i)
      BY <1>1 DEF Own, Current, OldImage
<1>5. QED
      BY <1>1, <1>2, <1>3, <1>4 DEF ImagesInv

LEMMA ImagesRerecord ==
  ASSUME TypeOK, ImagesInv, Rerecord
  PROVE  ImagesInv'
<1>0. DiskTypes /\ TakeTypes /\ take \in Nat
      BY Types, Bounds DEF TakeTypes
<1>1. /\ UNCHANGED <<images, unwritten>> /\ unwritten = {} /\ pc' = "head"
      /\ size' = 0 /\ take' = take + 1 /\ info' = info
      /\ discarded' = discarded \cup {<<info.episodes, take>>}
      BY DEF Rerecord, disk
<1>2. ASSUME NEW i \in images, i.ep = info.episodes PROVE OldImage(i)'
  <2>1. CASE OldImage(i)
    <3>1. i.frame.take \in Nat
      <4>1. i \in Image
            BY <1>0 DEF TakeTypes
      <4>2. QED
            BY <4>1, Bounds DEF Image, Frame
    <3>2. QED
          BY <1>0, <1>1, <2>1, <3>1 DEF OldImage
  <2>2. CASE IsOwn(i)
    <3>1. i.frame.take = take
          BY <2>2, ImgIs DEF IsOwn
    <3>2. QED
          BY <1>0, <1>1, <1>2, <3>1 DEF OldImage
  <2>3. QED
        BY <1>2, <2>1, <2>2 DEF ImagesInv
<1>3. ~Own'
      BY <1>1 DEF Own, Current
<1>4. \A d \in discarded' : d[2] < take'
  <2>1. ASSUME NEW d \in discarded PROVE d[2] < take + 1
    <3>1. d[2] < take /\ d[2] \in Nat
          BY <1>0, Bounds DEF ImagesInv, TakeTypes
    <3>2. QED
          BY <1>0, <3>1
  <2>2. QED
        BY <1>0, <1>1, <2>1
<1>5. QED
      BY <1>1, <1>2, <1>3, <1>4 DEF ImagesInv

LEMMA ImagesAdd ==
  ASSUME TypeOK, ImagesInv, AddFrame
  PROVE  ImagesInv'
<1>0. DiskTypes /\ TakeTypes /\ size \in Nat
      BY Types, Bounds DEF TakeTypes
<1>1. /\ pc = "record" /\ size' = size + 1
      /\ UNCHANGED <<info, take, streaming, discarded, images, pc>>
      /\ lost \subseteq lost'
      /\ unwritten' = IF streaming THEN unwritten ELSE unwritten \cup {Img(size)}
      BY DEF AddFrame, Streamed, Queued, Img, disk
<1>2. /\ \A k : Img(k)' = Img(k)
      /\ \A i : OldImage(i)' <=> OldImage(i)
      /\ Own' <=> Own
      BY <1>1 DEF Img, OldImage, Own
<1>3. 0 .. (size' - 1) = (0 .. (size - 1)) \cup {size}
      BY <1>0, <1>1
<1>4. \A i : IsOwn(i) => IsOwn(i)'
      BY <1>2, <1>3 DEF IsOwn
<1>5. \A i \in images' :
        /\ i.ep <= info'.episodes /\ i.frame.k = i.k
        /\ i.ep = info'.episodes => IsOwn(i)' \/ OldImage(i)'
      BY <1>1, <1>2, <1>4 DEF ImagesInv
<1>6. ASSUME NEW i \in unwritten' PROVE IsOwn(i)' /\ pc' # "video"
  <2>1. CASE i \in unwritten
        BY <1>1, <1>4, <2>1 DEF ImagesInv
  <2>2. CASE ~streaming /\ i = Img(size)
    <3>1. Own'
          BY <1>1, <2>2 DEF Own, Current
    <3>2. QED
          BY <1>1, <1>2, <1>3, <2>2, <3>1 DEF IsOwn
  <2>3. QED
        BY <1>1, <2>1, <2>2
<1>7. ASSUME Own', NEW k \in 0 .. (size' - 1)
      PROVE  Img(k)' \in images' \cup unwritten' \/ [take |-> take', k |-> k] \in lost'
  <2>1. ~streaming /\ Own
        BY <1>2, <1>7 DEF Own
  <2>2. CASE k = size
        BY <1>1, <1>2, <2>1, <2>2
  <2>3. CASE k \in 0 .. (size - 1)
    <3>1. Img(k) \in images \cup unwritten \/ [take |-> take, k |-> k] \in lost
          BY <2>1, <2>3 DEF ImagesInv
    <3>2. QED
          BY <1>1, <1>2, <2>1, <3>1
  <2>4. QED
        BY <1>3, <1>7, <2>2, <2>3
<1>8. pc' # "head" /\ \A d \in discarded' : d[2] < take'
      BY <1>1 DEF ImagesInv
<1>9. \A i, j \in images' : i.ep = j.ep /\ i.k = j.k => i = j
      BY <1>1 DEF ImagesInv
<1>10. QED
      BY <1>5, <1>6, <1>7, <1>8, <1>9 DEF ImagesInv

LEMMA ImagesEncode ==
  ASSUME TypeOK, ImagesInv, EncodeImages
  PROVE  ImagesInv'
<1>1. /\ pc = "video" /\ pc' = "file"
      /\ images' = images \ {i \in images : i.ep = info.episodes}
      /\ UNCHANGED <<info, take, streaming, discarded, size, unwritten>>
      BY DEF EncodeImages, disk
<1>2. unwritten' = {} /\ ~Own'
      BY <1>1 DEF ImagesInv, Own, Current
<1>3. QED
      BY <1>1, <1>2 DEF ImagesInv

LEMMA ImagesNext ==
  ASSUME TypeOK, ImagesInv, SaveInfo \/ NewBuffer \/ Resume
  PROVE  ImagesInv'
<1>0. DiskTypes /\ TakeTypes /\ take \in Nat /\ info.episodes \in Nat
      BY Types, Bounds DEF TakeTypes, DiskTypes
<1>1. /\ pc \in {"info", "after", "over"} /\ pc' \in {"after", "head"}
      /\ UNCHANGED <<images, unwritten, discarded>>
      /\ take' \in {take, take + 1}
      /\ info'.episodes = info.episodes \/ info'.episodes = info.episodes + 1
      /\ pc' = "head" => size' = 0
      BY DEF SaveInfo, NewBuffer, Resume, disk
<1>2. ~Own /\ ~Own'
      BY <1>1 DEF Own, Current
<1>3. unwritten = {}
      BY <1>2 DEF ImagesInv, IsOwn
<1>4. ASSUME NEW i \in images
      PROVE  /\ i.ep <= info'.episodes /\ i.frame.k = i.k
             /\ i.ep = info'.episodes => OldImage(i)'
  <2>1. i.ep \in Nat /\ i.frame.take \in Nat
    <3>1. i \in Image
          BY <1>0 DEF TakeTypes
    <3>2. QED
          BY <3>1, Bounds DEF Image, Frame
  <2>2. /\ i.ep <= info.episodes /\ i.frame.k = i.k
        /\ i.ep = info.episodes => OldImage(i)
        BY <1>2 DEF ImagesInv, IsOwn
  <2>3. OldImage(i) => OldImage(i)'
        BY <1>0, <1>1, <2>1 DEF OldImage
  <2>4. i.ep <= info'.episodes /\ (i.ep = info'.episodes => i.ep = info.episodes)
        BY <1>0, <1>1, <2>1, <2>2
  <2>5. QED
        BY <2>2, <2>3, <2>4
<1>5. ASSUME NEW d \in discarded PROVE d[2] < take'
  <2>1. d[2] < take /\ d[2] \in Nat
        BY <1>0, Bounds DEF ImagesInv, TakeTypes
  <2>2. QED
        BY <1>0, <1>1, <2>1
<1>6. \A i, j \in images' : i.ep = j.ep /\ i.k = j.k => i = j
      BY <1>1 DEF ImagesInv
<1>7. QED
      BY <1>1, <1>2, <1>3, <1>4, <1>5, <1>6 DEF ImagesInv

LEMMA ImagesStep ==
  ASSUME TypeOK, ImagesInv, [Next]_vars
  PROVE  ImagesInv'
BY StepIs, ImagesQuiet, ImagesBegin, ImagesWrite, ImagesFinal, ImagesRerecord,
   ImagesAdd, ImagesEncode, ImagesNext

(***************************************************************************)
(* What is encoded.                                                        *)
(***************************************************************************)
LEMMA EncoderIs ==
  ASSUME TypeOK
  PROVE  /\ encoder \in EncoderType /\ encoder.queue \in Seq(Frame)
         /\ encoder.hand \in Seq(Frame) /\ encoder.out \in Seq(Frame)
         /\ size \in Nat /\ take \in Nat
         /\ pc \notin {"head", "over"} => take \in 1 .. MaxTakes
<1>1. /\ encoder \in EncoderType /\ size \in Nat /\ take \in 1 .. (MaxTakes + 1)
      /\ pc \notin {"head", "over"} => take \in 1 .. MaxTakes
      BY Types, Bounds DEF TakeTypes
<1>2. /\ encoder.queue \in Seq(Frame) /\ encoder.hand \in Seq(Frame)
      /\ encoder.out \in Seq(Frame)
      BY <1>1 DEF EncoderType
<1>3. QED
      BY <1>1, <1>2, Bounds

LEMMA EmptyTake ==
  ASSUME TypeOK, size = 0
  PROVE  /\ OfTake(<<>>) /\ Covers(<<>>, take, size)
         /\ <<>> \o (<<>> \o <<>>) = <<>>
<1>1. Len(<<>>) = 0 /\ 1 .. 0 = {} /\ 0 .. (0 - 1) = {}
      OBVIOUS
<1>2. <<>> \o (<<>> \o <<>>) = <<>>
      OBVIOUS
<1>3. QED
      BY <1>1, <1>2 DEF OfTake, Ascending, Covers

\* A frame that comes last.
LEMMA AscendingLast ==
  ASSUME NEW s \in Seq(Frame), NEW f \in Frame, Ascending(s),
         \A i \in 1 .. Len(s) : s[i].k < f.k
  PROVE  Ascending(Append(s, f))
<1> DEFINE n == Len(s)  a == Append(s, f)
<1>1. /\ n \in Nat /\ Len(a) = n + 1 /\ a[n + 1] = f
      /\ \A i \in 1 .. n : a[i] = s[i]
      BY AppendProperties
<1> HIDE DEF a
<1>2. ASSUME NEW i \in 1 .. n + 1, NEW j \in 1 .. n + 1, i < j PROVE a[i].k < a[j].k
  <2>1. i \in 1 .. n
        BY <1>1, <1>2
  <2>2. CASE j = n + 1
        BY <1>1, <2>1, <2>2
  <2>3. CASE j # n + 1
    <3>1. j \in 1 .. n
          BY <1>1, <2>3
    <3>2. QED
          BY <1>1, <1>2, <2>1, <3>1 DEF Ascending
  <2>4. QED
        BY <2>2, <2>3
<1>3. QED
      BY <1>1, <1>2 DEF Ascending, a

\* There is no encoder.
LEMMA StreamOff ==
  ASSUME encoder' = Off, pc' \notin Feeding, pc' # "video"
  PROVE  StreamInv'
<1>1. encoder'.st = "off" /\ pc' # "finish"
      BY DEF Off, Feeding
<1>2. QED
      BY <1>1 DEF StreamInv

\* The encoder goes on.
LEMMA StreamSame ==
  ASSUME StreamInv, UNCHANGED <<encoder, take, size, streaming>>,
         faults' = faults, lost \subseteq lost',
         pc' = pc \/ (pc \in Feeding /\ pc' \in Feeding \cup {"video"}),
         pc' = "video" => ~streaming, pc' = "finish" => streaming
  PROVE  StreamInv'
<1>1. Stream' = Stream
      BY DEF Stream
<1>2. OfTake(Stream)' <=> OfTake(Stream)
      BY <1>1 DEF OfTake, Ascending
<1>3. Covers(Stream, take, size) => Covers(Stream, take, size)'
      BY <1>1 DEF Covers
<1>4. pc' = "file" <=> pc = "file"
      BY DEF Feeding
<1>5. pc' \notin Feeding \cup {"file"} => encoder = Off
      BY DEF StreamInv, Feeding
<1>6. streaming => (pc' \in Feeding => pc \in Feeding)
      OBVIOUS
<1>7. QED
      BY <1>2, <1>3, <1>4, <1>5, <1>6 DEF StreamInv

LEMMA StreamQuiet ==
  ASSUME TypeOK, StreamInv,
         Press \/ WriteImage \/ LeaveLoop \/ Keep \/ SaveRows \/ UNCHANGED vars
  PROVE  StreamInv'
<1>1. CASE Press \/ WriteImage \/ UNCHANGED vars
  <2>1. UNCHANGED <<encoder, take, size, streaming, pc>> /\ lost \subseteq lost'
        BY <1>1 DEF Press, WriteImage, vars
  <2>2. faults' = faults
        BY <1>1 DEF Press, WriteImage, vars, bounds
  <2>3. QED
        BY <2>1, <2>2, StreamSame DEF StreamInv
<1>2. CASE LeaveLoop \/ Keep \/ SaveRows
  <2>1. /\ UNCHANGED <<encoder, take, size, streaming, faults, lost>>
        /\ pc \in {"record", "reset", "decide", "save"}
        /\ \/ pc' \in {"reset", "decide", "save"}
           \/ pc' = IF streaming THEN "finish" ELSE "video"
        BY <1>2 DEF LeaveLoop, Keep, SaveRows, WriteRows, bounds
  <2>2. pc \in Feeding /\ pc' \in Feeding \cup {"video"}
        /\ (pc' = "video" => ~streaming) /\ (pc' = "finish" => streaming)
        BY <2>1 DEF Feeding
  <2>3. QED
        BY <2>1, <2>2, StreamSame
<1>3. QED
      BY <1>1, <1>2

LEMMA StreamNone ==
  ASSUME TypeOK, StreamInv,
         \/ Ending \/ Rerecord \/ PlaceVideo \/ SaveMetadata
         \/ SaveInfo \/ NewBuffer \/ Resume
  PROVE  StreamInv'
<1>1. CASE Ending
      BY <1>1, EndingIs, StreamOff DEF Feeding
<1>2. CASE Rerecord \/ PlaceVideo
      BY <1>2, StreamOff DEF Rerecord, PlaceVideo, Feeding
<1>3. CASE SaveMetadata \/ SaveInfo \/ NewBuffer \/ Resume
  <2>1. /\ encoder' = encoder /\ pc \in {"meta", "info", "after", "over"}
        /\ pc' \in {"info", "after", "head"}
        BY <1>3 DEF SaveMetadata, SaveInfo, NewBuffer, Resume
  <2>2. encoder' = Off
        BY <2>1 DEF StreamInv, Feeding
  <2>3. QED
        BY <2>1, <2>2, StreamOff DEF Feeding
<1>4. QED
      BY <1>1, <1>2, <1>3

LEMMA StreamBegin ==
  ASSUME TypeOK, ImagesInv, StreamInv, BeginEpisode
  PROVE  StreamInv'
<1>1. /\ pc = "head" /\ pc' = "record" /\ size = 0
      /\ UNCHANGED <<encoder, take, size, streaming, lost>>
      BY DEF BeginEpisode, ImagesInv
<1>2. encoder = Off /\ encoder' = Off
      BY <1>1 DEF StreamInv, Feeding
<1>3. Stream' = <<>>
  <2>1. Stream' = <<>> \o (<<>> \o <<>>)
        BY <1>2 DEF Stream, Off
  <2>2. QED
        BY <1>1, <2>1, EmptyTake
<1>4. OfTake(Stream)' /\ Covers(Stream, take, size)'
  <2>1. OfTake(<<>>) /\ Covers(<<>>, take, size)
        BY <1>1, EmptyTake
  <2>2. QED
        BY <1>1, <1>3, <2>1 DEF OfTake, Ascending, Covers
<1>5. encoder'.st = "off"
      BY <1>2 DEF Off
<1>6. QED
      BY <1>1, <1>2, <1>4, <1>5 DEF StreamInv, Feeding

\* Taken from the queue or encoded, the frames are the same, in the same order.
LEMMA Moved ==
  ASSUME NEW o \in Seq(Frame), NEW h \in Seq(Frame), NEW q \in Seq(Frame)
  PROVE  /\ (o \o h) \o (<<>> \o q) = o \o (h \o q)
         /\ h = <<>> /\ q # <<>> => o \o (<<Head(q)>> \o Tail(q)) = o \o (h \o q)
<1>1. <<>> \o q = q
      OBVIOUS
<1>2. (o \o h) \o q = o \o (h \o q)
      OBVIOUS
<1>3. ASSUME h = <<>>, q # <<>> PROVE <<Head(q)>> \o Tail(q) = h \o q
  <2>1. <<Head(q)>> \o Tail(q) = q
        BY <1>3
  <2>2. QED
        BY <1>1, <1>3, <2>1
<1>4. QED
      BY <1>1, <1>2, <1>3

LEMMA StreamEncode ==
  ASSUME TypeOK, StreamInv, TakeFrame \/ EncodeFrame \/ EncoderFails
  PROVE  StreamInv'
<1> DEFINE q == encoder.queue  h == encoder.hand  o == encoder.out
<1>1. /\ encoder \in EncoderType /\ encoder.st = "on"
      /\ q \in Seq(Frame) /\ h \in Seq(Frame) /\ o \in Seq(Frame)
      /\ UNCHANGED <<take, size, streaming, pc, lost>>
      /\ faults \in Nat
      BY EncoderIs, Types, Bounds DEF TakeFrame, EncodeFrame, EncoderFails, LoopTypes
<1>2. encoder # Off /\ streaming /\ pc \in Feeding /\ pc \notin {"file", "video"}
      BY <1>1, OffType DEF StreamInv, Feeding
<1>3. OfTake(Stream) /\ Covers(Stream, take, size)
      BY <1>1, <1>2 DEF StreamInv
<1>4. CASE TakeFrame \/ EncodeFrame
  <2>1. Stream' = Stream /\ encoder'.st = "on"
    <3>1. CASE TakeFrame
      <4>1. /\ encoder' = [encoder EXCEPT !.queue = Tail(q), !.hand = <<Head(q)>>]
            /\ h = <<>> /\ q # <<>>
            BY <3>1 DEF TakeFrame
      <4>2. /\ encoder'.queue = Tail(q) /\ encoder'.hand = <<Head(q)>>
            /\ encoder'.out = o /\ encoder'.st = "on"
            BY <1>1, <4>1 DEF EncoderType
      <4> HIDE DEF q, h, o
      <4>3. o \o (<<Head(q)>> \o Tail(q)) = o \o (h \o q)
            BY <1>1, <4>1, Moved
      <4>4. Stream' = o \o (<<Head(q)>> \o Tail(q)) /\ Stream = o \o (h \o q)
            BY <4>2 DEF Stream, q, h, o
      <4>5. QED
            BY <4>2, <4>3, <4>4
    <3>2. CASE EncodeFrame
      <4>1. encoder' = [encoder EXCEPT !.hand = <<>>, !.out = o \o h]
            BY <3>2 DEF EncodeFrame
      <4>2. /\ encoder'.queue = q /\ encoder'.hand = <<>>
            /\ encoder'.out = o \o h /\ encoder'.st = "on"
            BY <1>1, <4>1 DEF EncoderType
      <4> HIDE DEF q, h, o
      <4>3. (o \o h) \o (<<>> \o q) = o \o (h \o q)
            BY <1>1, Moved
      <4>4. Stream' = (o \o h) \o (<<>> \o q) /\ Stream = o \o (h \o q)
            BY <4>2 DEF Stream, q, h, o
      <4>5. QED
            BY <4>2, <4>3, <4>4
    <3>3. QED
          BY <1>4, <3>1, <3>2
  <2>2. OfTake(Stream)' /\ Covers(Stream, take, size)'
        BY <1>1, <1>3, <2>1 DEF OfTake, Ascending, Covers
  <2>3. QED
        BY <1>1, <1>2, <2>1, <2>2 DEF StreamInv
<1>5. CASE EncoderFails
  <2>1. encoder'.st = "dead" /\ faults' = faults + 1
        BY <1>1, <1>5 DEF EncoderFails, EncoderType
  <2>2. faults' > 0
        BY <1>1, <2>1
  <2>3. QED
        BY <1>1, <1>2, <2>1, <2>2 DEF StreamInv
<1>6. QED
      BY <1>4, <1>5

\* A frame is added to the queue, or lost.
LEMMA StreamAdd ==
  ASSUME TypeOK, StreamInv, AddFrame
  PROVE  StreamInv'
<1> DEFINE frame == [take |-> take, k |-> size]
           e == IF size = 0 THEN [Off EXCEPT !.st = "on"] ELSE encoder
<1>1. /\ pc = "record" /\ size' = size + 1 /\ size < MaxFrames
      /\ UNCHANGED <<take, streaming, pc>> /\ lost \subseteq lost'
      /\ IF streaming THEN Streamed(frame) ELSE encoder' = encoder
      BY DEF AddFrame, Queued, Streamed
<1>2. /\ encoder \in EncoderType /\ size \in Nat /\ size \in 0 .. (MaxFrames - 1)
      /\ take \in 1 .. MaxTakes
      BY <1>1, EncoderIs, Bounds
<1>3. CASE ~streaming
  <2>1. encoder' = Off /\ Off.st = "off"
        BY <1>1, <1>3, OffType DEF StreamInv
  <2>2. QED
        BY <1>1, <1>3, <2>1 DEF StreamInv
<1>4. CASE streaming
  <2>1. frame \in Frame /\ frame.take = take /\ frame.k = size
        BY <1>2 DEF Frame
  <2>2. /\ e.st = "on"
        /\ \/ encoder' = [e EXCEPT !.queue = Append(@, frame)]
           \/ encoder' = e /\ lost' = lost \cup {frame}
        BY <1>1, <1>4 DEF Streamed
  <2> DEFINE o == e.out  h == e.hand  q == e.queue  s == o \o (h \o q)
  <2>3. e \in EncoderType /\ OfTake(s) /\ Covers(s, take, size)
    <3>1. CASE size = 0
      <4>1. e = [Off EXCEPT !.st = "on"]
            BY <3>1
      <4>2. e \in EncoderType /\ e.out = <<>> /\ e.hand = <<>> /\ e.queue = <<>>
            BY <4>1, OffType DEF EncoderType, Off
      <4> HIDE DEF e
      <4>3. s = <<>>
            BY <3>1, <4>2, EmptyTake
      <4> HIDE DEF s
      <4>4. QED
            BY <3>1, <4>2, <4>3, EmptyTake
    <3>2. CASE size # 0
      <4>1. e = encoder /\ s = Stream
            BY <3>2 DEF Stream
      <4>2. OfTake(Stream) /\ Covers(Stream, take, size)
            BY <1>1, <1>4, <2>2, <4>1 DEF StreamInv, Feeding
      <4> HIDE DEF e, s
      <4>3. QED
            BY <1>2, <4>1, <4>2
    <3>3. QED
          BY <3>1, <3>2
  <2> HIDE DEF e, frame
  <2>4. o \in Seq(Frame) /\ h \in Seq(Frame) /\ q \in Seq(Frame)
        BY <2>3 DEF EncoderType
  <2> HIDE DEF o, h, q
  <2>5. s \in Seq(Frame)
        BY <2>4
  <2>6. /\ encoder'.st = "on"
        /\ Stream' = Append(s, frame) \/ (Stream' = s /\ frame \in lost')
    <3>1. CASE encoder' = e /\ lost' = lost \cup {frame}
          BY <2>2, <3>1 DEF Stream, o, h, q
    <3>2. CASE encoder' = [e EXCEPT !.queue = Append(q, frame)]
      <4>1. /\ encoder'.out = o /\ encoder'.hand = h /\ encoder'.queue = Append(q, frame)
            /\ encoder'.st = "on"
            BY <2>2, <2>3, <3>2 DEF EncoderType, o, h
      <4>2. h \o Append(q, frame) = Append(h \o q, frame) /\ h \o q \in Seq(Frame)
            BY <2>1, <2>4, ConcatOfAppend
      <4> DEFINE r == h \o q
      <4> HIDE DEF r
      <4>3. o \o Append(r, frame) = Append(o \o r, frame)
            BY <2>1, <2>4, <4>2, ConcatOfAppend DEF r
      <4>4. QED
            BY <4>1, <4>2, <4>3 DEF Stream, r
    <3>3. QED
          BY <2>2, <3>1, <3>2 DEF q
  <2> HIDE DEF s
  <2>7. \A i \in 1 .. Len(s) : s[i].take = take /\ s[i].k < size /\ s[i].k < size + 1
    <3>1. ASSUME NEW i \in 1 .. Len(s) PROVE s[i].k \in Nat
      <4>1. s[i] \in Frame
            BY <2>5
      <4>2. QED
            BY <4>1, Bounds DEF Frame
    <3>2. QED
          BY <1>2, <2>3, <3>1 DEF OfTake
  <2>8. size' - 1 = size /\ 0 .. size = (0 .. (size - 1)) \cup {size}
        BY <1>1, <1>2
  <2>9. CASE Stream' = s /\ frame \in lost'
    <3>1. OfTake(Stream)'
          BY <1>1, <2>3, <2>7, <2>9 DEF OfTake, Ascending
    <3>2. Covers(Stream, take, size)'
          BY <1>1, <2>3, <2>8, <2>9 DEF Covers, frame
    <3>3. QED
          BY <1>1, <1>4, <2>6, <3>1, <3>2 DEF StreamInv, Feeding
  <2>10. CASE Stream' = Append(s, frame)
    <3> DEFINE a == Append(s, frame)
    <3>1. Ascending(a)
          BY <2>1, <2>3, <2>5, <2>7, AscendingLast DEF OfTake
    <3>2. /\ Len(a) = Len(s) + 1 /\ a[Len(s) + 1] = frame /\ Len(s) \in Nat
          /\ \A i \in 1 .. Len(s) : a[i] = s[i]
          BY <2>1, <2>5, AppendProperties
    <3> HIDE DEF a
    <3>3. ASSUME NEW i \in 1 .. Len(a) PROVE a[i].take = take /\ a[i].k < size + 1
      <4>1. CASE i = Len(s) + 1
            BY <1>2, <2>1, <3>2, <4>1
      <4>2. CASE i # Len(s) + 1
        <5>1. i \in 1 .. Len(s)
              BY <3>2, <4>2
        <5>2. QED
              BY <2>7, <3>2, <5>1
      <4>3. QED
            BY <4>1, <4>2
    <3>4. ASSUME NEW k \in 0 .. size
          PROVE  \/ [take |-> take, k |-> k] \in lost'
                 \/ \E i \in 1 .. Len(a) : a[i] = [take |-> take, k |-> k]
      <4>1. CASE k = size
        <5>1. Len(s) + 1 \in 1 .. Len(a) /\ a[Len(s) + 1] = [take |-> take, k |-> k]
              BY <3>2, <4>1 DEF frame
        <5>2. QED
              BY <5>1
      <4>2. CASE k \in 0 .. (size - 1)
        <5>1. \/ [take |-> take, k |-> k] \in lost
              \/ \E i \in 1 .. Len(s) : s[i] = [take |-> take, k |-> k]
              BY <2>3, <4>2 DEF Covers
        <5>2. 1 .. Len(s) \subseteq 1 .. Len(a)
              BY <3>2
        <5>3. QED
              BY <1>1, <3>2, <5>1, <5>2
      <4>3. QED
            BY <2>8, <4>1, <4>2
    <3>5. Stream' = a
          BY <2>10 DEF a
    <3>6. OfTake(Stream)'
          BY <1>1, <3>1, <3>3, <3>5 DEF OfTake, Ascending
    <3>7. Covers(Stream, take, size)'
          BY <1>1, <2>8, <3>4, <3>5 DEF Covers
    <3>8. QED
          BY <1>1, <1>4, <2>6, <3>6, <3>7 DEF StreamInv, Feeding
  <2>11. QED
         BY <2>6, <2>9, <2>10
<1>5. QED
      BY <1>3, <1>4

LEMMA StreamFile ==
  ASSUME TypeOK, StreamInv, FinishAlive \/ EncodeImages
  PROVE  StreamInv'
<1>1. pc' = "file" /\ pc' \notin Feeding \cup {"video", "finish"}
      BY DEF FinishAlive, EncodeImages, Feeding
<1>2. encoder'.st = "off"
  <2>1. CASE FinishAlive
        BY <2>1, EncoderIs DEF FinishAlive, EncoderType
  <2>2. CASE EncodeImages
        BY <2>2 DEF EncodeImages, Off
  <2>3. QED
        BY <2>1, <2>2
<1>3. QED
      BY <1>1, <1>2 DEF StreamInv

LEMMA StreamStep ==
  ASSUME TypeOK, ImagesInv, StreamInv, [Next]_vars
  PROVE  StreamInv'
BY StepIs, StreamQuiet, StreamNone, StreamBegin, StreamEncode, StreamAdd, StreamFile

\* The record of the episode being saved.
LEMMA PartStep ==
  ASSUME TypeOK, PartIs, [Next]_vars
  PROVE  PartIs'
<1>1. CASE SaveRows
  <2>1. PICK n \in FileAfter("data") :
          part' = [NoRecord EXCEPT !.ep = info.episodes, !.take = take,
                                   !.length = size, !.data = n]
        BY <1>1 DEF SaveRows, WriteRows
  <2>2. size > 0 /\ UNCHANGED <<info, size, take>>
        BY <1>1 DEF SaveRows, WriteRows
  <2>3. QED
        BY <2>1, <2>2 DEF PartIs, NoRecord
<1>2. CASE PlaceVideo
  <2>1. /\ pc = "file" /\ UNCHANGED <<info, size, take>>
        /\ \E n, v, w : part' = [part EXCEPT !.video = n, !.vfrom = v, !.vto = w]
        BY <1>2 DEF PlaceVideo
  <2>2. part \in Record
        BY Types DEF TakeTypes
  <2>3. part'.length = part.length /\ part'.take = part.take /\ part'.ep = part.ep
        BY <2>1, <2>2 DEF Record
  <2>4. QED
        BY <2>1, <2>3 DEF PartIs, Placed
<1>3. CASE \/ Press \/ WriteImage \/ TakeFrame \/ EncodeFrame \/ EncoderFails
           \/ UNCHANGED vars \/ EncodeImages \/ FinishAlive
  <2>1. /\ UNCHANGED <<info, size, take, part>>
        /\ pc' = pc \/ pc \in {"video", "finish"}
        BY <1>3 DEF Press, WriteImage, TakeFrame, EncodeFrame, EncoderFails, vars, disk,
                    EncodeImages, FinishAlive
  <2>2. QED
        BY <2>1 DEF PartIs, Placed
<1>4. CASE \/ Ending \/ BeginEpisode \/ AddFrame \/ LeaveLoop \/ Rerecord \/ Keep
           \/ SaveMetadata \/ SaveInfo \/ NewBuffer \/ Resume
  <2>1. pc' \notin Placed
        BY <1>4, EndingIs
           DEF BeginEpisode, AddFrame, LeaveLoop, Rerecord, Keep,
               SaveMetadata, SaveInfo, NewBuffer, Resume, Placed
  <2>2. QED
        BY <2>1 DEF PartIs
<1>5. QED
      BY <1>1, <1>2, <1>3, <1>4, StepIs

\* What a thread that encoded the take has encoded.
LEMMA OutFinish ==
  ASSUME TypeOK, StreamInv, FinishAlive
  PROVE  OutInv'
<1> DEFINE s == encoder.out
<1>1. /\ pc = "finish" /\ encoder.queue = <<>> /\ encoder.hand = <<>>
      /\ encoder.st = "on" /\ encoder' = [encoder EXCEPT !.st = "off"]
      /\ UNCHANGED <<info, take, size, streaming, discarded, lost>>
      BY DEF FinishAlive, disk
<1>2. encoder'.out = s /\ s \in Seq(Frame)
      BY <1>1, EncoderIs DEF EncoderType
<1>3. s = Stream
  <2> HIDE DEF s
  <2>1. s \o (<<>> \o <<>>) = s
        BY <1>2, Moved, ConcatEmptySeq
  <2>2. QED
        BY <1>1, <2>1 DEF Stream, s
<1>4. OfTake(s) /\ Covers(s, take, size)
      BY <1>1, <1>3 DEF StreamInv, Feeding
<1> HIDE DEF s
<1>5. Content(s, info.episodes, take, size)
      BY <1>4 DEF OfTake, Content
<1>6. QED
      BY <1>1, <1>2, <1>5 DEF OutInv, Content, Covers, Ascending

\* What the images found under the number of the episode are encoded to.
LEMMA OutImages ==
  ASSUME TypeOK, ImagesInv, StreamInv, EncodeImages
  PROVE  OutInv'
<1>0. DiskTypes /\ TakeTypes /\ size \in Nat
      BY Types, EncoderIs
<1> DEFINE mine == {i \in images : i.ep = info.episodes}
<1>1. /\ pc = "video" /\ UNCHANGED <<info, take, size, discarded, lost>>
      BY DEF EncodeImages, disk
<1>2. PICK n \in 0 .. MaxFrames :
        \E inOrder \in [1 .. n -> mine] :
          /\ ToSet(inOrder) = mine
          /\ \A i, j \in 1 .. n : i < j => inOrder[i].k < inOrder[j].k
          /\ encoder' = [Off EXCEPT !.out = [i \in 1 .. n |-> inOrder[i].frame]]
      BY DEF EncodeImages
<1>3. PICK inOrder \in [1 .. n -> mine] :
          /\ ToSet(inOrder) = mine
          /\ \A i, j \in 1 .. n : i < j => inOrder[i].k < inOrder[j].k
          /\ encoder' = [Off EXCEPT !.out = [i \in 1 .. n |-> inOrder[i].frame]]
      BY <1>2
<1> DEFINE out == [i \in 1 .. n |-> inOrder[i].frame]
<1>4. encoder'.out = out /\ Len(out) = n /\ n \in Nat
      BY <1>2, <1>3, Bounds DEF Off
<1>5. Own /\ unwritten = {}
      BY <1>1 DEF StreamInv, ImagesInv, Own, Current
<1>6. /\ \A i \in mine : IsOwn(i) \/ OldImage(i)
      /\ \A i \in mine : i.frame.k = i.k /\ i.ep = info.episodes
      /\ \A k \in 0 .. (size - 1) : Img(k) \in images \/ [take |-> take, k |-> k] \in lost
      BY <1>5 DEF ImagesInv
<1>7. /\ \A i \in 1 .. n : inOrder[i] \in mine
      /\ \A i \in mine : \E j \in 1 .. n : inOrder[j] = i
  <2>1. DOMAIN inOrder = 1 .. n
        OBVIOUS
  <2>2. QED
        BY <1>3, <2>1 DEF ToSet
<1>8. \A i \in 1 .. n : out[i] = inOrder[i].frame
      OBVIOUS
<1> HIDE DEF out
<1>9. Ascending(out)
  <2>1. ASSUME NEW i \in 1 .. n, NEW j \in 1 .. n, i < j PROVE out[i].k < out[j].k
    <3>1. out[i].k = inOrder[i].k /\ out[j].k = inOrder[j].k
          BY <1>6, <1>7, <1>8
    <3>2. QED
          BY <1>3, <2>1, <3>1
  <2>2. QED
        BY <1>4, <2>1 DEF Ascending
<1>10. ASSUME NEW i \in 1 .. n
       PROVE  \/ out[i].take = take /\ out[i].k < size
              \/ out[i].take < take /\ <<info.episodes, out[i].take>> \in discarded
  <2>1. /\ inOrder[i] \in mine /\ out[i] = inOrder[i].frame
        /\ inOrder[i].ep = info.episodes
        BY <1>6, <1>7, <1>8
  <2>2. CASE OldImage(inOrder[i])
        BY <2>1, <2>2 DEF OldImage
  <2>3. CASE IsOwn(inOrder[i])
    <3>1. PICK k \in 0 .. (size - 1) : inOrder[i] = Img(k)
          BY <2>3 DEF IsOwn
    <3>2. out[i].take = take /\ out[i].k = k
      <4>1. Img(k).frame.take = take /\ Img(k).frame.k = k
            BY ImgIs
      <4>2. out[i] = Img(k).frame
            BY <2>1, <3>1, Zenon
      <4>3. QED
            BY <4>1, <4>2, Zenon
    <3>3. QED
          BY <1>0, <3>2
  <2>4. QED
        BY <1>6, <2>1, <2>2, <2>3
<1>11. Covers(out, take, size)
  <2>1. ASSUME NEW k \in 0 .. (size - 1), [take |-> take, k |-> k] \notin lost
        PROVE  \E i \in 1 .. n : out[i] = [take |-> take, k |-> k]
    <3>1. Img(k) \in images /\ Img(k).ep = info.episodes
          /\ Img(k).frame = [take |-> take, k |-> k]
          BY <1>6, <2>1, ImgIs
    <3>2. PICK j \in 1 .. n : inOrder[j] = Img(k)
          BY <1>7, <3>1
    <3>3. QED
          BY <1>8, <3>1, <3>2
  <2>2. QED
        BY <1>4, <2>1 DEF Covers
<1>12. Content(out, info.episodes, take, size)
       BY <1>4, <1>9, <1>10, <1>11 DEF Content
<1>13. QED
       BY <1>1, <1>4, <1>12 DEF OutInv, Content, Covers, Ascending

LEMMA OutStep ==
  ASSUME TypeOK, ImagesInv, StreamInv, OutInv, [Next]_vars
  PROVE  OutInv'
<1>1. CASE FinishAlive
      BY <1>1, OutFinish
<1>2. CASE EncodeImages
      BY <1>2, OutImages
<1>3. CASE \/ Press \/ WriteImage \/ TakeFrame \/ EncodeFrame \/ EncoderFails
           \/ UNCHANGED vars
  <2>1. UNCHANGED <<info, size, take, pc, discarded>> /\ lost \subseteq lost'
        BY <1>3 DEF Press, WriteImage, TakeFrame, EncodeFrame, EncoderFails, vars, disk
  <2>2. pc = "file" => encoder' = encoder
        BY <1>3 DEF Press, WriteImage, TakeFrame, EncodeFrame, EncoderFails, vars, StreamInv
  <2>3. QED
        BY <2>1, <2>2 DEF OutInv, Content, Covers, Ascending
<1>4. CASE \/ Ending \/ BeginEpisode \/ AddFrame \/ LeaveLoop \/ Rerecord \/ Keep
           \/ SaveRows \/ PlaceVideo \/ SaveMetadata \/ SaveInfo \/ NewBuffer \/ Resume
  <2>1. pc' # "file"
        BY <1>4, EndingIs
           DEF BeginEpisode, AddFrame, LeaveLoop, Rerecord, Keep,
               SaveRows, WriteRows, PlaceVideo, SaveMetadata, SaveInfo, NewBuffer,
               Resume
  <2>2. QED
        BY <2>1 DEF OutInv
<1>5. QED
      BY <1>1, <1>2, <1>3, <1>4, StepIs

(***************************************************************************)
(* The clips.                                                              *)
(***************************************************************************)
\* What lies within a sequence is there when more comes before or behind it.
LEMMA WithinLonger ==
  ASSUME NEW S, NEW s \in Seq(S), NEW more \in Seq(S), NEW a \in Nat, NEW b \in Nat,
         a <= b, b <= Len(s)
  PROVE  SubSeq(s \o more, a + 1, b) = SubSeq(s, a + 1, b)
<1> DEFINE l == s \o more  x == SubSeq(l, a + 1, b)  y == SubSeq(s, a + 1, b)
<1>1. /\ l \in Seq(S) /\ Len(l) = Len(s) + Len(more)
      /\ \A i \in 1 .. Len(s) : l[i] = s[i]
      /\ Len(s) \in Nat /\ Len(more) \in Nat
      BY ConcatProperties
<1> HIDE DEF l
<1>2. ASSUME NEW i \in (a + 1) .. b PROVE i \in 1 .. Len(s) /\ i \in 1 .. Len(l)
      BY <1>1
<1>3. /\ x \in Seq(S) /\ Len(x) = b - a /\ \A i \in 1 .. (b - a) : x[i] = l[a + i]
      /\ y \in Seq(S) /\ Len(y) = b - a /\ \A i \in 1 .. (b - a) : y[i] = s[a + i]
      BY <1>1, <1>2
<1> HIDE DEF x, y
<1>4. ASSUME NEW i \in 1 .. (b - a) PROVE x[i] = y[i]
  <2>1. a + i \in 1 .. Len(s)
        BY <1>1
  <2>2. QED
        BY <1>1, <1>3, <2>1
<1>5. x = y
      BY <1>3, <1>4, SeqEqual
<1>6. QED
      BY <1>5 DEF x, y, l

LEMMA WithinBehind ==
  ASSUME NEW S, NEW s \in Seq(S), NEW more \in Seq(S)
  PROVE  SubSeq(s \o more, Len(s) + 1, Len(s) + Len(more)) = more
<1> DEFINE l == s \o more  n == Len(s)  m == Len(more)  x == SubSeq(l, n + 1, n + m)
<1>1. /\ l \in Seq(S) /\ Len(l) = n + m /\ n \in Nat /\ m \in Nat
      /\ \A i \in 1 .. Len(l) : l[i] = IF i <= n THEN s[i] ELSE more[i - n]
      BY ConcatProperties
<1> HIDE DEF l, n, m
<1>2. /\ x \in Seq(S) /\ Len(x) = m /\ \A i \in 1 .. m : x[i] = l[n + i]
      BY <1>1
<1> HIDE DEF x
<1>3. ASSUME NEW i \in 1 .. m PROVE x[i] = more[i]
  <2>1. n + i \in 1 .. Len(l) /\ ~(n + i <= n) /\ (n + i) - n = i
        BY <1>1
  <2>2. QED
        BY <1>1, <1>2, <2>1
<1>4. x = more
      BY <1>2, <1>3, SeqEqual DEF m
<1>5. QED
      BY <1>4 DEF x, l, n, m

\* A clip in a file to which more is appended.
LEMMA ClipLonger ==
  ASSUME NEW r \in Record, NEW file \in Seq(Frame), NEW more \in Seq(Frame),
         Clip(r, file)
  PROVE  Clip(r, file \o more)
<1>1. /\ Len(file \o more) = Len(file) + Len(more)
      /\ Len(file) \in Nat /\ Len(more) \in Nat
      BY ConcatProperties
<1>2. r.vfrom \in Nat /\ r.vto \in Nat
      BY DEF Record
<1>3. SubSeq(file \o more, r.vfrom + 1, r.vto) = SubSeq(file, r.vfrom + 1, r.vto)
      BY <1>2, WithinLonger DEF Clip
<1>4. r.vto <= Len(file \o more)
      BY <1>1, <1>2 DEF Clip
<1>5. QED
      BY <1>3, <1>4 DEF Clip

LEMMA VideoSame ==
  ASSUME VideoInv, UNCHANGED videos, All' = All,
         discarded \subseteq discarded', lost \subseteq lost',
         latest' = latest \/ latest' = <<>>,
         pc' = "meta" => pc = "meta" /\ part' = part,
         pc' \notin {"meta", "over"} => pc \notin {"meta", "over"} \/ latest' = <<>>
  PROVE  VideoInv'
<1>1. ASSUME NEW i \in 1 .. Len(All') PROVE Clip(All[i], videos[All[i].video + 1])'
  <2> DEFINE r == All[i]  file == videos[r.video + 1]
  <2>1. Clip(r, file)
        BY DEF VideoInv
  <2>2. r' = r /\ file' = file
        OBVIOUS
  <2> HIDE DEF r, file
  <2>3. Clip(r, file)'
        BY <2>1, <2>2 DEF Clip, Content, Covers, Ascending
  <2>4. QED
        BY <2>3 DEF r, file
<1>2. pc' = "meta" =>
        (Clip(part, videos[part.video + 1]) /\ Len(videos[part.video + 1]) = part.vto)'
  <2>1. SUFFICES ASSUME pc' = "meta"
                 PROVE  (Clip(part, videos[part.video + 1])
                           /\ Len(videos[part.video + 1]) = part.vto)'
        OBVIOUS
  <2>2. Clip(part, videos[part.video + 1]) /\ Len(videos[part.video + 1]) = part.vto
        BY <2>1 DEF VideoInv
  <2>3. QED
        BY <2>1, <2>2 DEF Clip, Content, Covers, Ascending
<1>3. (pc \notin {"meta", "over"} /\ latest # <<>> =>
         Len(videos[Last(latest).video + 1]) = Last(latest).vto)'
      BY DEF VideoInv
<1>4. QED
      BY <1>1, <1>2, <1>3 DEF VideoInv

LEMMA VideoQuiet ==
  ASSUME VideoInv,
         \/ Press \/ WriteImage \/ TakeFrame \/ EncodeFrame \/ EncoderFails
         \/ UNCHANGED vars
         \/ Ending \/ BeginEpisode \/ AddFrame \/ LeaveLoop \/ Rerecord \/ Keep
         \/ SaveRows \/ EncodeImages \/ FinishAlive \/ SaveInfo \/ NewBuffer
  PROVE  VideoInv'
<1>1. /\ UNCHANGED <<videos, loaded, latest>>
      /\ discarded \subseteq discarded' /\ lost \subseteq lost'
      /\ \/ pc' = pc /\ part' = part
         \/ pc' = "over"
         \/ pc \notin {"meta", "over"} /\ pc' # "meta"
  <2>1. CASE \/ Press \/ WriteImage \/ TakeFrame \/ EncodeFrame \/ EncoderFails
             \/ UNCHANGED vars
        BY <2>1 DEF Press, WriteImage, TakeFrame, EncodeFrame, EncoderFails, vars, disk,
                    object
  <2>2. CASE Ending
        BY <2>2, EndingIs
  <2>3. CASE BeginEpisode \/ AddFrame \/ LeaveLoop \/ Rerecord \/ Keep
        BY <2>3 DEF BeginEpisode, AddFrame, Streamed, Queued, LeaveLoop, Rerecord, Keep,
                    disk, object
  <2>4. CASE SaveRows \/ EncodeImages \/ FinishAlive \/ SaveInfo \/ NewBuffer
        BY <2>4 DEF SaveRows, WriteRows, EncodeImages, FinishAlive, SaveInfo, NewBuffer,
                    disk, object
  <2>5. QED
        BY <2>1, <2>2, <2>3, <2>4
<1>2. All' = All
      BY <1>1 DEF All
<1>3. QED
      BY <1>1, <1>2, VideoSame

\* The video is placed.
LEMMA VideoPlaced ==
  ASSUME TypeOK, FilesInv, PartIs, OutInv, VideoInv, PlaceVideo
  PROVE  VideoInv'
<1>0. DiskTypes /\ ObjectTypes /\ TakeTypes /\ size \in Nat
      BY Types, EncoderIs
<1>1. PICK n \in Nat, v \in Nat, j \in BOOLEAN :
           /\ Fits("video", n) /\ (j <=> Continues("video", n))
           /\ \/ ~j /\ n = NextNumber("video") /\ v = 0
              \/ j /\ n + 1 = NextNumber("video") /\ v = Last(latest).vto
           /\ Stored(videos', Frame, videos, n, j, encoder.out)
           /\ Len(videos') = n + 1
           /\ part' = [part EXCEPT !.video = n, !.vfrom = v,
                                   !.vto = v + Len(encoder.out)]
      BY <1>0, VideoStored
<1>2. /\ pc = "file" /\ pc' = "meta"
      /\ UNCHANGED <<info, loaded, latest, discarded, lost, size, take>>
      BY DEF PlaceVideo, object
<1>3. All' = All /\ All \in Seq(Record)
      BY <1>0, <1>2, AllType DEF All
<1> DEFINE out == encoder.out  old == videos[n + 1]  file == videos'[n + 1]
           pre == IF j THEN old ELSE <<>>
<1>4. /\ out \in Seq(Frame) /\ Len(out) \in Nat
      /\ videos \in Seq(Seq(Frame)) /\ Len(videos) \in Nat
      BY <1>0 DEF TakeTypes, EncoderType, DiskTypes
<1>5. /\ \A i \in 1 .. n : videos'[i] = videos[i]
      /\ j => Len(videos) = n + 1
      /\ j => file = old \o out
      /\ ~j => file = out
      BY <1>1 DEF Stored
<1>6. j => old \in Seq(Frame) /\ Len(old) = v
  <2>1. SUFFICES ASSUME j PROVE old \in Seq(Frame) /\ Len(old) = v
        OBVIOUS
  <2>2. latest # <<>> /\ Last(latest)["video"] = n
        BY <1>1, <2>1 DEF Continues
  <2>3. Len(videos[Last(latest).video + 1]) = Last(latest).vto
        BY <1>2, <2>2 DEF VideoInv
  <2>4. n + 1 \in 1 .. Len(videos)
        BY <1>4, <1>5, <2>1
  <2>5. QED
        BY <1>1, <1>4, <2>1, <2>2, <2>3, <2>4
<1>7. /\ pre \in Seq(Frame) /\ Len(pre) = v /\ file = pre \o out
  <2>1. CASE j
        BY <1>5, <1>6, <2>1
  <2>2. CASE ~j
    <3>1. pre = <<>> /\ v = 0
          BY <1>1, <2>2
    <3> HIDE DEF pre, out, file
    <3>2. <<>> \o out = out /\ Len(<<>>) = 0
          BY <1>4, ConcatEmptySeq
    <3>3. QED
          BY <1>5, <2>2, <3>1, <3>2
  <2>3. QED
        BY <2>1, <2>2
<1> HIDE DEF pre, out, file, old
<1>8. Len(file) = v + Len(out) /\ SubSeq(file, v + 1, v + Len(out)) = out
  <2>1. Len(pre \o out) = Len(pre) + Len(out)
        BY <1>4, <1>7, ConcatProperties
  <2>2. SubSeq(pre \o out, Len(pre) + 1, Len(pre) + Len(out)) = out
        BY <1>4, <1>7, WithinBehind
  <2>3. QED
        BY <1>7, <2>1, <2>2
<1>9. /\ part' \in Record /\ part'.video = n /\ part'.vfrom = v
      /\ part'.vto = v + Len(out)
      /\ part'.length = part.length /\ part'.take = part.take /\ part'.ep = part.ep
  <2>1. part \in Record /\ v + Len(out) \in Nat
        BY <1>0, <1>4 DEF TakeTypes
  <2>2. part' = [part EXCEPT !.video = n, !.vfrom = v, !.vto = v + Len(out)]
        BY <1>1 DEF out
  <2>3. QED
        BY <2>1, <2>2 DEF Record
<1>10. part.length = size /\ part.take = take /\ part.ep = info.episodes
       BY <1>2 DEF PartIs, Placed
<1>11. Content(out, info.episodes, take, size)
       BY <1>2 DEF OutInv, out
<1> DEFINE p == part'
<1>12. Clip(p, file) /\ Len(file) = p.vto
  <2>1. p.vfrom <= p.vto /\ p.vto <= Len(file) /\ Len(file) = p.vto
        BY <1>4, <1>8, <1>9
  <2>2. Content(SubSeq(file, p.vfrom + 1, p.vto), p.ep, p.take, p.length)
        BY <1>8, <1>9, <1>10, <1>11
  <2> HIDE DEF p
  <2>3. QED
        BY <2>1, <2>2 DEF Clip
<1>13. (Clip(part, videos[part.video + 1]) /\ Len(videos[part.video + 1]) = part.vto)'
  <2>1. videos'[p.video + 1] = file /\ discarded' = discarded /\ lost' = lost
        BY <1>2, <1>9 DEF file
  <2>2. QED
        BY <1>12, <2>1 DEF Clip, Content, Covers, Ascending
<1>14. ASSUME NEW i \in 1 .. Len(All)
       PROVE  Clip(All[i], videos'[All[i].video + 1])
  <2> DEFINE r == All[i]
  <2>1. /\ Clip(r, videos[r.video + 1]) /\ r \in Record /\ r.video \in Nat
        /\ r["video"] = r.video
    <3>1. r \in Record
          BY <1>3
    <3>2. r.video \in Nat /\ r["video"] = r.video
          BY <3>1 DEF Record
    <3>3. Clip(r, videos[r.video + 1])
          BY DEF VideoInv
    <3>4. QED
          BY <3>1, <3>2, <3>3
  <2>2. r.video <= n
        BY <1>1, <2>1 DEF Fits
  <2>3. CASE r.video < n
    <3>1. r.video + 1 \in 1 .. n
          BY <2>1, <2>3
    <3>2. QED
          BY <1>5, <2>1, <3>1
  <2>4. CASE r.video = n
    <3>1. j
      <4>1. All # <<>> /\ Last(All)["video"] \in Nat
        <5>1. All # <<>>
              BY <1>3
        <5>2. QED
              BY <1>0, <5>1, AllType, RecordKinds DEF Kind
      <4>2. All[i]["video"] <= Last(All)["video"]
            BY <4>1 DEF FilesInv, LogInv, Kind
      <4>3. n # NextNumber("video")
            BY <2>1, <2>4, <4>1, <4>2 DEF NextNumber
      <4>4. QED
            BY <1>1, <4>3
    <3>2. Clip(r, old)
          BY <2>1, <2>4 DEF old
    <3>3. Clip(r, old \o out)
          BY <1>4, <1>6, <2>1, <3>1, <3>2, ClipLonger
    <3>4. file = old \o out
          BY <1>5, <3>1 DEF old, out, file
    <3>5. QED
          BY <2>4, <3>3, <3>4 DEF file
  <2>5. QED
        BY <1>1, <2>1, <2>2, <2>3, <2>4
<1>15. ASSUME NEW i \in 1 .. Len(All') PROVE Clip(All[i], videos[All[i].video + 1])'
  <2> DEFINE r == All[i]  f == videos[r.video + 1]
  <2>1. r' = r /\ f' = videos'[r.video + 1]
        BY <1>3
  <2>2. Clip(r, f')
        BY <1>3, <1>14, <2>1
  <2> HIDE DEF r, f
  <2>3. Clip(r, f)'
        BY <1>2, <2>1, <2>2 DEF Clip, Content, Covers, Ascending
  <2>4. QED
        BY <2>3 DEF r, f
<1>16. QED
       BY <1>2, <1>13, <1>15 DEF VideoInv

\* The record joins the log.
LEMMA SavedIs ==
  ASSUME ObjectTypes, TakeTypes, FilesInv, SaveMetadata
  PROVE  \E r \in Record :
           /\ loaded' = loaded /\ latest' = Append(latest, r)
           /\ r.data = part.data /\ r.video = part.video
           /\ r.length = part.length /\ r.ep = part.ep /\ r.take = part.take
           /\ r.vfrom = part.vfrom /\ r.vto = part.vto
           /\ r.from = Total /\ r.to = Total + part.length
<1>1. PICK n \in FileAfter("meta") : latest' = Append(latest, SavedRecord(n))
      BY DEF SaveMetadata, SavedRecord
<1>2. n \in Nat /\ loaded' = loaded
      BY FileAfterIs DEF FilesInv, Kind, SaveMetadata
<1> DEFINE from == IF First THEN 0 ELSE Last(loaded \o latest).to
           q == [part EXCEPT !.meta = n, !.from = from, !.to = from + part.length]
<1>3. from = Total /\ from \in Nat
  <2>1. First <=> All = <<>>
        BY AllType
  <2>2. ~First => Last(All).to \in Nat
        BY <2>1, AllType DEF Record
  <2>3. from = IF First THEN 0 ELSE Last(All).to
        BY DEF All
  <2> HIDE DEF from
  <2>4. QED
        BY <2>1, <2>2, <2>3 DEF Total
<1>4. SavedRecord(n) = q
      BY DEF SavedRecord
<1> HIDE DEF from
<1>5. /\ q \in Record /\ q["data"] = part.data /\ q["video"] = part.video
      /\ q.length = part.length /\ q.ep = part.ep /\ q.take = part.take
      /\ q.vfrom = part.vfrom /\ q.vto = part.vto
      /\ q.from = from /\ q.to = from + part.length
      BY <1>2, <1>3, PartRecord
<1> HIDE DEF q
<1>6. latest' = Append(latest, q) /\ q.data = part.data /\ q.video = part.video
      BY <1>1, <1>4, <1>5, RecordKinds
<1>7. QED
      BY <1>2, <1>3, <1>5, <1>6

LEMMA VideoSaved ==
  ASSUME TypeOK, FilesInv, VideoInv, SaveMetadata
  PROVE  VideoInv'
<1>0. DiskTypes /\ ObjectTypes /\ TakeTypes
      BY Types
<1>1. PICK r \in Record :
           /\ loaded' = loaded /\ latest' = Append(latest, r)
           /\ r.data = part.data /\ r.video = part.video
           /\ r.length = part.length /\ r.ep = part.ep /\ r.take = part.take
           /\ r.vfrom = part.vfrom /\ r.vto = part.vto
      BY <1>0, SavedIs
<1>2. /\ All' = Append(All, r) /\ Last(latest') = r /\ All \in Seq(Record)
      BY <1>0, <1>1, Grow, AllType
<1>3. /\ pc = "meta" /\ pc' = "info" /\ UNCHANGED <<videos, discarded, lost>>
      BY DEF SaveMetadata
<1>4. Clip(part, videos[part.video + 1]) /\ Len(videos[part.video + 1]) = part.vto
      BY <1>3 DEF VideoInv
<1>5. Clip(r, videos[r.video + 1]) /\ Len(videos[r.video + 1]) = r.vto
      BY <1>1, <1>4 DEF Clip
<1>6. /\ Len(All') = Len(All) + 1 /\ All'[Len(All) + 1] = r /\ Len(All) \in Nat
      /\ \A i \in 1 .. Len(All) : All'[i] = All[i]
      BY <1>2, AppendProperties
<1>7. ASSUME NEW i \in 1 .. Len(All') PROVE Clip(All'[i], videos[All'[i].video + 1])
  <2>1. CASE i = Len(All) + 1
        BY <1>5, <1>6, <2>1
  <2>2. CASE i # Len(All) + 1
    <3>1. i \in 1 .. Len(All)
          BY <1>6, <2>2
    <3>2. QED
          BY <1>6, <3>1 DEF VideoInv
  <2>3. QED
        BY <2>1, <2>2
<1>8. ASSUME NEW i \in 1 .. Len(All') PROVE Clip(All[i], videos[All[i].video + 1])'
      BY <1>3, <1>7 DEF Clip, Content, Covers, Ascending
<1>9. QED
      BY <1>2, <1>3, <1>5, <1>8 DEF VideoInv

LEMMA VideoStep ==
  ASSUME TypeOK, FilesInv, PartIs, OutInv, VideoInv, [Next]_vars
  PROVE  VideoInv'
<1>1. CASE Resume
  <2>1. All' = All
        BY <1>1, ResumeFiles, Types
  <2>2. /\ UNCHANGED <<videos, discarded, lost>> /\ latest' = <<>> /\ pc' = "head"
        BY <1>1 DEF Resume, disk
  <2>3. QED
        BY <2>1, <2>2, VideoSame
<1>2. QED
      BY <1>1, StepIs, VideoQuiet, VideoPlaced, VideoSaved


(***************************************************************************)
(* The rows of each record, in its file.                                   *)
(***************************************************************************)
\* Rows before or behind change nothing.
LEMMA BlockLonger ==
  ASSUME NEW r \in Record, NEW rows \in Seq(Row), NEW more \in Seq(Row), Block(r, rows)
  PROVE  Block(r, rows \o more)
<1> DEFINE l == rows \o more
<1>1. /\ \A i \in 1 .. Len(rows) : l[i] = rows[i]
      /\ Len(l) = Len(rows) + Len(more) /\ Len(rows) \in Nat /\ Len(more) \in Nat
      BY ConcatProperties
<1> HIDE DEF l
<1>2. PICK n \in 0 .. (Len(rows) - r.length) : \A k \in 0 .. (r.length - 1) :
        rows[n + k + 1] = [ep |-> r.ep, index |-> rows[n + 1].index + k,
                           frame |-> [take |-> r.take, k |-> k]]
      BY DEF Block
<1>3. r.length \in Nat
      BY DEF Record
<1>4. n \in 0 .. (Len(l) - r.length)
      BY <1>1, <1>3
<1>5. ASSUME NEW k \in 0 .. (r.length - 1)
      PROVE  l[n + k + 1] = [ep |-> r.ep, index |-> l[n + 1].index + k,
                             frame |-> [take |-> r.take, k |-> k]]
  <2>1. n + k + 1 \in 1 .. Len(rows) /\ n + 1 \in 1 .. Len(rows)
        BY <1>1, <1>3
  <2>2. QED
        BY <1>1, <1>2, <2>1
<1>6. Block(r, l)
      BY <1>4, <1>5 DEF Block
<1>7. QED
      BY <1>6 DEF l

RowsOf(r, at, new) ==
  /\ Len(new) = r.length
  /\ \A i \in 1 .. Len(new) :
       new[i] = [ep |-> r.ep, index |-> at + i - 1,
                 frame |-> [take |-> r.take, k |-> i - 1]]

LEMMA BlockBehind ==
  ASSUME NEW r \in Record, NEW rows \in Seq(Row), NEW new \in Seq(Row), NEW at \in Nat,
         RowsOf(r, at, new)
  PROVE  Block(r, rows \o new)
<1> DEFINE l == rows \o new  n == Len(rows)
<1>1. /\ Len(l) = n + Len(new) /\ n \in Nat /\ Len(new) \in Nat
      /\ \A i \in 1 .. Len(l) : l[i] = IF i <= n THEN rows[i] ELSE new[i - n]
      BY ConcatProperties
<1> HIDE DEF l, n
<1>2. ASSUME NEW i \in 1 .. Len(new) PROVE l[n + i] = new[i]
  <2>1. n + i \in 1 .. Len(l) /\ ~(n + i <= n) /\ (n + i) - n = i
        BY <1>1
  <2>2. QED
        BY <1>1, <2>1
<1>3. ASSUME NEW k \in 0 .. (r.length - 1)
      PROVE  l[n + k + 1] = [ep |-> r.ep, index |-> l[n + 1].index + k,
                             frame |-> [take |-> r.take, k |-> k]]
  <2>1. /\ 1 \in 1 .. Len(new) /\ k + 1 \in 1 .. Len(new) /\ n + (k + 1) = n + k + 1
        /\ at + 1 - 1 = at /\ at + (k + 1) - 1 = at + k /\ (k + 1) - 1 = k
        BY <1>1 DEF RowsOf
  <2>2. l[n + 1] = new[1] /\ l[n + k + 1] = new[k + 1]
        BY <1>2, <2>1
  <2>3. new[1] = [ep |-> r.ep, index |-> at + 1 - 1,
                  frame |-> [take |-> r.take, k |-> 1 - 1]]
        BY <2>1 DEF RowsOf
  <2>4. new[1].index = at
        BY <2>1, <2>3
  <2>5. new[k + 1] = [ep |-> r.ep, index |-> at + (k + 1) - 1,
                      frame |-> [take |-> r.take, k |-> (k + 1) - 1]]
        BY <2>1 DEF RowsOf
  <2>6. QED
        BY <2>1, <2>2, <2>4, <2>5
<1>4. n \in 0 .. (Len(l) - r.length)
      BY <1>1 DEF RowsOf
<1>5. Block(r, l)
      BY <1>3, <1>4 DEF Block
<1>6. QED
      BY <1>5 DEF l

LEMMA BlockSame ==
  ASSUME BlockInv, All' = All, data' = data,
         pc' \in Placed =>
           /\ pc \in Placed /\ part'.data = part.data /\ part'.ep = part.ep
           /\ part'.take = part.take /\ part'.length = part.length
  PROVE  BlockInv'
<1>1. \A i \in 1 .. Len(All') : Block(All[i], data[All[i].data + 1])'
      BY DEF BlockInv
<1>2. ASSUME pc' \in Placed PROVE Block(part, data[part.data + 1])'
  <2>1. Block(part, data[part.data + 1])
        BY <1>2 DEF BlockInv
  <2>2. QED
        BY <1>2, <2>1 DEF Block
<1>3. QED
      BY <1>1, <1>2 DEF BlockInv

LEMMA BlockQuiet ==
  ASSUME TypeOK, FilesInv, BlockInv,
         \/ Press \/ WriteImage \/ TakeFrame \/ EncodeFrame \/ EncoderFails
         \/ UNCHANGED vars
         \/ Ending \/ Resume \/ BeginEpisode \/ AddFrame \/ LeaveLoop \/ Rerecord \/ Keep
         \/ EncodeImages \/ FinishAlive \/ PlaceVideo \/ SaveInfo \/ NewBuffer
  PROVE  BlockInv'
<1>1. CASE \/ Press \/ WriteImage \/ TakeFrame \/ EncodeFrame \/ EncoderFails
           \/ UNCHANGED vars
  <2>1. UNCHANGED <<data, loaded, latest, part, pc>>
        BY <1>1 DEF Press, WriteImage, TakeFrame, EncodeFrame, EncoderFails, vars, disk,
                    object
  <2>2. All' = All
        BY <2>1 DEF All
  <2>3. QED
        BY <2>1, <2>2, BlockSame
<1>2. CASE Ending \/ Resume
  <2>1. data' = data /\ pc' \notin Placed
        BY <1>2, EndingIs DEF Resume, disk, Placed
  <2>2. All' = All
    <3>1. CASE Resume
          BY <3>1, ResumeFiles, Types
    <3>2. CASE Ending
          BY <3>2, EndingIs DEF All
    <3>3. QED
          BY <1>2, <3>1, <3>2
  <2>3. QED
        BY <2>1, <2>2, BlockSame
<1>3. CASE BeginEpisode \/ AddFrame \/ LeaveLoop \/ Rerecord \/ Keep \/ SaveInfo \/ NewBuffer
  <2>1. UNCHANGED <<data, loaded, latest>> /\ pc' \notin Placed
    <3>1. CASE BeginEpisode \/ AddFrame \/ LeaveLoop \/ Keep
          BY <3>1 DEF BeginEpisode, AddFrame, LeaveLoop, Keep, disk, object, Placed
    <3>2. CASE Rerecord \/ SaveInfo \/ NewBuffer
          BY <3>2 DEF Rerecord, SaveInfo, NewBuffer, disk, object, Placed
    <3>3. QED
          BY <1>3, <3>1, <3>2
  <2>2. All' = All
        BY <2>1 DEF All
  <2>3. QED
        BY <2>1, <2>2, BlockSame
<1>4. CASE EncodeImages \/ FinishAlive
  <2>1. UNCHANGED <<data, loaded, latest, part>> /\ pc \in Placed
        BY <1>4 DEF EncodeImages, FinishAlive, disk, object, Placed
  <2>2. All' = All
        BY <2>1 DEF All
  <2>3. QED
        BY <2>1, <2>2, BlockSame
<1>5. CASE PlaceVideo
  <2>1. UNCHANGED <<data, loaded, latest>> /\ pc \in Placed
        BY <1>5 DEF PlaceVideo, object, Placed
  <2>2. PICK n, v, w : part' = [part EXCEPT !.video = n, !.vfrom = v, !.vto = w]
        BY <1>5 DEF PlaceVideo
  <2>3. part \in Record
        BY Types DEF TakeTypes
  <2>4. /\ part'.data = part.data /\ part'.ep = part.ep
        /\ part'.take = part.take /\ part'.length = part.length
        BY <2>2, <2>3 DEF Record
  <2>5. All' = All
        BY <2>1 DEF All
  <2>6. QED
        BY <2>1, <2>4, <2>5, BlockSame
<1>6. QED
      BY <1>1, <1>2, <1>3, <1>4, <1>5

\* The rows of an episode are written.
LEMMA BlockWritten ==
  ASSUME TypeOK, FilesInv, BlockInv, SaveRows
  PROVE  BlockInv'
<1>0. /\ DiskTypes /\ ObjectTypes /\ TakeTypes /\ size \in Nat /\ WriteRows
      /\ data \in Seq(Seq(Row)) /\ info.frames \in Nat
      BY Types, EncoderIs DEF SaveRows, DiskTypes
<1>1. PICK n \in Nat, j \in BOOLEAN :
           /\ Fits("data", n) /\ n \in 0 .. Len(data)
           /\ \/ ~j /\ n = NextNumber("data")
              \/ j /\ n + 1 = NextNumber("data") /\ Len(data) = n + 1
           /\ NewRows \in Seq(Row) /\ Len(NewRows) = size
           /\ data' = Store(data, n, j, NewRows)
           /\ part' = [NoRecord EXCEPT !.ep = info.episodes, !.take = take,
                                       !.length = size, !.data = n]
      BY <1>0, RowsStored
<1> DEFINE new == NewRows  old == IF j THEN data[n + 1] ELSE <<>>  file == data'[n + 1]
<1>2. /\ new \in Seq(Row) /\ Len(new) = size
      /\ \A i \in 1 .. Len(new) :
           new[i] = [ep |-> info.episodes, index |-> info.frames + i - 1,
                     frame |-> [take |-> take, k |-> i - 1]]
      BY <1>0, <1>1 DEF NewRows
<1>3. Stored(data', Row, data, n, j, new)
  <2>1. j => n < Len(data)
        BY <1>1
  <2> HIDE DEF new
  <2>2. Stored(Store(data, n, j, new), Row, data, n, j, new)
        BY <1>0, <1>1, <1>2, <2>1, StoreIs
  <2>3. QED
        BY <1>1, <2>2 DEF new
<1>4. /\ \A i \in 1 .. n : data'[i] = data[i]
      /\ j => file = data[n + 1] \o new
      /\ ~j => file = new
      BY <1>3 DEF Stored
<1>5. old \in Seq(Row)
  <2>1. CASE j
    <3>1. n + 1 \in 1 .. Len(data)
          BY <1>1, <2>1
    <3>2. QED
          BY <1>0, <2>1, <3>1
  <2>2. CASE ~j
        BY <2>2
  <2>3. QED
        BY <2>1, <2>2
<1> HIDE DEF new, file
<1>6. file = old \o new
  <2>1. <<>> \o new = new
        BY <1>2, ConcatEmptySeq
  <2>2. QED
        BY <1>4, <2>1
<1>7. /\ part' \in Record /\ part'.data = n /\ part'.length = size
      /\ part'.ep = info.episodes /\ part'.take = take
  <2>1. part' \in Record
        BY <1>0, RowsFiles
  <2>2. QED
        BY <1>1, <2>1 DEF NoRecord
<1> DEFINE p == part'
<1>8. Block(p, file)
  <2>1. p \in Record /\ RowsOf(p, info.frames, new)
        BY <1>2, <1>7 DEF RowsOf
  <2> HIDE DEF p, old
  <2>2. Block(p, old \o new)
        BY <1>0, <1>2, <1>5, <2>1, BlockBehind
  <2>3. QED
        BY <1>6, <2>2
<1>9. Block(part, data[part.data + 1])'
      BY <1>7, <1>8 DEF file
<1>10. All' = All /\ All \in Seq(Record)
       BY <1>0, AllType DEF WriteRows, All
<1>11. ASSUME NEW i \in 1 .. Len(All)
       PROVE  Block(All[i], data'[All[i].data + 1])
  <2> DEFINE r == All[i]
  <2>1. /\ Block(r, data[r.data + 1]) /\ r \in Record /\ r.data \in Nat
        /\ r["data"] = r.data
    <3>1. r \in Record
          BY <1>10
    <3>2. r.data \in Nat /\ r["data"] = r.data
          BY <3>1 DEF Record
    <3>3. Block(r, data[r.data + 1])
          BY DEF BlockInv
    <3>4. QED
          BY <3>1, <3>2, <3>3
  <2>2. r.data <= n
        BY <1>1, <2>1 DEF Fits
  <2>3. CASE r.data < n
    <3>1. r.data + 1 \in 1 .. n
          BY <2>1, <2>3
    <3>2. QED
          BY <1>4, <2>1, <3>1
  <2>4. CASE r.data = n
    <3>1. j
      <4>1. All # <<>> /\ Last(All)["data"] \in Nat
        <5>1. All # <<>>
              BY <1>10
        <5>2. QED
              BY <1>0, <5>1, AllType, RecordKinds DEF Kind
      <4>2. All[i]["data"] <= Last(All)["data"]
            BY <4>1 DEF FilesInv, LogInv, Kind
      <4>3. n # NextNumber("data")
            BY <2>1, <2>4, <4>1, <4>2 DEF NextNumber
      <4>4. QED
            BY <1>1, <4>3
    <3>2. Block(r, old)
          BY <2>1, <2>4, <3>1
    <3> HIDE DEF r, old
    <3>3. Block(r, old \o new)
          BY <1>2, <1>5, <2>1, <3>2, BlockLonger
    <3>4. QED
          BY <1>6, <2>4, <3>3 DEF file, r
  <2>5. QED
        BY <1>1, <2>1, <2>2, <2>3, <2>4
<1>12. \A i \in 1 .. Len(All') : Block(All[i], data[All[i].data + 1])'
       BY <1>10, <1>11
<1>13. QED
       BY <1>9, <1>12 DEF BlockInv

\* The record joins the log.
LEMMA BlockSaved ==
  ASSUME TypeOK, FilesInv, BlockInv, SaveMetadata
  PROVE  BlockInv'
<1>0. DiskTypes /\ ObjectTypes /\ TakeTypes
      BY Types
<1>1. PICK r \in Record :
           /\ loaded' = loaded /\ latest' = Append(latest, r)
           /\ r.data = part.data
           /\ r.length = part.length /\ r.ep = part.ep /\ r.take = part.take
      BY <1>0, SavedIs
<1>2. /\ All' = Append(All, r) /\ All \in Seq(Record)
      BY <1>0, <1>1, Grow, AllType
<1>3. /\ pc = "meta" /\ pc' = "info" /\ data' = data
      BY DEF SaveMetadata
<1>4. Block(part, data[part.data + 1])
      BY <1>3 DEF BlockInv, Placed
<1>5. Block(r, data[r.data + 1])
      BY <1>1, <1>4 DEF Block
<1>6. /\ Len(All') = Len(All) + 1 /\ All'[Len(All) + 1] = r /\ Len(All) \in Nat
      /\ \A i \in 1 .. Len(All) : All'[i] = All[i]
      BY <1>2, AppendProperties
<1>7. ASSUME NEW i \in 1 .. Len(All') PROVE Block(All'[i], data'[All'[i].data + 1])
  <2>1. CASE i = Len(All) + 1
        BY <1>3, <1>5, <1>6, <2>1
  <2>2. CASE i # Len(All) + 1
    <3>1. i \in 1 .. Len(All)
          BY <1>6, <2>2
    <3>2. QED
          BY <1>3, <1>6, <3>1 DEF BlockInv
  <2>3. QED
        BY <2>1, <2>2
<1>8. QED
      BY <1>3, <1>7 DEF BlockInv, Placed

LEMMA BlockStep ==
  ASSUME TypeOK, FilesInv, BlockInv, [Next]_vars
  PROVE  BlockInv'
BY StepIs, BlockQuiet, BlockWritten, BlockSaved

(***************************************************************************)
(* The rows of all files.                                                  *)
(***************************************************************************)
LEMMA RowsUpToType ==
  ASSUME DiskTypes, NEW n \in 0 .. Len(data)
  PROVE  /\ RowsUpTo(n) \in Seq(Row) /\ Len(RowsUpTo(n)) \in Nat
<1>1. SubSeq(data, 1, n) \in Seq(Seq(Row))
      BY SubSeqProperties DEF DiskTypes
<1>2. RowsUpTo(n) \in Seq(Row)
      BY <1>1, FlattenType DEF RowsUpTo
<1>3. QED
      BY <1>2

LEMMA TotalType ==
  ASSUME ObjectTypes
  PROVE  Total \in Nat
BY AllType DEF Total, Record

\* Rows behind change nothing before.
LEMMA RowsAtLonger ==
  ASSUME NEW ep, NEW t, NEW length \in Nat, NEW from \in Nat,
         NEW rows \in Seq(Row), NEW more \in Seq(Row), from + length <= Len(rows),
         RowsAt(ep, t, length, from, rows)
  PROVE  RowsAt(ep, t, length, from, rows \o more)
<1>1. /\ \A i \in 1 .. Len(rows) : (rows \o more)[i] = rows[i]
      /\ Len(rows) \in Nat
      BY ConcatProperties
<1>2. ASSUME NEW k \in 0 .. (length - 1) PROVE from + k + 1 \in 1 .. Len(rows)
      BY <1>1
<1>3. QED
      BY <1>1, <1>2 DEF RowsAt

LEMMA ShownLonger ==
  ASSUME ObjectTypes, CountInv, NEW rows \in Seq(Row), NEW more \in Seq(Row),
         Len(rows) = Total, Shown(rows)
  PROVE  Shown(rows \o more)
<1>1. ASSUME NEW i \in 1 .. Len(All)
      PROVE  RowsAt(All[i].ep, All[i].take, All[i].length, All[i].from, rows \o more)
  <2>1. All[i] \in Record
        BY AllType
  <2>2. /\ All[i].length \in Nat /\ All[i].from \in Nat
        /\ All[i].from + All[i].length <= Len(rows)
    <3>1. All[i].length \in Nat /\ All[i].from \in Nat
          BY <2>1 DEF Record
    <3>2. All[i].to = All[i].from + All[i].length /\ All[i].to <= Total
          BY DEF CountInv
    <3>3. QED
          BY <3>1, <3>2
  <2>3. RowsAt(All[i].ep, All[i].take, All[i].length, All[i].from, rows)
        BY DEF Shown
  <2>4. QED
        BY <2>2, <2>3, RowsAtLonger
<1>2. QED
      BY <1>1 DEF Shown

\* No record, row or counter is written.
LEMMA CountSame ==
  ASSUME CountInv, info' = info, All' = All,
         \/ (pc' = "info" <=> pc = "info") /\ (pc = "info" => size' = size)
         \/ pc' # "info" /\ info.episodes \in Nat /\ Len(All) \in Nat
  PROVE  /\ CountInv' /\ Total' = Total /\ (Balanced' => Balanced)
         /\ (pc' = "info" <=> pc = "info") => (Balanced' <=> Balanced)
<1>1. Total' = Total
      BY DEF Total
<1>2. Balanced' => Balanced /\ (pc' = "info" <=> pc = "info")
      BY DEF CountInv, Balanced
<1>3. (pc' = "info" <=> pc = "info") => (Balanced' <=> Balanced)
      BY DEF Balanced
<1>4. CountInv'
  <2>1. Len(All') >= IF pc' = "info" THEN info'.episodes + 1 ELSE info'.episodes
        BY DEF CountInv
  <2>2. Balanced' =>
          Total' = IF pc' = "info" THEN info'.frames + size' ELSE info'.frames
        BY <1>1, <1>2 DEF CountInv
  <2>3. \A i \in 1 .. Len(All') :
          All'[i].to = All'[i].from + All'[i].length /\ All'[i].to <= Total'
        BY <1>1 DEF CountInv
  <2>4. QED
        BY <2>1, <2>2, <2>3 DEF CountInv
<1>5. QED
      BY <1>1, <1>2, <1>3, <1>4

LEMMA RowsSame ==
  ASSUME RowsInv, All' = All, data' = data, Balanced' => Balanced,
         pc' \in Placed =>
           /\ pc \in Placed /\ part'.data = part.data
           /\ size' = size /\ take' = take /\ info' = info
  PROVE  RowsInv'
<1>1. /\ Total' = Total /\ NextNumber("data")' = NextNumber("data")
      /\ \A n : RowsUpTo(n)' = RowsUpTo(n)
      BY DEF Total, NextNumber, RowsUpTo
<1>2. \A rows : Shown(rows)' <=> Shown(rows)
      BY DEF Shown, RowsAt
<1>3. RowsUpTo(NextNumber("data"))' = RowsUpTo(NextNumber("data"))
      BY <1>1 DEF RowsUpTo
<1>4. ASSUME Balanced' PROVE (LET rows == RowsUpTo(NextNumber("data")) IN
                                \/ Len(rows) > Total
                                \/ Len(rows) = Total /\ Shown(rows))'
  <2> DEFINE x == RowsUpTo(NextNumber("data"))
  <2>1. Len(x) > Total \/ (Len(x) = Total /\ Shown(x))
        BY <1>4 DEF RowsInv
  <2>2. x' = x /\ (Shown(x)' <=> Shown(x))
        BY <1>3 DEF Shown, RowsAt
  <2> HIDE DEF x
  <2>3. Len(x') > Total' \/ (Len(x') = Total' /\ Shown(x)')
        BY <1>1, <2>1, <2>2
  <2>4. QED
        BY <2>3 DEF x
<1>5. ASSUME Balanced', pc' \in Placed
      PROVE  (LET rows == RowsUpTo(part.data + 1) IN
                \/ Len(rows) > Total + size
                \/ /\ Len(rows) = Total + size /\ Shown(rows)
                   /\ RowsAt(info.episodes, take, size, Total, rows))'
  <2> DEFINE x == RowsUpTo(part.data + 1)
             h == RowsAt(info.episodes, take, size, Total, x)
  <2>1. Len(x) > Total + size \/ (Len(x) = Total + size /\ Shown(x) /\ h)
        BY <1>5 DEF RowsInv
  <2>2. x' = x
        BY <1>5 DEF RowsUpTo
  <2> HIDE DEF x
  <2>3. (Shown(x)' <=> Shown(x)) /\ (h' <=> h)
        BY <1>1, <1>5, <2>2 DEF Shown, RowsAt
  <2>4. Len(x') > Total' + size' \/ (Len(x') = Total' + size' /\ Shown(x)' /\ h')
        BY <1>1, <1>5, <2>1, <2>2, <2>3
  <2>5. QED
        BY <2>4 DEF x, h
<1>6. QED
      BY <1>4, <1>5 DEF RowsInv

LEMMA ExactSame ==
  ASSUME ExactInv, All' = All, data' = data,
         faults' = 0 => faults = 0 /\ (Balanced' <=> Balanced),
         pc' \in Placed <=> pc \in Placed,
         pc' \in Placed => part'.data = part.data /\ size' = size
  PROVE  ExactInv'
<1>1. /\ Total' = Total /\ NextNumber("data")' = NextNumber("data")
      /\ RowsUpTo(NextNumber("data"))' = RowsUpTo(NextNumber("data"))
      BY DEF Total, NextNumber, RowsUpTo
<1>2. pc' \in Placed => RowsUpTo(part.data + 1)' = RowsUpTo(part.data + 1)
      BY DEF RowsUpTo
<1>3. QED
      BY <1>1, <1>2 DEF ExactInv

\* The rows of an episode are written.
LEMMA RowsWritten ==
  ASSUME TypeOK, FilesInv, CountInv, RowsInv, ExactInv, SaveRows
  PROVE  CountInv' /\ RowsInv' /\ ExactInv'
<1>0. /\ DiskTypes /\ ObjectTypes /\ TakeTypes /\ size \in Nat /\ WriteRows
      /\ data \in Seq(Seq(Row))
      BY Types, EncoderIs DEF SaveRows, DiskTypes
<1>1. PICK n \in Nat, j \in BOOLEAN :
           /\ Fits("data", n) /\ n \in 0 .. Len(data)
           /\ \/ ~j /\ n = NextNumber("data")
              \/ j /\ n + 1 = NextNumber("data") /\ Len(data) = n + 1
           /\ NewRows \in Seq(Row) /\ Len(NewRows) = size
           /\ data' = Store(data, n, j, NewRows)
           /\ part' = [NoRecord EXCEPT !.ep = info.episodes, !.take = take,
                                       !.length = size, !.data = n]
      BY <1>0, RowsStored
<1>2. /\ pc = "save" /\ pc' \in {"finish", "video"} /\ size > 0
      /\ UNCHANGED <<info, loaded, latest, size, take>>
      BY <1>0 DEF WriteRows
<1>3. faults' = faults
      BY <1>0 DEF WriteRows, bounds
<1>4. All' = All /\ Total \in Nat /\ part'.data = n
      BY <1>0, <1>1, <1>2, TotalType DEF All, NoRecord
<1>5. CountInv' /\ Total' = Total /\ (Balanced' <=> Balanced)
      BY <1>2, <1>4, CountSame
<1>6. pc \notin Placed /\ pc' \in Placed
      BY <1>2 DEF Placed
<1> DEFINE N == NextNumber("data")  rows == RowsUpTo(N)  new == NewRows
           more == rows \o new
<1>7. N \in 0 .. Len(data) /\ NextNumber("data")' = N
      BY <1>1, <1>4 DEF NextNumber
<1>8. rows \in Seq(Row) /\ Len(rows) \in Nat
      BY <1>0, <1>7, RowsUpToType
<1>9. RowsUpTo(n + 1)' = more
  <2> DEFINE m == IF j THEN n + 1 ELSE n
  <2>1. m = N /\ (j => n < Len(data))
        BY <1>1
  <2>2. FlattenSeq(SubSeq(Store(data, n, j, new), 1, n + 1))
          = FlattenSeq(SubSeq(data, 1, m)) \o new
    <3>1. data \in Seq(Seq(Row)) /\ n \in 0 .. Len(data) /\ new \in Seq(Row)
          BY <1>0, <1>1
    <3> HIDE DEF new
    <3>2. QED
          BY <2>1, <3>1, StoreFlat
  <2>3. RowsUpTo(n + 1)' = FlattenSeq(SubSeq(data', 1, n + 1))
        BY DEF RowsUpTo
  <2> HIDE DEF m, N
  <2>4. QED
        BY <1>1, <2>1, <2>2, <2>3 DEF RowsUpTo
<1>10. ~j => RowsUpTo(N)' = rows
  <2>1. SUFFICES ASSUME ~j PROVE RowsUpTo(N)' = rows
        OBVIOUS
  <2>2. n = N
        BY <1>1, <2>1
  <2>3. Stored(Store(data, n, j, new), Row, data, n, j, new)
        BY <1>0, <1>1, <2>1, StoreIs
  <2>4. /\ data' \in Seq(Seq(Row)) /\ Len(data') = n + 1
        /\ \A i \in 1 .. n : data'[i] = data[i]
        BY <1>1, <2>1, <2>3 DEF Stored
  <2>5. SubSeq(data', 1, n) = SubSeq(data, 1, n)
    <3> DEFINE a == SubSeq(data', 1, n)  b == SubSeq(data, 1, n)
    <3>1. /\ a \in Seq(Seq(Row)) /\ Len(a) = n
          /\ \A i \in 1 .. n : a[i] = data'[i]
          BY <1>1, <2>4, SubSeqProperties
    <3>2. /\ b \in Seq(Seq(Row)) /\ Len(b) = n
          /\ \A i \in 1 .. n : b[i] = data[i]
          BY <1>0, <1>1, SubSeqProperties
    <3> HIDE DEF a, b
    <3>3. \A i \in 1 .. n : a[i] = b[i]
          BY <2>4, <3>1, <3>2
    <3>4. a = b
          BY <3>1, <3>2, <3>3, SeqEqual
    <3>5. QED
          BY <3>4 DEF a, b
  <2>6. RowsUpTo(N)' = FlattenSeq(SubSeq(data', 1, N'))
        BY DEF RowsUpTo
  <2>7. N' = n
        BY <1>7, <2>2
  <2> HIDE DEF N
  <2>8. QED
        BY <2>2, <2>5, <2>6, <2>7 DEF RowsUpTo
<1>11. j => RowsUpTo(N)' = more
  <2>1. SUFFICES ASSUME j PROVE RowsUpTo(N)' = more
        OBVIOUS
  <2>2. N' = n + 1
        BY <1>1, <1>7, <2>1
  <2> HIDE DEF N
  <2>3. QED
        BY <1>9, <2>2 DEF RowsUpTo
<1>12. RowsUpTo(part.data + 1)' = more
       BY <1>4, <1>9 DEF RowsUpTo
<1>13. /\ new \in Seq(Row) /\ Len(new) = size
       /\ \A i \in 1 .. size :
            new[i] = [ep |-> info.episodes, index |-> info.frames + i - 1,
                      frame |-> [take |-> take, k |-> i - 1]]
       BY <1>1 DEF NewRows
<1> HIDE DEF N, rows, new
<1>14. /\ more \in Seq(Row) /\ Len(more) = Len(rows) + size
       /\ \A i \in 1 .. size : more[Len(rows) + i] = new[i]
  <2>1. /\ more \in Seq(Row) /\ Len(more) = Len(rows) + Len(new)
        /\ \A i \in 1 .. Len(more) :
             more[i] = IF i <= Len(rows) THEN rows[i] ELSE new[i - Len(rows)]
        BY <1>8, <1>13, ConcatProperties
  <2> HIDE DEF more
  <2>2. ASSUME NEW i \in 1 .. size PROVE more[Len(rows) + i] = new[i]
    <3>1. /\ Len(rows) + i \in 1 .. Len(more) /\ ~(Len(rows) + i <= Len(rows))
          /\ (Len(rows) + i) - Len(rows) = i
          BY <1>0, <1>8, <1>13, <2>1
    <3>2. QED
          BY <2>1, <3>1
  <2>3. QED
        BY <1>13, <2>1, <2>2
<1>15. ASSUME Balanced
       PROVE  /\ Len(rows) > Total \/ (Len(rows) = Total /\ Shown(rows))
              /\ Total = info.frames
  <2>1. Len(rows) > Total \/ (Len(rows) = Total /\ Shown(rows))
        BY <1>15 DEF RowsInv, rows, N
  <2>2. Total = info.frames
        BY <1>2, <1>15 DEF CountInv
  <2>3. QED
        BY <2>1, <2>2
<1>16. ASSUME Balanced, Len(rows) = Total, Shown(rows)
       PROVE  Shown(more) /\ RowsAt(info.episodes, take, size, Total, more)
  <2>1. Shown(more)
        BY <1>0, <1>8, <1>13, <1>16, ShownLonger
  <2>2. ASSUME NEW k \in 0 .. (size - 1)
        PROVE  more[Total + k + 1] = [ep |-> info.episodes, index |-> Total + k,
                                      frame |-> [take |-> take, k |-> k]]
    <3>1. /\ k + 1 \in 1 .. size /\ Len(rows) + (k + 1) = Total + k + 1
          /\ info.frames + (k + 1) - 1 = Total + k /\ (k + 1) - 1 = k
          BY <1>0, <1>4, <1>15, <1>16
    <3>2. more[Len(rows) + (k + 1)] = new[k + 1]
          BY <1>14, <3>1
    <3>3. QED
          BY <1>13, <3>1, <3>2
  <2> HIDE DEF more
  <2>3. QED
        BY <2>1, <2>2 DEF RowsAt
<1> HIDE DEF more
<1>17. ASSUME NEW x, x = rows \/ x = more PROVE Shown(x)' <=> Shown(x)
       BY <1>4, <1>7, <1>8, <1>14 DEF Shown, RowsAt
<1> DEFINE y == RowsUpTo(NextNumber("data"))
<1>18. y' = IF j THEN more ELSE rows
       BY <1>10, <1>11 DEF N
<1>19. ASSUME Balanced'
       PROVE  Len(y') > Total' \/ (Len(y') = Total' /\ Shown(y)')
  <2>1. CASE j
        BY <1>0, <1>2, <1>4, <1>5, <1>8, <1>14, <1>15, <1>18, <1>19, <2>1
  <2>2. CASE ~j
    <3>1. y' = rows
          BY <1>18, <2>2
    <3>2. Shown(rows) => Shown(y)'
          BY <1>4, <3>1 DEF Shown, RowsAt
    <3>3. QED
          BY <1>5, <1>15, <1>19, <3>1, <3>2
  <2>3. QED
        BY <2>1, <2>2
<1> DEFINE z == RowsUpTo(part.data + 1)
           h == RowsAt(info.episodes, take, size, Total, z)
<1>20. ASSUME Balanced'
       PROVE  \/ Len(z') > Total' + size'
              \/ Len(z') = Total' + size' /\ Shown(z)' /\ h'
  <2>1. z' = more
        BY <1>12
  <2>2. Shown(more) => Shown(z)'
        BY <1>4, <2>1 DEF Shown, RowsAt
  <2>3. RowsAt(info.episodes, take, size, Total, more) => h'
        BY <1>2, <1>5, <2>1 DEF RowsAt
  <2> HIDE DEF z, h
  <2>4. Len(z') = Len(rows) + size /\ size' = size /\ Total' = Total
        BY <1>2, <1>5, <1>14, <2>1
  <2>5. Len(rows) > Total => Len(z') > Total' + size'
        BY <1>0, <1>4, <1>8, <2>4
  <2>6. Len(rows) = Total /\ Shown(rows) =>
          Len(z') = Total' + size' /\ Shown(z)' /\ h'
        BY <1>5, <1>16, <1>20, <2>2, <2>3, <2>4
  <2>7. QED
        BY <1>5, <1>15, <1>20, <2>5, <2>6
<1>21. RowsInv'
       BY <1>19, <1>20 DEF RowsInv
<1>22. ExactInv'
  <2>1. SUFFICES ASSUME faults' = 0
                 PROVE  Balanced' /\ Len(z') = Total' + size'
        BY <1>6 DEF ExactInv
  <2>2. Balanced /\ Len(rows) = Total
        BY <1>3, <1>6, <2>1 DEF ExactInv, rows, N
  <2>3. z' = more
        BY <1>12
  <2> HIDE DEF z
  <2>4. QED
        BY <1>2, <1>5, <1>14, <2>2, <2>3
<1>23. QED
       BY <1>5, <1>21, <1>22

\* The record of the episode is saved.
LEMMA RowsSaved ==
  ASSUME TypeOK, FilesInv, PartIs, CountInv, RowsInv, ExactInv, SaveMetadata
  PROVE  CountInv' /\ RowsInv' /\ ExactInv'
<1>0. DiskTypes /\ ObjectTypes /\ TakeTypes /\ size \in Nat
      BY Types, EncoderIs
<1>1. PICK r \in Record :
           /\ loaded' = loaded /\ latest' = Append(latest, r)
           /\ r.data = part.data
           /\ r.length = part.length /\ r.ep = part.ep /\ r.take = part.take
           /\ r.from = Total /\ r.to = Total + part.length
      BY <1>0, SavedIs
<1>2. /\ pc = "meta" /\ pc' = "info" /\ UNCHANGED <<info, data, size, take, faults>>
      BY DEF SaveMetadata, bounds
<1>3. /\ part.length = size /\ part.take = take /\ part.ep = info.episodes
      /\ part.data + 1 = Len(data)
      BY <1>2 DEF PartIs, Placed, FilesInv, PartInv
<1>4. Total \in Nat /\ info.episodes \in Nat /\ info.frames \in Nat
      BY <1>0, TotalType DEF DiskTypes
<1>5. /\ All' = Append(All, r) /\ All' # <<>> /\ Last(All') = r
      /\ All \in Seq(Record) /\ NextNumber("data")' = r["data"] + 1
      BY <1>0, <1>1, Grow, AllType DEF Kind
<1>6. NextNumber("data")' = part.data + 1 /\ Total' = Total + size
      BY <1>1, <1>3, <1>5, RecordKinds DEF Total
<1>7. /\ Len(All') = Len(All) + 1 /\ All'[Len(All) + 1] = r /\ Len(All) \in Nat
      /\ \A i \in 1 .. Len(All) : All'[i] = All[i]
      BY <1>5, AppendProperties
<1>8. /\ Balanced <=> Len(All) = info.episodes
      /\ Balanced' <=> Balanced
      BY <1>2, <1>4, <1>7 DEF Balanced
<1>9. CountInv'
  <2>1. Len(All') >= info'.episodes + 1
        BY <1>2, <1>4, <1>7 DEF CountInv
  <2>2. Balanced' => Total' = info'.frames + size'
        BY <1>2, <1>6, <1>8 DEF CountInv
  <2>3. ASSUME NEW i \in 1 .. Len(All')
        PROVE  All'[i].to = All'[i].from + All'[i].length /\ All'[i].to <= Total'
    <3>1. CASE i = Len(All) + 1
          BY <1>0, <1>1, <1>3, <1>4, <1>6, <1>7, <3>1
    <3>2. CASE i # Len(All) + 1
      <4>1. i \in 1 .. Len(All) /\ All[i] \in Record
            BY <1>5, <1>7, <3>2
      <4>2. All[i].to = All[i].from + All[i].length /\ All[i].to <= Total
            BY <4>1 DEF CountInv
      <4>3. All[i].to \in Nat
            BY <4>1 DEF Record
      <4>4. QED
            BY <1>0, <1>4, <1>6, <1>7, <4>1, <4>2, <4>3
    <3>3. QED
          BY <3>1, <3>2
  <2>4. QED
        BY <1>2, <2>1, <2>2, <2>3 DEF CountInv
<1> DEFINE x == RowsUpTo(part.data + 1)
           y == RowsUpTo(NextNumber("data"))
<1>10. y' = x
       BY <1>2, <1>6 DEF RowsUpTo
<1>11. ASSUME Shown(x), RowsAt(info.episodes, take, size, Total, x)
       PROVE  Shown(y)'
  <2>1. ASSUME NEW i \in 1 .. Len(All')
        PROVE  RowsAt(All'[i].ep, All'[i].take, All'[i].length, All'[i].from, x)
    <3>1. CASE i = Len(All) + 1
          BY <1>1, <1>3, <1>7, <1>11, <3>1
    <3>2. CASE i # Len(All) + 1
      <4>1. i \in 1 .. Len(All)
            BY <1>7, <3>2
      <4>2. QED
            BY <1>7, <1>11, <4>1 DEF Shown
    <3>3. QED
          BY <3>1, <3>2
  <2> HIDE DEF x
  <2>2. \A i \in 1 .. Len(All') :
          RowsAt(All'[i].ep, All'[i].take, All'[i].length, All'[i].from, y')
        BY <1>10, <2>1
  <2> HIDE DEF y
  <2>3. QED
        BY <2>2 DEF Shown, RowsAt
<1>12. RowsInv'
  <2>1. pc' \notin Placed
        BY <1>2 DEF Placed
  <2>2. ASSUME Balanced' PROVE Len(y') > Total' \/ (Len(y') = Total' /\ Shown(y)')
    <3>1. \/ Len(x) > Total + size
          \/ /\ Len(x) = Total + size /\ Shown(x)
             /\ RowsAt(info.episodes, take, size, Total, x)
          BY <1>2, <1>8, <2>2 DEF RowsInv, Placed
    <3> HIDE DEF x, y
    <3>2. QED
          BY <1>6, <1>10, <1>11, <3>1
  <2>3. QED
        BY <2>1, <2>2 DEF RowsInv
<1>13. ExactInv'
  <2>1. SUFFICES ASSUME faults' = 0
                 PROVE  /\ Balanced' /\ Len(data') = NextNumber("data")'
                        /\ Len(y') = Total'
        BY <1>2 DEF ExactInv, Placed
  <2>2. Balanced /\ Len(x) = Total + size
        BY <1>2, <2>1 DEF ExactInv, Placed
  <2> HIDE DEF x, y
  <2>3. QED
        BY <1>2, <1>3, <1>6, <1>8, <1>10, <2>2
<1>14. QED
       BY <1>9, <1>12, <1>13

\* It is counted.
LEMMA RowsCounted ==
  ASSUME TypeOK, FilesInv, CountInv, RowsInv, ExactInv, SaveInfo
  PROVE  CountInv' /\ RowsInv' /\ ExactInv'
<1>0. DiskTypes /\ ObjectTypes /\ size \in Nat
      BY Types, EncoderIs
<1>1. /\ pc = "info" /\ pc' = "after"
      /\ info' = [episodes |-> info.episodes + 1, frames |-> info.frames + size]
      /\ UNCHANGED <<loaded, latest, data, size, take, faults>>
      BY DEF SaveInfo, object, bounds
<1>2. /\ All' = All /\ info'.episodes = info.episodes + 1
      /\ info'.frames = info.frames + size
      BY <1>1 DEF All
<1>3. Total' = Total /\ (Balanced' <=> Balanced)
      BY <1>1, <1>2 DEF Total, Balanced
<1>4. CountInv'
      BY <1>1, <1>2, <1>3 DEF CountInv
<1>5. pc \notin Placed /\ pc' \notin Placed
      BY <1>1 DEF Placed
<1>6. QED
      BY <1>1, <1>2, <1>3, <1>4, <1>5, RowsSame, ExactSame

\* The steps that write no row, record or counter.
LEMMA RowsQuiet ==
  ASSUME TypeOK, FilesInv, CountInv, RowsInv, ExactInv,
         \/ Press \/ WriteImage \/ TakeFrame \/ EncodeFrame \/ EncoderFails \/ UNCHANGED vars
         \/ BeginEpisode \/ AddFrame \/ LeaveLoop \/ Rerecord \/ Keep
         \/ EncodeImages \/ FinishAlive \/ PlaceVideo \/ NewBuffer \/ Resume
  PROVE  CountInv' /\ RowsInv' /\ ExactInv'
<1>0. DiskTypes /\ ObjectTypes /\ TakeTypes /\ LoopTypes
      BY Types
<1>1. CASE \/ Press \/ WriteImage \/ TakeFrame \/ EncodeFrame \/ EncoderFails
           \/ UNCHANGED vars
  <2>1. UNCHANGED <<info, loaded, latest, data, size, take, part, pc>>
        BY <1>1 DEF Press, WriteImage, TakeFrame, EncodeFrame, EncoderFails, vars, disk,
                    object
  <2>2. faults' = 0 => faults = 0
    <3>1. faults \in Nat
          BY <1>0, Bounds DEF LoopTypes
    <3>2. faults' = faults \/ faults' = faults + 1
          BY <1>1 DEF Press, WriteImage, TakeFrame, EncodeFrame, EncoderFails, vars,
                      bounds
    <3>3. QED
          BY <3>1, <3>2
  <2>3. All' = All
        BY <2>1 DEF All
  <2>4. CountInv' /\ (Balanced' <=> Balanced)
        BY <2>1, <2>3, CountSame
  <2>5. QED
        BY <2>1, <2>2, <2>3, <2>4, RowsSame, ExactSame
<1>2. CASE BeginEpisode \/ AddFrame \/ LeaveLoop \/ Rerecord \/ Keep \/ NewBuffer \/ Resume
  <2>1. /\ UNCHANGED <<info, data, faults>>
        /\ pc \in Looping \cup {"after", "over"} /\ pc' \in Looping \cup {"save"}
    <3>1. CASE BeginEpisode \/ AddFrame \/ LeaveLoop \/ Keep
          BY <3>1 DEF BeginEpisode, AddFrame, LeaveLoop, Keep, Looping, disk, bounds
    <3>2. CASE Rerecord \/ NewBuffer \/ Resume
          BY <3>2 DEF Rerecord, NewBuffer, Resume, Looping, disk, bounds
    <3>3. QED
          BY <1>2, <3>1, <3>2
  <2>2. All' = All
    <3>1. CASE Resume
          BY <1>0, <3>1, ResumeFiles
    <3>2. CASE ~Resume
      <4>1. UNCHANGED <<loaded, latest>>
            BY <1>2, <3>2 DEF BeginEpisode, AddFrame, LeaveLoop, Keep, Rerecord, NewBuffer,
                              object
      <4>2. QED
            BY <4>1 DEF All
    <3>3. QED
          BY <3>1, <3>2
  <2>3. pc \notin Placed /\ pc' \notin Placed /\ pc # "info" /\ pc' # "info"
        BY <2>1 DEF Looping, Placed
  <2>4. CountInv' /\ (Balanced' <=> Balanced)
        BY <2>1, <2>2, <2>3, CountSame
  <2>5. QED
        BY <2>1, <2>2, <2>3, <2>4, RowsSame, ExactSame
<1>3. CASE EncodeImages \/ FinishAlive \/ PlaceVideo
  <2>1. /\ UNCHANGED <<info, data, loaded, latest, size, take, faults>>
        /\ pc \in Placed /\ pc' \in Placed
        BY <1>3 DEF EncodeImages, FinishAlive, PlaceVideo, Placed, disk, object, bounds
  <2>2. part'.data = part.data
    <3>1. CASE PlaceVideo
      <4>1. PICK n \in FileAfter("video"), v \in {0, Last(latest).vto} :
              part' = [part EXCEPT !.video = n, !.vfrom = v,
                                   !.vto = v + Len(encoder.out)]
            BY <3>1 DEF PlaceVideo
      <4>2. part \in Record
            BY <1>0 DEF TakeTypes
      <4>3. QED
            BY <4>1, <4>2 DEF Record
    <3>2. CASE EncodeImages \/ FinishAlive
          BY <3>2 DEF EncodeImages, FinishAlive
    <3>3. QED
          BY <1>3, <3>1, <3>2
  <2>3. All' = All
        BY <2>1 DEF All
  <2>4. pc # "info" /\ pc' # "info"
        BY <2>1 DEF Placed
  <2>5. CountInv' /\ (Balanced' <=> Balanced)
        BY <2>1, <2>3, <2>4, CountSame
  <2>6. QED
        BY <2>1, <2>2, <2>3, <2>5, RowsSame, ExactSame
<1>4. QED
      BY <1>1, <1>2, <1>3

\* The session ends.  Where no fault ends it, no save is under way.
LEMMA RowsEnding ==
  ASSUME TypeOK, StreamInv, CountInv, RowsInv, ExactInv, Ending
  PROVE  CountInv' /\ RowsInv' /\ ExactInv'
<1>0. ObjectTypes /\ info.episodes \in Nat /\ faults \in Nat
      BY Types, Bounds DEF DiskTypes, LoopTypes
<1>1. /\ pc' = "over" /\ UNCHANGED <<info, data, loaded, latest>>
      BY EndingIs
<1>2. All' = All /\ Len(All) \in Nat
      BY <1>0, <1>1, AllType DEF All
<1>3. CountInv' /\ (Balanced' => Balanced)
  <2>1. pc' # "info"
        BY <1>1
  <2>2. QED
        BY <1>0, <1>1, <1>2, <2>1, CountSame
<1>4. pc' \notin Placed
      BY <1>1 DEF Placed
<1>5. RowsInv'
      BY <1>1, <1>2, <1>3, <1>4, RowsSame
<1>6. ASSUME faults' = 0 PROVE ExactInv'
  <2>1. faults = 0 /\ ~Interrupted
    <3>1. Interrupted => faults' = faults + 1
          BY DEF Interrupted
    <3>2. ~Interrupted => faults' = faults
          BY DEF Ending, EndSession, AddFrameFails, RefuseEmpty, MissesImage, Raise
    <3>3. QED
          BY <1>0, <1>6, <3>1, <3>2
  <2>2. pc \in {"head", "record", "save"}
        BY <2>1 DEF Ending, EndSession, AddFrameFails, RefuseEmpty, MissesImage, StreamInv
  <2>3. pc \notin Placed /\ pc # "info" /\ pc' # "info"
        BY <1>1, <2>2 DEF Placed
  <2>4. Balanced' <=> Balanced
        BY <1>1, <1>2, <2>3, CountSame
  <2>5. QED
        BY <1>1, <1>2, <1>4, <2>1, <2>3, <2>4, ExactSame
<1>7. ASSUME faults' # 0 PROVE ExactInv'
      BY <1>7 DEF ExactInv
<1>8. QED
      BY <1>3, <1>5, <1>6, <1>7

LEMMA RowsStep ==
  ASSUME TypeOK, FilesInv, StreamInv, PartIs, CountInv, RowsInv, ExactInv, [Next]_vars
  PROVE  CountInv' /\ RowsInv' /\ ExactInv'
BY StepIs, RowsWritten, RowsSaved, RowsCounted, RowsQuiet, RowsEnding

-----------------------------------------------------------------------------
(***************************************************************************)
(* Together.                                                               *)
(***************************************************************************)
LEMMA ReadInit ==
  ASSUME Init
  PROVE  ReadInv
<1>1. /\ data = <<>> /\ loaded = <<>> /\ latest = <<>> /\ pc = "head"
      /\ images = {} /\ unwritten = {} /\ discarded = {} /\ lost = {} /\ size = 0
      /\ encoder = Off /\ faults = 0 /\ info = [episodes |-> 0, frames |-> 0]
      BY DEF Init
<1>2. All = <<>> /\ Len(All) = 0 /\ NextNumber("data") = 0 /\ Total = 0
  <2>1. <<>> \o <<>> = <<>>
        OBVIOUS
  <2>2. All = <<>>
        BY <1>1, <2>1 DEF All
  <2>3. QED
        BY <2>2 DEF NextNumber, Total
<1>3. info.episodes = 0 /\ info.frames = 0
      BY <1>1
<1>4. ImagesInv
      BY <1>1 DEF ImagesInv, Own, Current
<1>5. StreamInv
  <2>1. pc \notin Feeding /\ pc \notin {"file", "video", "finish"}
        BY <1>1 DEF Feeding
  <2>2. encoder.st = "off"
        BY <1>1, OffType
  <2>3. QED
        BY <1>1, <2>1, <2>2 DEF StreamInv
<1>6. PartIs /\ OutInv
      BY <1>1 DEF PartIs, OutInv, Placed
<1>7. VideoInv /\ BlockInv
      BY <1>1, <1>2 DEF VideoInv, BlockInv, Placed
<1>8. CountInv
      BY <1>1, <1>2, <1>3 DEF CountInv
<1>9. RowsUpTo(0) = <<>> /\ Len(RowsUpTo(0)) = 0
  <2>1. SubSeq(<<>>, 1, 0) = <<>>
        OBVIOUS
  <2>2. QED
    <3>1. RowsUpTo(0) = FlattenSeq(SubSeq(<<>>, 1, 0))
          BY <1>1, Zenon DEF RowsUpTo
    <3>2. RowsUpTo(0) = <<>>
          BY <2>1, <3>1, FlattenEmpty, Zenon
    <3>3. Len(<<>>) = 0
          OBVIOUS
    <3>4. QED
          BY <3>2, <3>3, Zenon
<1>10. Balanced
       BY <1>1, <1>2, <1>3 DEF Balanced
<1>11. \A rows : Shown(rows)
       BY <1>2 DEF Shown
<1>12. RowsInv
       BY <1>1, <1>2, <1>9, <1>11 DEF RowsInv, Placed
<1>13. ExactInv
       BY <1>1, <1>2, <1>9, <1>10 DEF ExactInv, Placed
<1>14. QED
       BY <1>4, <1>5, <1>6, <1>7, <1>8, <1>12, <1>13 DEF ReadInv

LEMMA ReadStep ==
  ASSUME TypeOK, FilesInv, ReadInv, [Next]_vars
  PROVE  ReadInv'
<1>1. /\ ImagesInv /\ StreamInv /\ PartIs /\ OutInv
      /\ VideoInv /\ BlockInv /\ CountInv /\ RowsInv /\ ExactInv
      BY DEF ReadInv
<1>2. ImagesInv' /\ StreamInv' /\ PartIs'
      BY <1>1, ImagesStep, StreamStep, PartStep
<1>3. OutInv' /\ VideoInv' /\ BlockInv'
      BY <1>1, OutStep, VideoStep, BlockStep
<1>4. CountInv' /\ RowsInv' /\ ExactInv'
      BY <1>1, RowsStep
<1>5. QED
      BY <1>2, <1>3, <1>4 DEF ReadInv

LEMMA ReadAlways == Spec => [](TypeOK /\ FilesInv /\ ReadInv)
<1>1. TypeOK /\ FilesInv /\ ReadInv /\ [Next]_vars => ReadInv'
      BY ReadStep
<1>2. Init => ReadInv
      BY ReadInit
<1>3. QED
      BY <1>1, <1>2, FilesAlways, PTL DEF Spec

\* A record on disk is one of the log.
LEMMA RecordsAre ==
  ASSUME DiskTypes, ObjectTypes, FilesInv, NEW r \in ToSet(Records)
  PROVE  \E i \in 1 .. Len(All) : r = All[i]
<1>1. Records \in Seq(Record) /\ buffered \in Seq(Record) /\ Records \o buffered = All
      BY FlattenType DEF DiskTypes, ObjectTypes, FilesInv, LogInv, Records
<1>2. PICK i \in 1 .. Len(Records) : r = Records[i]
      BY DEF ToSet
<1>3. /\ Len(Records \o buffered) = Len(Records) + Len(buffered)
      /\ \A k \in 1 .. Len(Records) : (Records \o buffered)[k] = Records[k]
      /\ Len(Records) \in Nat /\ Len(buffered) \in Nat
      BY <1>1, ConcatProperties
<1> HIDE DEF Records
<1>4. i \in 1 .. Len(All) /\ r = All[i]
      BY <1>1, <1>2, <1>3
<1>5. QED
      BY <1>4

\* The rows on disk are those up to the last file with a record, and more.
LEMMA RowsAre ==
  ASSUME DiskTypes, ObjectTypes, FilesInv
  PROVE  /\ RowsUpTo(NextNumber("data")) \in Seq(Row)
         /\ \E more \in Seq(Row) : Rows = RowsUpTo(NextNumber("data")) \o more
         /\ RowsUpTo(Len(data)) = Rows
<1> DEFINE n == NextNumber("data")
           a == SubSeq(data, 1, n)  b == SubSeq(data, n + 1, Len(data))
<1>1. data \in Seq(Seq(Row)) /\ n \in 0 .. Len(data) /\ Len(data) \in Nat
      BY NextType DEF DiskTypes, FilesInv, LogInv, Kind
<1> HIDE DEF n
<1>2. /\ a \in Seq(Seq(Row)) /\ b \in Seq(Seq(Row)) /\ data = a \o b
  <2>1. a \in Seq(Seq(Row)) /\ b \in Seq(Seq(Row)) /\ a \o b = data
        BY <1>1, SplitSeq
  <2>2. QED
        BY <2>1
<1>3. FlattenSeq(a) \in Seq(Row) /\ FlattenSeq(b) \in Seq(Row)
      BY <1>2, FlattenType
<1>4. FlattenSeq(a \o b) = FlattenSeq(a) \o FlattenSeq(b)
  <2> HIDE DEF a, b
  <2>1. QED
        BY <1>2, FlattenConcat
<1>5. RowsUpTo(n) = FlattenSeq(a)
      BY DEF RowsUpTo
<1>6. Rows = RowsUpTo(n) \o FlattenSeq(b)
  <2> HIDE DEF a, b
  <2>1. QED
        BY <1>2, <1>4, <1>5 DEF Rows
<1>7. RowsUpTo(Len(data)) = Rows
      BY <1>1, SubSeqFull DEF RowsUpTo, Rows
<1> HIDE DEF a, b
<1>8. QED
      BY <1>3, <1>5, <1>6, <1>7 DEF n

\* When the counters agree with what is on disk, the rows are those of the records.
LEMMA CountsShow ==
  ASSUME DiskTypes, ObjectTypes, FilesInv, CountInv, RowsInv, pc = "over", CountsAgree
  PROVE  Shown(Rows)
<1> DEFINE rows == RowsUpTo(NextNumber("data"))
<1>1. PICK more \in Seq(Row) : Rows = rows \o more
      BY RowsAre
<1>2. rows \in Seq(Row)
      BY RowsAre
<1>3. Records = All
  <2>1. Records \in Seq(Record)
        BY FlattenType DEF DiskTypes, Records
  <2>2. Records \o buffered = All /\ buffered = <<>>
        BY DEF FilesInv, LogInv, MetaInv, Records
  <2> HIDE DEF Records
  <2>3. QED
        BY <2>1, <2>2, ConcatEmptySeq
<1>4. Balanced
      BY <1>3 DEF CountsAgree, Balanced
<1>5. Total = info.frames /\ Total \in Nat
      BY <1>4, TotalType DEF CountInv
<1>6. Len(rows) > Total \/ (Len(rows) = Total /\ Shown(rows))
      BY <1>4 DEF RowsInv
<1> HIDE DEF rows
<1>7. Len(rows) + Len(more) = Total /\ Len(rows) \in Nat /\ Len(more) \in Nat
  <2>1. Len(rows \o more) = Len(rows) + Len(more)
        BY <1>2, ConcatProperties
  <2>2. QED
        BY <1>1, <1>2, <1>5, <2>1 DEF CountsAgree
<1>8. Len(rows) = Total /\ Shown(rows)
      BY <1>5, <1>6, <1>7
<1>9. Shown(rows \o more)
      BY <1>2, <1>8, ShownLonger
<1>10. QED
       BY <1>1, <1>9

\* Without a fault they do.
LEMMA CountsExact ==
  ASSUME DiskTypes, ObjectTypes, FilesInv, CountInv, ExactInv, pc = "over", faults = 0
  PROVE  CountsAgree
<1>1. /\ Balanced /\ Len(data) = NextNumber("data")
      /\ Len(RowsUpTo(NextNumber("data"))) = Total
      BY DEF ExactInv, Placed
<1>2. Len(Rows) = Total
      BY <1>1, RowsAre
<1>3. Total = info.frames /\ Len(All) = info.episodes
      BY <1>1 DEF CountInv, Balanced
<1>4. Records = All
  <2>1. Records \in Seq(Record)
        BY FlattenType DEF DiskTypes, Records
  <2>2. Records \o buffered = All /\ buffered = <<>>
        BY DEF FilesInv, LogInv, MetaInv, Records
  <2> HIDE DEF Records
  <2>3. QED
        BY <2>1, <2>2, ConcatEmptySeq
<1>5. QED
      BY <1>2, <1>3, <1>4 DEF CountsAgree

\* Numbers that rise, rise by one at least.
LEMMA Gaps ==
  ASSUME NEW n \in Nat, NEW q \in [1 .. n -> Nat],
         \A i, j \in 1 .. n : i < j => q[i] < q[j],
         NEW i \in 1 .. n, NEW j \in i .. n
  PROVE  q[i] + (j - i) <= q[j]
<1> DEFINE T == {m \in Nat : m \in i .. n /\ ~(q[i] + (m - i) <= q[m])}
<1> SUFFICES ASSUME T # {} PROVE FALSE
    BY j \in Nat
<1>1. PICK m \in T : \A k \in T : m <= k
      <2> HIDE DEF T
      <2>1. T \in SUBSET Nat BY DEF T
      <2>2. QED BY <2>1, LeastElement
<1>2. m \in i .. n /\ m \in Nat /\ ~(q[i] + (m - i) <= q[m])
      OBVIOUS
<1>3. m # i
      BY <1>2
<1>4. m - 1 \in i .. n /\ m - 1 \in Nat /\ m - 1 \in 1 .. n /\ m \in 1 .. n
      BY <1>2, <1>3
<1>5. m - 1 \notin T
      BY <1>1, <1>4
<1>6. q[i] + ((m - 1) - i) <= q[m - 1]
      BY <1>4, <1>5
<1>7. q[m - 1] < q[m] /\ q[m - 1] \in Nat /\ q[m] \in Nat /\ q[i] \in Nat
      BY <1>4
<1>8. QED
      BY <1>2, <1>4, <1>6, <1>7

\* There are no more than there are numbers.
LEMMA AscendingFits ==
  ASSUME NEW s \in Seq(Frame), Ascending(s), NEW m \in Nat,
         \A i \in 1 .. Len(s) : s[i].k < m
  PROVE  Len(s) <= m
<1> DEFINE n == Len(s)  q == [i \in 1 .. n |-> s[i].k]
<1>0. n \in Nat
      OBVIOUS
<1>1. ASSUME NEW i \in 1 .. n PROVE s[i].k \in Nat
      <2>1. s[i] \in Frame
            OBVIOUS
      <2>2. QED
            BY <2>1, Bounds DEF Frame
<1>2. /\ q \in [1 .. n -> Nat] /\ \A i \in 1 .. n : q[i] = s[i].k
      /\ \A i, j \in 1 .. n : i < j => q[i] < q[j]
      BY <1>1 DEF Ascending
<1> HIDE DEF q, n
<1>3. ASSUME NEW i \in 1 .. n, NEW j \in i .. n PROVE q[i] + (j - i) <= q[j]
      BY <1>0, <1>2, Gaps
<1>4. \A i \in 1 .. n : q[i] < m /\ q[i] \in Nat
      BY <1>2 DEF n
<1>5. ASSUME n # 0 PROVE n <= m
  <2>1. 1 \in 1 .. n /\ n \in 1 .. n
        BY <1>0, <1>5
  <2>2. q[1] + (n - 1) <= q[n]
        BY <1>3, <2>1
  <2>3. QED
        BY <1>0, <1>4, <2>1, <2>2
<1>6. QED
      BY <1>0, <1>5 DEF n

\* The clip of a record lies in its file at its place.
LEMMA ClipAt ==
  ASSUME NEW r \in Record, NEW file \in Seq(Frame), Clip(r, file)
  PROVE  LET s == SubSeq(file, r.vfrom + 1, r.vto) IN
         /\ s \in Seq(Frame) /\ Len(s) = r.vto - r.vfrom /\ Len(s) \in Nat
         /\ \A i \in (r.vfrom + 1) .. r.vto :
              i - r.vfrom \in 1 .. Len(s) /\ file[i] = s[i - r.vfrom]
         /\ \A j \in 1 .. Len(s) :
              r.vfrom + j \in (r.vfrom + 1) .. r.vto /\ s[j] = file[r.vfrom + j]
<1> DEFINE a == r.vfrom  b == r.vto  s == SubSeq(file, a + 1, b)
<1>1. a \in Nat /\ b \in Nat /\ a <= b /\ b <= Len(file) /\ Len(file) \in Nat
      BY DEF Record, Clip
<1> HIDE DEF a, b
<1>2. ASSUME NEW i \in (a + 1) .. b PROVE i \in 1 .. Len(file)
      BY <1>1
<1>3. s \in Seq(Frame) /\ Len(s) = b - a /\ \A j \in 1 .. (b - a) : s[j] = file[a + j]
      BY <1>1, <1>2
<1> HIDE DEF s
<1>4. ASSUME NEW i \in (a + 1) .. b
      PROVE  i - a \in 1 .. Len(s) /\ file[i] = s[i - a]
  <2>1. i - a \in 1 .. (b - a) /\ a + (i - a) = i
        BY <1>1
  <2>2. QED
        BY <1>3, <2>1
<1>5. ASSUME NEW j \in 1 .. Len(s)
      PROVE  a + j \in (a + 1) .. b /\ s[j] = file[a + j]
      BY <1>1, <1>3
<1>6. /\ s \in Seq(Frame) /\ Len(s) = b - a /\ Len(s) \in Nat
      /\ \A i \in (a + 1) .. b : i - a \in 1 .. Len(s) /\ file[i] = s[i - a]
      /\ \A j \in 1 .. Len(s) : a + j \in (a + 1) .. b /\ s[j] = file[a + j]
  <2>1. Len(s) \in Nat
        BY <1>3
  <2>2. QED
        BY <1>3, <1>4, <1>5, <2>1
<1>7. QED
      BY <1>6, Zenon DEF s, a, b

LEMMA ClipShows ==
  ASSUME NEW r \in Record, videos[r.video + 1] \in Seq(Frame),
         Clip(r, videos[r.video + 1])
  PROVE  Shows(r)
<1> DEFINE file == videos[r.video + 1]  s == SubSeq(file, r.vfrom + 1, r.vto)
<1>0. file \in Seq(Frame) /\ Clip(r, file) /\ Content(s, r.ep, r.take, r.length)
      BY DEF Clip
<1>1. /\ \A i \in (r.vfrom + 1) .. r.vto :
           i - r.vfrom \in 1 .. Len(s) /\ file[i] = s[i - r.vfrom]
      /\ \A j \in 1 .. Len(s) :
           r.vfrom + j \in (r.vfrom + 1) .. r.vto /\ s[j] = file[r.vfrom + j]
  <2> HIDE DEF file
  <2>1. QED
        BY <1>0, ClipAt
<1>2. r.vfrom \in Nat /\ r.vto \in Nat
      BY DEF Record
<1> DEFINE clip == (r.vfrom + 1) .. r.vto
<1>3. r.vto <= Len(file)
      BY <1>0 DEF Clip
<1> HIDE DEF file, s
<1>4. ASSUME NEW i \in clip, NEW j \in clip, i < j PROVE file[i].k < file[j].k
  <2>1. i - r.vfrom < j - r.vfrom
        BY <1>2, <1>4
  <2>2. QED
        BY <1>0, <1>1, <2>1 DEF Content, Ascending
<1>5. ASSUME NEW i \in clip
      PROVE  \/ file[i].take = r.take /\ file[i].k < r.length
             \/ file[i].take < r.take /\ <<r.ep, file[i].take>> \in discarded
      BY <1>0, <1>1 DEF Content
<1>6. ASSUME NEW k \in 0 .. (r.length - 1)
      PROVE  [take |-> r.take, k |-> k] \in lost
               \/ \E i \in clip : file[i] = [take |-> r.take, k |-> k]
  <2>1. \/ [take |-> r.take, k |-> k] \in lost
        \/ \E j \in 1 .. Len(s) : s[j] = [take |-> r.take, k |-> k]
        BY <1>0 DEF Content, Covers
  <2>2. QED
        BY <1>1, <2>1
<1>7. QED
      BY <1>3, <1>4, <1>5, <1>6 DEF Shows, file

\* The file of a record's video is one of the files.
LEMMA FileIs ==
  ASSUME DiskTypes, ObjectTypes, FilesInv, NEW i \in 1 .. Len(All)
  PROVE  All[i] \in Record /\ videos[All[i].video + 1] \in Seq(Frame)
<1> DEFINE r == All[i]  n == Last(All)["video"]
<1>1. r \in Record /\ r.video \in Nat /\ r["video"] = r.video /\ All # <<>>
  <2>1. All \in Seq(Record)
        BY AllType
  <2>2. r \in Record /\ All # <<>>
        BY <2>1
  <2> HIDE DEF r
  <2>3. QED
        BY <2>2, RecordKinds DEF Record
<1>2. r["video"] <= n /\ n \in Nat
  <2>1. r["video"] <= n
        BY <1>1 DEF FilesInv, LogInv, Kind
  <2>2. n \in Nat
        BY <1>1, AllType, RecordKinds DEF Kind
  <2>3. QED
        BY <2>1, <2>2
<1>3. n + 1 <= Len(videos)
      BY <1>1 DEF FilesInv, LogInv, NextNumber
<1>4. videos \in Seq(Seq(Frame)) /\ Len(videos) \in Nat
      BY DEF DiskTypes
<1> HIDE DEF r, n
<1>5. r.video + 1 \in 1 .. Len(videos)
      BY <1>1, <1>2, <1>3, <1>4
<1>6. r \in Record /\ videos[r.video + 1] \in Seq(Frame)
      BY <1>1, <1>4, <1>5
<1>7. QED
      BY <1>6 DEF r

\* A video that is longer than its episode shows a picture with a higher number
\* than the episode has, which an earlier take, discarded, left under the
\* episode's number: what an interrupted take leaves, or one that was saved, is no
\* episode's later.
THEOREM LongerIsDiscarded == Spec => []LongerOnlyAfterDiscard
<1>1. ASSUME TypeOK, FilesInv, ReadInv PROVE LongerOnlyAfterDiscard
  <2>1. DiskTypes /\ ObjectTypes
        BY <1>1, Types
  <2>2. ASSUME NEW r \in ToSet(Records), r.vto - r.vfrom > r.length
        PROVE  \E t \in 1 .. (r.take - 1) : <<r.ep, t>> \in discarded
    <3>1. PICK i \in 1 .. Len(All) : r = All[i]
          BY <1>1, <2>1, RecordsAre
    <3> DEFINE file == videos[r.video + 1]  s == SubSeq(file, r.vfrom + 1, r.vto)
    <3>2. Clip(r, file)
          BY <1>1, <3>1 DEF ReadInv, VideoInv
    <3>3. r \in Record /\ file \in Seq(Frame)
          BY <1>1, <2>1, <3>1, FileIs
    <3>4. Content(s, r.ep, r.take, r.length)
          BY <3>2 DEF Clip
    <3>5. s \in Seq(Frame) /\ Len(s) = r.vto - r.vfrom
      <4> HIDE DEF file
      <4>1. QED
            BY <3>2, <3>3, ClipAt
    <3> HIDE DEF file, s
    <3>6. r.length \in Nat /\ r.take \in Nat
          BY <3>3, Bounds DEF Record
    <3>7. PICK j \in 1 .. Len(s) : ~(s[j].k < r.length)
      <4>1. Ascending(s) /\ ~(Len(s) <= r.length)
            BY <2>2, <3>4, <3>5, <3>6 DEF Content
      <4>2. QED
            BY <3>5, <3>6, <4>1, AscendingFits
    <3>8. s[j].take < r.take /\ <<r.ep, s[j].take>> \in discarded
          BY <3>4, <3>7 DEF Content
    <3>9. s[j].take \in 1 .. (r.take - 1)
      <4>1. s[j] \in Frame
            BY <3>5
      <4>2. s[j].take \in 1 .. MaxTakes
            BY <4>1 DEF Frame
      <4>3. QED
            BY <3>6, <3>8, <4>2, Bounds
    <3>10. QED
           BY <3>8, <3>9
  <2>3. QED
        BY <2>2 DEF LongerOnlyAfterDiscard
<1>2. QED
      BY <1>1, ReadAlways, PTL

\* After every session, whatever failed, the rows of each episode stand together
\* in its data file, and its video shows its pictures in order: a picture is
\* missing only if the frame was dropped or its image was not written, and one
\* that is not of the episode was left by a discarded take of the same number.
\* The counters agree with what is on disk unless there was a fault, and where
\* they agree the rows are at the positions of their records.
THEOREM EpisodesReadBack == Spec => []ReadsBack
<1>1. ASSUME TypeOK, FilesInv, ReadInv PROVE ReadsBack
  <2>0. /\ DiskTypes /\ ObjectTypes
        /\ VideoInv /\ BlockInv /\ CountInv /\ RowsInv /\ ExactInv
        BY <1>1, Types DEF ReadInv
  <2>1. pc = "over" /\ faults = 0 => CountsAgree
        BY <1>1, <2>0, CountsExact
  <2>2. ASSUME NEW r \in ToSet(Records) PROVE HasRows(r) /\ Shows(r)
    <3>1. PICK i \in 1 .. Len(All) : r = All[i]
          BY <1>1, <2>0, RecordsAre
    <3>2. Block(r, data[r.data + 1]) /\ Clip(r, videos[r.video + 1])
          BY <2>0, <3>1 DEF BlockInv, VideoInv
    <3>3. r \in Record /\ videos[r.video + 1] \in Seq(Frame)
          BY <1>1, <2>0, <3>1, FileIs
    <3>4. HasRows(r)
          BY <3>2 DEF HasRows, Block
    <3>5. Shows(r)
          BY <3>2, <3>3, ClipShows
    <3>6. QED
          BY <3>4, <3>5
  <2>3. ASSUME pc = "over", CountsAgree,
               NEW r \in ToSet(Records), NEW k \in 0 .. (r.length - 1)
        PROVE  Rows[r.from + k + 1] = [ep |-> r.ep, index |-> r.from + k,
                                       frame |-> [take |-> r.take, k |-> k]]
    <3>1. PICK i \in 1 .. Len(All) : r = All[i]
          BY <1>1, <2>0, RecordsAre
    <3>2. Shown(Rows)
          BY <1>1, <2>0, <2>3, CountsShow
    <3> HIDE DEF Rows
    <3>3. RowsAt(r.ep, r.take, r.length, r.from, Rows)
          BY <3>1, <3>2 DEF Shown
    <3>4. QED
          BY <3>3 DEF RowsAt
  <2>4. QED
        BY <2>1, <2>2, <2>3 DEF ReadsBack
<1>2. QED
      BY <1>1, ReadAlways, PTL
=============================================================================
