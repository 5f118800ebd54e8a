----------------------------- MODULE Recording -----------------------------
(***************************************************************************)
(* Recording a dataset: the loop of lerobot_record, the operator's keys,   *)
(* the DatasetWriter with its threads, and what is left on disk for the    *)
(* next session, which resumes the dataset.  One camera, whose images are  *)
(* written as PNG files and encoded when the episode is saved, or streamed *)
(* to an encoder thread.                                                   *)
(*                                                                         *)
(* A file is named by its number: update_chunk_file_indices counts files,  *)
(* in chunks of chunks_size.  When a file is full is left open.            *)
(***************************************************************************)
EXTENDS Integers, FiniteSets, Sequences, SequencesExt

CONSTANTS
  NumEpisodes,     \* dataset.num_episodes of a session
  MetaBuffer,      \* metadata_buffer_size
  QueueMax,        \* encoder_queue_maxsize
  MaxFrames,       \* bound: frames of an episode
  MaxTakes,        \* bound: takes recorded in all
  MaxKeys,         \* bound: keys pressed
  MaxFaults,       \* bound: interrupts and encoder failures
  MaxLost,         \* bound: frames dropped, or whose image is not written
  MaxSessions      \* bound: sessions

ASSUME RecordingAssumption ==
  /\ {NumEpisodes, MetaBuffer, QueueMax, MaxFrames, MaxTakes, MaxSessions}
       \subseteq Nat \ {0}
  /\ {MaxKeys, MaxFaults, MaxLost} \subseteq Nat

VARIABLES
  \* on disk
  info,                \* info.json: total_episodes and total_frames
  data, metas, videos, \* the files of data/, meta/episodes/ and videos/
  images,              \* PNG files
  \* the dataset object
  loaded,              \* the episodes' metadata loaded when the session began
  latest,              \* the records of the session: the last one is the
                       \* latest_episode of the metadata
  buffered,            \* _metadata_buffer
  appending,           \* the parquet writers that are open
  size, take,          \* episode_buffer: its size, the take it is of
  part,                \* the record of the episode being saved
  unwritten,           \* what the threads of the AsyncImageWriter have to write,
                       \* which is done in any order
  encoder,             \* the encoder thread: state, queue, the frame it has taken
                       \* from the queue, frames encoded
  \* the loop
  pc, exitEarly, rerecord, stop, recorded, streaming,
  \* bounds and history
  keys, faults, session, discarded,
  lost                 \* the frames that were dropped, or whose image was not written

disk == <<info, data, metas, videos>>
object == <<loaded, latest, buffered, appending>>
events == <<exitEarly, rerecord, stop>>
bounds == <<keys, faults, session>>
vars == <<disk, images, object, size, take, part, unwritten, encoder, pc, events,
          recorded, streaming, bounds, discarded, lost>>

(***************************************************************************)
(* A frame is known by its take and its place in it.                       *)
(***************************************************************************)
Frame == [take : 1 .. MaxTakes, k : 0 .. (MaxFrames - 1)]
Row == [ep : Nat, index : Nat, frame : Frame]
Image == [ep : Nat, k : 0 .. (MaxFrames - 1), frame : Frame]
Record == [ep : Nat, take : 1 .. MaxTakes, length : Nat, from : Nat, to : Nat,
           data : Nat, meta : Nat, video : Nat, vfrom : Nat, vto : Nat]
NoRecord == [ep |-> 0, take |-> 1, length |-> 0, from |-> 0, to |-> 0,
             data |-> 0, meta |-> 0, video |-> 0, vfrom |-> 0, vto |-> 0]
Off == [st |-> "off", queue |-> <<>>, hand |-> <<>>, out |-> <<>>]

Saving == {"save", "video", "finish", "file", "meta", "info", "after"}
Looping == {"head", "record", "reset", "decide"}

TypeOK ==
  /\ info \in [episodes : Nat, frames : Nat]
  /\ data \in Seq(Seq(Row)) /\ metas \in Seq(Seq(Record))
  /\ videos \in Seq(Seq(Frame)) /\ images \subseteq Image
  /\ {loaded, latest, buffered} \subseteq Seq(Record)
  /\ appending \in [data : BOOLEAN, meta : BOOLEAN]
  /\ size \in 0 .. MaxFrames /\ take \in 1 .. (MaxTakes + 1)
  /\ pc \notin {"head", "over"} => take <= MaxTakes
  /\ part \in Record /\ unwritten \subseteq Image
  /\ encoder \in [st : {"off", "on", "dead"}, queue : Seq(Frame), hand : Seq(Frame),
                   out : Seq(Frame)]
  /\ Len(encoder.queue) <= QueueMax /\ Len(encoder.hand) <= 1
  /\ pc \in Saving \cup Looping \cup {"over"}
  /\ {exitEarly, rerecord, stop, streaming} \subseteq BOOLEAN
  /\ recorded \in 0 .. NumEpisodes
  /\ keys \in 0 .. MaxKeys /\ faults \in 0 .. MaxFaults
  /\ session \in 1 .. MaxSessions
  /\ discarded \subseteq (Nat \X (1 .. MaxTakes)) /\ lost \subseteq Frame

Init ==
  /\ info = [episodes |-> 0, frames |-> 0]
  /\ data = <<>> /\ metas = <<>> /\ videos = <<>> /\ images = {}
  /\ loaded = <<>> /\ latest = <<>> /\ buffered = <<>>
  /\ appending = [data |-> FALSE, meta |-> FALSE]
  /\ size = 0 /\ take = 1 /\ part = NoRecord /\ unwritten = {} /\ encoder = Off
  /\ pc = "head" /\ exitEarly = FALSE /\ rerecord = FALSE /\ stop = FALSE
  /\ recorded = 0 /\ streaming \in BOOLEAN
  /\ keys = 0 /\ faults = 0 /\ session = 1 /\ discarded = {} /\ lost = {}

-----------------------------------------------------------------------------
(***************************************************************************)
(* The operator, and the threads that write images and encode.             *)
(***************************************************************************)
Press ==
  /\ pc # "over" /\ keys < MaxKeys /\ keys' = keys + 1
  /\ exitEarly' = TRUE
  /\ \/ UNCHANGED <<rerecord, stop>>            \* right arrow
     \/ rerecord' = TRUE /\ UNCHANGED stop      \* left arrow
     \/ stop' = TRUE /\ UNCHANGED rerecord      \* escape
  /\ UNCHANGED <<disk, images, object, size, take, part, unwritten, encoder, pc,
                 recorded, streaming, faults, session, discarded, lost>>

\* write_image: the PNG file replaces the one of the same name.  An exception is
\* logged, and the image is not written.
WriteImage ==
  /\ \E i \in unwritten :
       /\ unwritten' = unwritten \ {i}
       /\ \/ /\ images' = {j \in images : j.ep # i.ep \/ j.k # i.k} \cup {i}
             /\ UNCHANGED lost
          \/ /\ Cardinality(lost) < MaxLost /\ lost' = lost \cup {i.frame}
             /\ UNCHANGED images
  /\ UNCHANGED <<disk, object, size, take, part, encoder, pc, events, recorded,
                 streaming, bounds, discarded>>

\* The encoder thread takes a frame from its queue and encodes it.
TakeFrame ==
  /\ encoder.st = "on" /\ encoder.hand = <<>> /\ encoder.queue # <<>>
  /\ encoder' = [encoder EXCEPT !.queue = Tail(@), !.hand = <<Head(encoder.queue)>>]
  /\ UNCHANGED <<disk, images, object, size, take, part, unwritten, pc, events,
                 recorded, streaming, bounds, discarded, lost>>

EncodeFrame ==
  /\ encoder.st = "on" /\ encoder.hand # <<>>
  /\ encoder' = [encoder EXCEPT !.hand = <<>>, !.out = @ \o encoder.hand]
  /\ UNCHANGED <<disk, images, object, size, take, part, unwritten, pc, events,
                 recorded, streaming, bounds, discarded, lost>>

\* Encoding a frame fails, or flushing the encoder at the end: the thread ends,
\* and its queue stays as it is.
EncoderFails ==
  /\ encoder.st = "on" /\ faults < MaxFaults
  /\ encoder.hand # <<>> \/ (pc = "finish" /\ encoder.queue = <<>>)
  /\ encoder' = [encoder EXCEPT !.st = "dead", !.hand = <<>>]
  /\ faults' = faults + 1
  /\ UNCHANGED <<disk, images, object, size, take, part, unwritten, pc, events,
                 recorded, streaming, keys, session, discarded, lost>>

-----------------------------------------------------------------------------
(***************************************************************************)
(* The end of a session: whatever is pending is flushed, and the writers   *)
(* are closed.                                                             *)
(***************************************************************************)
\* A file is written from its beginning when it is opened, else appended to.
Store(files, n, open, new) ==
  IF open THEN [files EXCEPT ![n + 1] = @ \o new]
  ELSE Append(SubSeq(files, 1, n), new)

\* The buffered records go to the file of the first of them.
Flushed ==
  IF buffered = <<>> THEN metas
  ELSE Store(metas, Head(buffered).meta, appending.meta, buffered)

Finalized(pngs) ==
  /\ images' = pngs /\ unwritten' = {} /\ encoder' = Off
  /\ metas' = Flushed /\ buffered' = <<>>
  /\ appending' = [data |-> FALSE, meta |-> FALSE]
  /\ pc' = "over"
  /\ UNCHANGED <<info, data, videos, loaded, latest, size, take, part, events,
                 recorded, streaming, keys, session, discarded, lost>>

\* An exception ends the session: the manager's __exit__ cancels what is
\* streamed, finalizes, which waits for the image writer, and removes the images
\* of the episode in progress, those that were still to be written included.
CleanedLate ==   \* mutant: off by one
  {i \in images : streaming \/ i.ep # info.episodes + 1}
Cleaned == {i \in images : streaming \/ i.ep # info.episodes}
Raise == Finalized(Cleaned) /\ UNCHANGED faults

\* A KeyboardInterrupt, or the robot or an encoder fails.
Interrupted ==
  /\ pc # "over" /\ faults < MaxFaults /\ faults' = faults + 1
  /\ Finalized(Cleaned)

\* The head of the loop of record.
BeginEpisode ==
  /\ pc = "head" /\ ~stop /\ recorded < NumEpisodes /\ take <= MaxTakes
  /\ pc' = "record"
  /\ UNCHANGED <<disk, images, object, size, take, part, unwritten, encoder,
                 events, recorded, streaming, bounds, discarded, lost>>

EndSession ==
  /\ pc = "head" /\ (stop \/ recorded = NumEpisodes) /\ unwritten = {}
  /\ Finalized(images) /\ UNCHANGED faults

-----------------------------------------------------------------------------
(***************************************************************************)
(* record_loop.                                                            *)
(***************************************************************************)
StreamedAlways(frame) ==   \* mutant: no frame is dropped
  LET e == IF size = 0 THEN [Off EXCEPT !.st = "on"] ELSE encoder IN
  /\ e.st = "on"
  /\ encoder' = [e EXCEPT !.queue = Append(@, frame)]
  /\ UNCHANGED <<unwritten, lost>>

\* With the first frame of an episode its encoder is started; a frame for which
\* the queue has no room in time is dropped.
Streamed(frame) ==
  LET e == IF size = 0 THEN [Off EXCEPT !.st = "on"] ELSE encoder IN
  /\ e.st = "on"
  /\ \/ /\ Len(e.queue) < QueueMax
        /\ encoder' = [e EXCEPT !.queue = Append(@, frame)] /\ UNCHANGED lost
     \/ /\ Len(e.queue) = QueueMax /\ encoder' = e
        /\ Cardinality(lost) < MaxLost /\ lost' = lost \cup {frame}
  /\ UNCHANGED unwritten

Queued(frame) ==
  /\ unwritten' = unwritten \cup {[ep |-> info.episodes, k |-> size, frame |-> frame]}
  /\ UNCHANGED <<encoder, lost>>

AddFrame ==
  LET frame == [take |-> take, k |-> size] IN
  /\ pc = "record" /\ ~exitEarly /\ size < MaxFrames
  /\ IF streaming THEN Streamed(frame) ELSE Queued(frame)
  /\ size' = size + 1
  /\ UNCHANGED <<disk, images, object, take, part, pc, events, recorded,
                 streaming, bounds, discarded>>

\* feed_frame finds the encoder thread dead.
AddFrameFails ==
  /\ pc = "record" /\ ~exitEarly /\ size < MaxFrames
  /\ streaming /\ size > 0 /\ encoder.st = "dead"
  /\ Raise

\* A loop ends at a key press, which it takes note of, or when its time is over,
\* whether a key was pressed meanwhile or not.
LeaveLoop ==
  /\ pc \in {"record", "reset"}
  /\ \/ exitEarly /\ exitEarly' = FALSE
     \/ (pc = "reset" \/ size > 0) /\ UNCHANGED exitEarly
  /\ pc' = IF pc = "record" /\ ~stop /\ (recorded < NumEpisodes - 1 \/ rerecord)
           THEN "reset" ELSE "decide"
  /\ UNCHANGED <<disk, images, object, size, take, part, unwritten, encoder,
                 rerecord, stop, recorded, streaming, bounds, discarded, lost>>

\* clear_episode_buffer waits for the image writer: the images of a video stay.
Rerecord ==
  /\ pc = "decide" /\ rerecord /\ unwritten = {}
  /\ rerecord' = FALSE /\ exitEarly' = FALSE
  /\ encoder' = Off
  /\ size' = 0 /\ take' = take + 1
  /\ discarded' = discarded \cup {<<info.episodes, take>>}
  /\ pc' = "head"
  /\ UNCHANGED <<disk, images, object, part, unwritten, stop, recorded, streaming,
                 bounds, lost>>

Keep ==
  /\ pc = "decide" /\ ~rerecord
  /\ pc' = "save"
  /\ UNCHANGED <<disk, images, object, size, take, part, unwritten, encoder,
                 events, recorded, streaming, bounds, discarded, lost>>

-----------------------------------------------------------------------------
(***************************************************************************)
(* save_episode.                                                           *)
(***************************************************************************)
\* Without a frame the episode is refused, and the session ends.
RefuseEmpty == pc = "save" /\ size = 0 /\ Raise

SameFile(n) == n   \* mutant: the next session writes to the same file
NextFile(n) == n + 1

First == latest = <<>> /\ loaded = <<>>

\* Where the next file, or part of a file, of a kind goes: a session starts with
\* a new file, and a file is followed by another when it is full.
FileAfter(kind) ==
  IF First THEN {0}
  ELSE IF latest = <<>> THEN {NextFile(Last(loaded)[kind])}
  ELSE {Last(latest)[kind], NextFile(Last(latest)[kind])}

\* The file is one of this session.
Continues(kind, n) == latest # <<>> /\ Last(latest)[kind] = n

\* The statistics of the episode are of some of its images, the first and the last
\* always among them: one that is not there is an exception.
HasImage(k) == \E i \in images : i.ep = info.episodes /\ i.k = k

MissesImage ==
  /\ pc = "save" /\ size > 0 /\ ~streaming /\ unwritten = {}
  /\ \E k \in 0 .. (size - 1) : ~HasImage(k)
  /\ Raise

\* The rows are appended to the data file.
WriteRows ==
  /\ pc = "save" /\ size > 0
  /\ streaming \/ (HasImage(0) /\ HasImage(size - 1))
  /\ \E n \in FileAfter("data") :
       /\ part' = [NoRecord EXCEPT !.ep = info.episodes, !.take = take,
                                   !.length = size, !.data = n]
       /\ data' = Store(data, n, appending.data /\ Continues("data", n),
                        [i \in 1 .. size |->
                           [ep |-> info.episodes, index |-> info.frames + i - 1,
                            frame |-> [take |-> take, k |-> i - 1]]])
  /\ appending' = [appending EXCEPT !.data = TRUE]
  /\ pc' = IF streaming THEN "finish" ELSE "video"
  /\ UNCHANGED <<info, metas, videos, images, loaded, latest, buffered, size, take,
                 unwritten, encoder, events, recorded, streaming, bounds, discarded,
                 lost>>

SaveRowsAtOnce == WriteRows   \* mutant: the image writer is not waited for
SaveRows == unwritten = {} /\ WriteRows

\* The images found under the episode's number are encoded in the order of their
\* frame numbers, and removed.
EncodeImages ==
  LET mine == {i \in images : i.ep = info.episodes} IN
  /\ pc = "video"
  /\ \E n \in 0 .. MaxFrames : \E inOrder \in [1 .. n -> mine] :
       /\ ToSet(inOrder) = mine
       /\ \A i, j \in 1 .. n : i < j => inOrder[i].k < inOrder[j].k
       /\ encoder' = [Off EXCEPT !.out = [i \in 1 .. n |-> inOrder[i].frame]]
  /\ images' = images \ mine
  /\ pc' = "file"
  /\ UNCHANGED <<disk, object, size, take, part, unwritten, events, recorded,
                 streaming, bounds, discarded, lost>>

\* finish_episode: the sentinel needs room in the queue, and the thread has
\* ended when all before it is encoded.
FinishAlive ==
  /\ pc = "finish" /\ encoder.st = "on"
  /\ encoder.queue = <<>> /\ encoder.hand = <<>>
  /\ encoder' = [encoder EXCEPT !.st = "off"]
  /\ pc' = "file"
  /\ UNCHANGED <<disk, images, object, size, take, part, unwritten, events,
                 recorded, streaming, bounds, discarded, lost>>

FinishWaiting ==   \* mutant: an encoder that died is waited for
  \/ FinishAlive
  \/ pc = "finish" /\ encoder.st = "dead" /\ UNCHANGED vars

FinishEpisode ==
  \/ FinishAlive
  \/ /\ pc = "finish" /\ encoder.st = "dead" /\ Len(encoder.queue) < QueueMax
     /\ Raise

\* _save_episode_video: the video becomes a file, or is appended to the last one.
PlaceVideo ==
  /\ pc = "file"
  /\ \E n \in FileAfter("video") :
       LET joined == Continues("video", n)
           from == IF joined THEN Last(latest).vto ELSE 0
       IN
       /\ videos' = Store(videos, n, joined, encoder.out)
       /\ part' = [part EXCEPT !.video = n, !.vfrom = from,
                               !.vto = from + Len(encoder.out)]
  /\ encoder' = Off /\ pc' = "meta"
  /\ UNCHANGED <<info, data, metas, images, object, size, take, unwritten, events,
                 recorded, streaming, bounds, discarded, lost>>

\* _save_episode_metadata: the record joins the buffer, which is flushed when it
\* is full, or before a next file is begun.
SaveMetadata ==
  /\ pc = "meta"
  /\ \E n \in FileAfter("meta") :
       LET from == IF First THEN 0 ELSE Last(loaded \o latest).to
           r == [part EXCEPT !.meta = n, !.from = from, !.to = from + part.length]
           next == latest # <<>> /\ ~Continues("meta", n)
           onDisk == IF next THEN Flushed ELSE metas
           open == appending.meta /\ ~next
           waiting == IF next THEN <<r>> ELSE Append(buffered, r)
           full == Len(waiting) >= MetaBuffer
       IN
       /\ next => appending.meta
       /\ latest' = Append(latest, r)
       /\ metas' = IF full THEN Store(onDisk, Head(waiting).meta, open, waiting)
                   ELSE onDisk
       /\ buffered' = IF full THEN <<>> ELSE waiting
       /\ appending' = [appending EXCEPT !.meta = open \/ full]
  /\ pc' = "info"
  /\ UNCHANGED <<info, data, videos, images, loaded, size, take, part, unwritten,
                 encoder, events, recorded, streaming, bounds, discarded, lost>>

SaveInfo ==
  /\ pc = "info"
  /\ info' = [episodes |-> info.episodes + 1, frames |-> info.frames + size]
  /\ pc' = "after"
  /\ UNCHANGED <<data, metas, videos, images, object, size, take, part, unwritten,
                 encoder, events, recorded, streaming, bounds, discarded, lost>>

NewBuffer ==
  /\ pc = "after"
  /\ size' = 0 /\ take' = take + 1 /\ part' = NoRecord
  /\ recorded' = recorded + 1
  /\ pc' = "head"
  /\ UNCHANGED <<disk, images, object, unwritten, encoder, events, streaming,
                 bounds, discarded, lost>>

SaveEpisode ==
  \/ RefuseEmpty \/ MissesImage \/ SaveRows \/ EncodeImages \/ FinishEpisode
  \/ PlaceVideo \/ SaveMetadata \/ SaveInfo \/ NewBuffer

-----------------------------------------------------------------------------
(***************************************************************************)
(* The next session resumes what is on disk.  Without a metadata file it   *)
(* cannot.                                                                 *)
(***************************************************************************)
Resume ==
  /\ pc = "over" /\ session < MaxSessions /\ metas # <<>> /\ take <= MaxTakes
  /\ session' = session + 1
  /\ loaded' = FlattenSeq(metas) /\ latest' = <<>>
  /\ size' = 0 /\ take' = take + 1 /\ part' = NoRecord
  /\ exitEarly' = FALSE /\ rerecord' = FALSE /\ stop' = FALSE
  /\ recorded' = 0 /\ streaming' \in BOOLEAN
  /\ pc' = "head"
  /\ UNCHANGED <<disk, images, buffered, appending, unwritten, encoder, keys,
                 faults, discarded, lost>>

\* The bounds end what the program could go on with.
Terminated ==
  /\ \/ pc = "over" /\ (session = MaxSessions \/ metas = <<>> \/ take > MaxTakes)
     \/ pc = "head" /\ take > MaxTakes
     \/ pc = "finish" /\ encoder.st = "dead" /\ Len(encoder.queue) = QueueMax
  /\ UNCHANGED vars

Step ==
  \/ BeginEpisode \/ EndSession \/ AddFrame \/ AddFrameFails \/ LeaveLoop
  \/ Rerecord \/ Keep \/ SaveEpisode

Next ==
  \/ Step \/ Press \/ Interrupted \/ Resume
  \/ WriteImage \/ TakeFrame \/ EncodeFrame \/ EncoderFails
  \/ Terminated

\* The steps of a save, and those of the threads, are taken in the end.
Spec ==
  /\ Init /\ [][Next]_vars
  /\ WF_vars(SaveEpisode) /\ WF_vars(WriteImage)
  /\ WF_vars(TakeFrame) /\ WF_vars(EncodeFrame)

-----------------------------------------------------------------------------
(***************************************************************************)
(* What must hold.                                                         *)
(***************************************************************************)
Records == FlattenSeq(metas)
Rows == FlattenSeq(data)

CountsAgree == Len(Rows) = info.frames /\ Len(Records) = info.episodes

\* The rows of an episode stand together in its data file, in order, with its
\* number and their places in all the rows.
HasRows(r) ==
  LET rows == data[r.data + 1] IN
  \E n \in 0 .. (Len(rows) - r.length) : \A k \in 0 .. (r.length - 1) :
    rows[n + k + 1] = [ep |-> r.ep, index |-> rows[n + 1].index + k,
                       frame |-> [take |-> r.take, k |-> k]]

\* Its part of its video shows its frames in order.  Missing are only frames that
\* were lost; what is there besides was left by a take that was discarded.
Shows(r) ==
  LET video == videos[r.video + 1]
      clip == (r.vfrom + 1) .. r.vto
  IN
  /\ r.vto <= Len(video)
  /\ \A i, j \in clip : i < j => video[i].k < video[j].k
  /\ \A i \in clip :
       \/ video[i].take = r.take /\ video[i].k < r.length
       \/ video[i].take < r.take /\ <<r.ep, video[i].take>> \in discarded
  /\ \A k \in 0 .. (r.length - 1) :
       LET frame == [take |-> r.take, k |-> k] IN
       frame \in lost \/ \E i \in clip : video[i] = frame

\* When a session is over, every recorded episode has its rows and its video,
\* whatever failed.  As long as the counters agree with what is in the files, its
\* rows are found where its record says; after a fault there may be rows or a
\* record that the counters do not know of, and no position is reliable.
ReadsBack ==
  pc = "over" =>
    /\ \A r \in ToSet(Records) : HasRows(r) /\ Shows(r)
    /\ faults = 0 => CountsAgree
    /\ CountsAgree =>
         \A r \in ToSet(Records) : \A k \in 0 .. (r.length - 1) :
           Rows[r.from + k + 1] = [ep |-> r.ep, index |-> r.from + k,
                                   frame |-> [take |-> r.take, k |-> k]]

\* What an earlier session recorded is never written to again.
KeepsEarlier ==
  [][\A r \in ToSet(loaded) :
       /\ data'[r.data + 1] = data[r.data + 1]
       /\ metas'[r.meta + 1] = metas[r.meta + 1]
       /\ videos'[r.video + 1] = videos[r.video + 1]]_vars

\* A video longer than its episode comes from the images of an earlier take that
\* was discarded; an interrupted take leaves none.
LongerOnlyAfterDiscard ==
  \A r \in ToSet(Records) :
    r.vto - r.vfrom > r.length => \E t \in 1 .. (r.take - 1) : <<r.ep, t>> \in discarded

\* A save ends, unless an encoder died and left its queue full.
SaveEnds ==
  pc \in Saving ~>
    pc \notin Saving \/ (encoder.st = "dead" /\ Len(encoder.queue) = QueueMax)
=============================================================================
