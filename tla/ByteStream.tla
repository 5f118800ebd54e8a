----------------------------- MODULE ByteStream -----------------------------
(***************************************************************************)
(* Messages cut into chunks and put together again: send_bytes_in_chunks   *)
(* and receive_bytes_in_chunks.  A message is a sequence of pieces of at   *)
(* most CHUNK_SIZE bytes.                                                  *)
(* What is left out: the bytes of a piece and the unknown transfer states. *)
(***************************************************************************)
EXTENDS Naturals, Sequences, SequencesExt

TransferState == {"begin", "middle", "end"}

\* The last chunk is an END, even when it is also the first.
Chunks(msg) ==
  [i \in 1 .. Len(msg) |->
     [state |-> IF i = Len(msg) THEN "end" ELSE IF i = 1 THEN "begin"
                ELSE "middle",
      data  |-> msg[i]]]

\* What bytes_buffer holds once a chunk is written to it; an END completes a
\* message and empties it.
Buffered(buf, chunk) ==
  IF chunk.state = "begin" THEN <<chunk.data>> ELSE Append(buf, chunk.data)

RestKept(buf, chunk) == Buffered(buf, chunk)   \* mutant: no truncate at END

Rest(buf, chunk) ==
  IF chunk.state = "end" THEN <<>> ELSE Buffered(buf, chunk)

Completed(buf, chunk) ==
  IF chunk.state = "end" THEN <<Buffered(buf, chunk)>> ELSE <<>>

Waiting == [buf |-> <<>>, out |-> <<>>]

\* What the buffer and the queue hold after one more chunk, and after all.
WithChunk(r, chunk) ==
  [buf |-> Rest(r.buf, chunk), out |-> r.out \o Completed(r.buf, chunk)]

Received(chunks) ==
  LET after[n \in 0 .. Len(chunks)] ==
        IF n = 0 THEN Waiting ELSE WithChunk(after[n - 1], chunks[n])
  IN after[Len(chunks)]

\* The chunks of messages sent one after the other.
Sent(msgs) == FlattenSeq([v \in DOMAIN msgs |-> Chunks(msgs[v])])
=============================================================================
