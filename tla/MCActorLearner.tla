--------------------------- MODULE MCActorLearner ---------------------------
(***************************************************************************)
(* ActorLearner for TLC; the chunks its messages are cut into; and what a  *)
(* comment of the learner says of it that the code does not do.            *)
(***************************************************************************)
EXTENDS ActorLearner, ByteStream

\* A list of transitions, v, as a message of n pieces.
Message(v, n) == [i \in 1 .. n |-> <<v, i>>]

\* The lists of transitions between the two sides, however each of them is cut
\* into BEGIN, MIDDLE and END chunks, are received in order and each whole,
\* wherever the stream breaks off.
NoTornMessage ==
  LET s == "transitions"
      lists == wire[s] \o queue[s]
  IN
  \A cut \in [DOMAIN lists -> 1 .. 3] :
    LET msgs == [v \in DOMAIN lists |-> Message(lists[v], cut[v])] IN
    \A n \in 0 .. Len(Sent(msgs)) :
      LET got == Received(SubSeq(Sent(msgs), 1, n)) IN
      /\ IsPrefix(got.out, msgs)
      /\ FlattenSeq(got.out) \o got.buf = SubSeq(FlattenSeq(msgs), 1, n)

\* save_training_checkpoint "Saves the current interaction step for resuming
\* training": the last step that the learner took note of.
SavesCurrentStep == saving # None => saving.interaction = reported
=============================================================================
