----------------------------- MODULE PackedStream -----------------------------
(***************************************************************************)
(* The text path of GrainDataLoader on one data-parallel rank              *)
(* (components/data/): a source of documents, the document-aware           *)
(* concat-then-split packing, the prefetch thread, and a trainer that      *)
(* takes rows, saves the loader's state with its checkpoints and restarts  *)
(* from the last one.                                                      *)
(*                                                                         *)
(* A document is [len, starts]: its tokens are 0 .. len-1, and `starts` are *)
(* the tokens whose position is 0 (a document put together from several).  *)
(* A place is [epoch, next]: the document number `next` that this rank     *)
(* reads in that epoch.  A cursor is the state of the source's iterator:   *)
(* the place of the next document, except that a Hugging Face stream rests *)
(* at next = ShardSize until it is read again.  A segment [doc, from, to,  *)
(* at] puts the tokens from .. to-1 of a document at column `at` of a row. *)
(***************************************************************************)
EXTENDS DataShard, Sequences, FiniteSets

CONSTANTS
  Documents,      \* the documents of the dataset, after filters and processor
  Orders,         \* the order of the indices in epoch 0, 1, ...: used cyclically
  Configs,        \* the configurations: [streaming, repeat, world, rank]
  TokensPerRow,   \* num_tokens_per_batch
  MaxDocuments,   \* max_num_documents
  MaxContext,     \* max_context_length
  Prefetch,       \* num_prefetch_batches
  MaxRows,        \* bound: rows the trainer takes
  MaxCrashes      \* bound: restarts

Indices == 1 .. Len(Documents)

\* Every rank has a row, and only a single rank may read without repeating.
ASSUME PackedStreamAssumption ==
  /\ Documents \in Seq([len : Nat, starts : SUBSET Nat])
  /\ Orders \in Seq([Indices -> Indices]) /\ Orders # << >>
  /\ Configs \subseteq [streaming : BOOLEAN, repeat : BOOLEAN, world : Nat, rank : Nat]
  /\ \A c \in Configs : /\ c.rank < c.world
                        /\ c.world <= Len(Documents)
                        /\ ~c.repeat => c.world = 1
  /\ {TokensPerRow, MaxDocuments, MaxContext, Prefetch} \subseteq Nat \ {0}
  /\ {MaxRows, MaxCrashes} \subseteq Nat

VARIABLES
  config,      \* the loader's configuration, fixed
  parent,      \* the cursor of the source's iterator
  remainder,   \* _remainder, _remainder_parent_state and _remainder_offset
  finished,    \* _finished: the source has ended
  row,         \* the segments of the row being filled
  numTokens,   \* num_tokens of that row
  queue,       \* prefetched rows, each with the packing state after it
  state,       \* the packing state after the last row taken by the trainer
  delivered,   \* the rows of the current history of the training
  seen,        \* the longest history so far
  saved,       \* the last checkpoint: [state, rows]
  crashes      \* restarts so far

packVars == <<parent, remainder, finished, row, numTokens>>
vars == <<config, packVars, queue, state, delivered, seen, saved, crashes>>

-----------------------------------------------------------------------------
\* The source.

\* The rows this rank reads in an epoch: a slice of an indexed dataset, every
\* world-th row of a stream.
RankSize ==
  IF config.streaming
  THEN (Len(Documents) - config.rank + config.world - 1) \div config.world
  ELSE ShardStop(Len(Documents), config.world, config.rank)
         - ShardStart(Len(Documents), config.world, config.rank)

RowIndex(n) ==
  IF config.streaming
  THEN config.rank + n * config.world
  ELSE ShardStart(Len(Documents), config.world, config.rank) + n

\* An indexed dataset is shuffled anew in every epoch, before it is sliced.
Order(epoch) == Orders[(epoch % Len(Orders)) + 1]

DocumentAt(p) ==
  Documents[IF config.streaming THEN RowIndex(p.next) + 1
                                ELSE Order(p.epoch)[RowIndex(p.next) + 1]]

Places == [epoch : Nat, next : 0 .. RankSize - 1]
Cursors == [epoch : Nat, next : 0 .. RankSize]
FirstPlace == [epoch |-> 0, next |-> 0]

\* The end of an epoch is the beginning of the next.
Rolled(c) == IF c.next = RankSize THEN [epoch |-> c.epoch + 1, next |-> 0] ELSE c

SourceEnded(c) == ~config.repeat /\ c.next = RankSize

\* The cursor after the document at p: a stream rolls when it is read again,
\* an index at once.
CursorAfter(p) ==
  LET c == [p EXCEPT !.next = @ + 1]
  IN  IF config.streaming \/ ~config.repeat THEN c ELSE Rolled(c)

-----------------------------------------------------------------------------
\* The packing iterator.

(* Mutant: the documents joined in a sequence are not kept apart.         *)
ChunkOfSequence(document, start) == SmallerOf(start + MaxContext, document.len)

\* _next_document_chunk_end.
ChunkEnd(document, start) ==
  LET end == SmallerOf(start + MaxContext, document.len)
      breaks == {k \in start + 1 .. end - 1 : k \in document.starts}
  IN  IF breaks = {} THEN end ELSE CHOOSE k \in breaks : \A j \in breaks : k <= j

HasRoom == numTokens < TokensPerRow /\ Len(row) < MaxDocuments

NoRemainder == [has |-> FALSE, doc |-> FirstPlace, before |-> FirstPlace, offset |-> 0]
RemainderAt(p, cursor, offset) == [has |-> TRUE, doc |-> p, before |-> cursor, offset |-> offset]

(* Mutant: the parent's state after the remainder's document.             *)
PackingStateAhead ==
  [parent |-> parent, hasRemainder |-> remainder.has,
   offset |-> remainder.offset, finished |-> finished]

\* get_state: with a remainder, the parent's state is the one before its document.
PackingState ==
  [parent |-> IF remainder.has THEN remainder.before ELSE parent,
   hasRemainder |-> remainder.has,
   offset |-> remainder.offset,
   finished |-> finished]

FreshState == [parent |-> FirstPlace, hasRemainder |-> FALSE, offset |-> 0, finished |-> FALSE]

(* Mutant: the remainder is cut from its beginning again.                 *)
RestoreWholeDocument(s) ==
  /\ parent' = IF s.hasRemainder THEN CursorAfter(Rolled(s.parent)) ELSE s.parent
  /\ remainder' = IF s.hasRemainder
                  THEN RemainderAt(Rolled(s.parent), s.parent, 0)
                  ELSE NoRemainder
  /\ finished' = s.finished
  /\ row' = << >>
  /\ numTokens' = 0

\* set_state: the remainder is read again from the parent.
Restore(s) ==
  /\ parent' = IF s.hasRemainder THEN CursorAfter(Rolled(s.parent)) ELSE s.parent
  /\ remainder' = IF s.hasRemainder
                  THEN RemainderAt(Rolled(s.parent), s.parent, s.offset)
                  ELSE NoRemainder
  /\ finished' = s.finished
  /\ row' = << >>
  /\ numTokens' = 0

Init ==
  /\ config \in Configs
  /\ parent = FirstPlace
  /\ remainder = NoRemainder
  /\ finished = FALSE
  /\ row = << >>
  /\ numTokens = 0
  /\ queue = << >>
  /\ state = FreshState
  /\ delivered = << >>
  /\ seen = << >>
  /\ saved = [state |-> FreshState, rows |-> 0]
  /\ crashes = 0

\* Take the next document; an empty one is skipped.
ReadDocument ==
  /\ HasRoom /\ ~finished /\ ~remainder.has
  /\ ~SourceEnded(parent)
  /\ LET p == Rolled(parent)
     IN  /\ parent' = CursorAfter(p)
         /\ remainder' = IF DocumentAt(p).len = 0
                         THEN remainder
                         ELSE RemainderAt(p, parent, 0)
  /\ UNCHANGED <<config, finished, row, numTokens, queue, state, delivered, seen, saved, crashes>>

\* The source raises StopIteration.
ReadEnd ==
  /\ HasRoom /\ ~finished /\ ~remainder.has
  /\ SourceEnded(parent)
  /\ finished' = TRUE
  /\ UNCHANGED <<config, parent, remainder, row, numTokens, queue, state, delivered, seen, saved, crashes>>

(* Mutant: the segment is not cut to the room in the row.                 *)
AddWholeChunk ==
  /\ HasRoom /\ remainder.has
  /\ LET document == DocumentAt(remainder.doc)
         end == ChunkEnd(document, remainder.offset)
     IN  /\ row' = Append(row, [doc |-> remainder.doc, from |-> remainder.offset,
                                to |-> end, at |-> numTokens])
         /\ numTokens' = numTokens + (end - remainder.offset)
         /\ remainder' = IF end = document.len
                         THEN NoRemainder
                         ELSE [remainder EXCEPT !.offset = end]
  /\ UNCHANGED <<config, parent, finished, queue, state, delivered, seen, saved, crashes>>

\* Cut the next segment off the remainder.
AddSegment ==
  /\ HasRoom /\ remainder.has
  /\ LET document == DocumentAt(remainder.doc)
         end == SmallerOf(ChunkEnd(document, remainder.offset),
                          remainder.offset + TokensPerRow - numTokens)
     IN  /\ row' = Append(row, [doc |-> remainder.doc, from |-> remainder.offset,
                                to |-> end, at |-> numTokens])
         /\ numTokens' = numTokens + (end - remainder.offset)
         /\ remainder' = IF end = document.len
                         THEN NoRemainder
                         ELSE [remainder EXCEPT !.offset = end]
  /\ UNCHANGED <<config, parent, finished, queue, state, delivered, seen, saved, crashes>>

\* A row ends full, with as many documents as it may hold, or with the source;
\* the prefetch thread queues it together with the state.
EmitRow ==
  /\ ~HasRoom \/ finished
  /\ row # << >>
  /\ Len(queue) < Prefetch
  /\ queue' = Append(queue, [row |-> row, state |-> PackingState])
  /\ row' = << >>
  /\ numTokens' = 0
  /\ UNCHANGED <<config, parent, remainder, finished, state, delivered, seen, saved, crashes>>

-----------------------------------------------------------------------------
\* The trainer.

TakeRow ==
  /\ queue # << >>
  /\ Len(delivered) < MaxRows
  /\ delivered' = Append(delivered, Head(queue).row)
  /\ seen' = IF Len(delivered) < Len(seen) THEN seen ELSE delivered'
  /\ state' = Head(queue).state
  /\ queue' = Tail(queue)
  /\ UNCHANGED <<config, packVars, saved, crashes>>

\* state_dict, as part of a checkpoint.
Save ==
  /\ saved' = [state |-> state, rows |-> Len(delivered)]
  /\ UNCHANGED <<config, packVars, queue, state, delivered, seen, crashes>>

\* The process dies; a new loader is built and load_state_dict restores it.
Restart ==
  /\ crashes < MaxCrashes
  /\ crashes' = crashes + 1
  /\ Restore(saved.state)
  /\ queue' = << >>
  /\ state' = saved.state
  /\ delivered' = SubSeq(delivered, 1, saved.rows)
  /\ UNCHANGED <<config, seen, saved>>

Next == ReadDocument \/ ReadEnd \/ AddSegment \/ EmitRow \/ TakeRow \/ Save \/ Restart

Spec == Init /\ [][Next]_vars

-----------------------------------------------------------------------------
\* Correctness.

Segments == [doc : Places, from : Nat, to : Nat, at : Nat]
States == [parent : Cursors, hasRemainder : BOOLEAN, offset : Nat, finished : BOOLEAN]

\* Type invariant.
TypeOK ==
  /\ config \in Configs
  /\ parent \in Cursors
  /\ remainder \in [has : BOOLEAN, doc : Places, before : Cursors, offset : Nat]
  /\ finished \in BOOLEAN
  /\ row \in Seq(Segments)
  /\ numTokens \in 0 .. TokensPerRow
  /\ queue \in Seq([row : Seq(Segments), state : States])
  /\ state \in States
  /\ delivered \in Seq(Seq(Segments))
  /\ seen \in Seq(Seq(Segments))
  /\ saved \in [state : States, rows : Nat]
  /\ crashes \in 0 .. MaxCrashes

\* A point of the stream: token `offset` of a document, or its end.
Begin(s) == [doc |-> s.doc, offset |-> s.from]
End(s) == [doc |-> s.doc, offset |-> s.to]
FirstPoint == [doc |-> FirstPlace, offset |-> 0]
LastPoint == [doc |-> [epoch |-> 1, next |-> 0], offset |-> 0]

Before(p, q) == p.epoch < q.epoch \/ (p.epoch = q.epoch /\ p.next < q.next)
LastOf(s) == s[Len(s)]

\* The point q comes after p with no token in between.
Joined(p, q) ==
  \/ p = q
  \/ /\ Before(p.doc, q.doc)
     /\ p.offset = DocumentAt(p.doc).len
     /\ q.offset = 0
     /\ \A d \in [epoch : p.doc.epoch .. q.doc.epoch, next : 0 .. RankSize - 1] :
          Before(p.doc, d) /\ Before(d, q.doc) => DocumentAt(d).len = 0

SegmentsJoined(r) == \A j \in 1 .. Len(r) - 1 : Joined(End(r[j]), Begin(r[j + 1]))

\* What the trainer has taken ends here.
DeliveredPoint == IF delivered = << >> THEN FirstPoint ELSE End(LastOf(LastOf(delivered)))

\* The rows of a history hold the tokens of the rank's documents in order, epoch
\* after epoch, whatever was cut, prefetched, saved and restored: none is lost or
\* repeated, inside a row, from one row to the next, or over a restart; and when a
\* source that does not repeat is used up, its last token was delivered.
TokensInOrder ==
  /\ \A i \in 1 .. Len(delivered) : delivered[i] # << >> /\ SegmentsJoined(delivered[i])
  /\ \A i \in 1 .. Len(delivered) - 1 :
       Joined(End(LastOf(delivered[i])), Begin(delivered[i + 1][1]))
  /\ delivered # << >> => Joined(FirstPoint, Begin(delivered[1][1]))
  /\ finished /\ row = << >> /\ queue = << >> => Joined(DeliveredPoint, LastPoint)

Length(s) == s.to - s.from

\* A segment lies in one document, is no longer than the context, and ends where
\* the document, the context or the row ends: never earlier, never later.
SegmentFits(s) ==
  LET document == DocumentAt(s.doc)
  IN  /\ s.from < s.to /\ s.to <= document.len
      /\ Length(s) <= MaxContext
      /\ s.at + Length(s) <= TokensPerRow
      /\ \A k \in document.starts : ~(s.from < k /\ k < s.to)
      /\ \/ s.to = document.len \/ s.to \in document.starts
         \/ Length(s) = MaxContext \/ s.at + Length(s) = TokensPerRow

RowFits(r) ==
  /\ Len(r) <= MaxDocuments
  /\ \A j \in 1 .. Len(r) :
       /\ SegmentFits(r[j])
       /\ r[j].at = IF j = 1 THEN 0 ELSE r[j - 1].at + Length(r[j - 1])

RowIsFull(r) == Len(r) = MaxDocuments \/ LastOf(r).at + Length(LastOf(r)) = TokensPerRow

\* Every row has at most MaxDocuments segments and TokensPerRow tokens, side by
\* side; only the last row of a source that does not repeat is padded before either
\* limit is reached.
RowsFitLimits ==
  \A i \in 1 .. Len(delivered) :
    /\ RowFits(delivered[i])
    /\ RowIsFull(delivered[i]) \/ (~config.repeat /\ i = Len(delivered))
=============================================================================
