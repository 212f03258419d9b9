------------------------------ MODULE Readers ------------------------------
(***************************************************************************)
(* The HTTP handlers of src/api.rs that read the shield store, against the *)
(* indexer that writes it, lock by lock.  get_shield_data takes the lock   *)
(* of the index and then, having let go of it, the lock of the buffer;     *)
(* get_shield_data_length takes the buffer's and the index's under it.     *)
(* The indexer appends with one lock at a time and cuts with both.         *)
(*                                                                         *)
(* The indexer's pass is module Indexer's; here it is reduced to what it   *)
(* does to the two locked values, with a node and a disk that never fail.  *)
(* Left out is the read lock under which a pass saves the index at its     *)
(* end: it keeps out writers only, and the one writer is the pass itself.  *)
(***************************************************************************)
EXTENDS ShieldStore, RwLock

Indexing == "indexer"       \* the indexer, as a user of the locks

CONSTANTS
    DataReader,     \* HTTP requests for the stream, at a time
    LengthReader    \* and for the length of a range of it

Reader == DataReader \cup LengthReader

ASSUME ReadersAssumption ==
    /\ DataReader \cap LengthReader = {}
    /\ Indexing \notin Reader

VARIABLES
    index, buffer,          \* AppState.index and AppState.shield_buffer
    indexLock, bufferLock,  \* their locks
    chain,                  \* the chain the indexer follows
    scannedTo,              \* AppState.last_scanned_height
    writer,                 \* the indexer's place, fork height and offset
    reader                  \* per request, the handler's locals and answer

values == <<index, buffer>>
locks  == <<indexLock, bufferLock>>
vars   == <<index, buffer, indexLock, bufferLock, chain, scannedTo, writer, reader>>

IdleReader == [pc |-> "idle", start |-> 0, end |-> 0, off |-> NoOffset,
               due |-> {}, cut |-> FALSE, data |-> <<>>, size |-> 0, room |-> {}]

Init ==
    /\ index = <<>> /\ buffer = <<>>
    /\ indexLock = Free /\ bufferLock = Free
    /\ chain \in Chains
    /\ scannedTo = 0
    /\ writer = [pc |-> "idle", fork |-> 0, off |-> 0]
    /\ reader = [r \in Reader |-> IdleReader]

----------------------------------------------------------------------------
(* The indexer: the next block.                                            *)

Writing(label) == writer.pc = label
Write(label) == writer' = [writer EXCEPT !.pc = label]

NextBlock == chain[scannedTo + 1]

\* A block without Sapling transactions moves the cursor and takes no lock.
PassOver ==
    /\ Writing("idle")
    /\ scannedTo < Len(chain) /\ ShieldTxs[NextBlock] = 0
    /\ scannedTo' = scannedTo + 1
    /\ UNCHANGED <<values, locks, chain, writer, reader>>

\* The idempotency check asks for the index.
CheckIndexed ==
    /\ Writing("idle")
    /\ scannedTo < Len(chain) /\ ShieldTxs[NextBlock] > 0
    /\ indexLock' = Request(indexLock, Indexing, "read")
    /\ Write("check")
    /\ UNCHANGED <<values, bufferLock, chain, scannedTo, reader>>

\* A block that is indexed already is passed over.
Checked ==
    /\ Writing("check") /\ Holds(indexLock, Indexing)
    /\ indexLock' = Release(indexLock, Indexing)
    /\ IF HeightOf[NextBlock] \in HeightsIn(index)
       THEN Write("idle") /\ scannedTo' = scannedTo + 1
       ELSE Write("append") /\ UNCHANGED scannedTo
    /\ UNCHANGED <<values, bufferLock, chain, reader>>

\* The file is written, and its old length is the block's offset; then the
\* buffer is asked for.
AskExtend ==
    /\ Writing("append")
    /\ bufferLock' = Request(bufferLock, Indexing, "write")
    /\ writer' = [writer EXCEPT !.pc = "extend", !.off = Len(buffer)]
    /\ UNCHANGED <<values, indexLock, chain, scannedTo, reader>>

Extend ==
    /\ Writing("extend") /\ Holds(bufferLock, Indexing)
    /\ buffer' = buffer \o Encode(NextBlock, ShieldTxs[NextBlock])
    /\ bufferLock' = Release(bufferLock, Indexing)
    /\ Write("index")
    /\ UNCHANGED <<index, indexLock, chain, scannedTo, reader>>

AskAdd ==
    /\ Writing("index")
    /\ indexLock' = Request(indexLock, Indexing, "write")
    /\ Write("add")
    /\ UNCHANGED <<values, bufferLock, chain, scannedTo, reader>>

Add ==
    /\ Writing("add") /\ Holds(indexLock, Indexing)
    /\ index' = AddEntry(index, HeightOf[NextBlock], writer.off)
    /\ indexLock' = Release(indexLock, Indexing)
    /\ scannedTo' = scannedTo + 1
    /\ Write("idle")
    /\ UNCHANGED <<buffer, bufferLock, chain, reader>>

----------------------------------------------------------------------------
(* The indexer: a reorg.                                                   *)

\* The first height at which the blocks scanned are not those of c.
ForkWith(c) ==
    CHOOSE h \in 1..scannedTo :
        /\ chain[h] # c[h]
        /\ \A g \in 1..(h - 1) : chain[g] = c[g]

\* The node is on another chain with a block to scan: the index is asked for.
AskCut ==
    /\ Writing("idle")
    /\ \E c \in Chains :
         /\ Len(c) > scannedTo
         /\ \E h \in 1..scannedTo : chain[h] # c[h]
         /\ chain' = c
         /\ writer' = [writer EXCEPT !.pc = "cut", !.fork = ForkWith(c)]
    /\ indexLock' = Request(indexLock, Indexing, "write")
    /\ UNCHANGED <<values, bufferLock, scannedTo, reader>>

\* Mutant of AskCutBuffer: one lock at a time, as in the other steps.
AskCutBufferAlone ==
    /\ Writing("cut") /\ Holds(indexLock, Indexing)
    /\ indexLock' = Release(indexLock, Indexing)
    /\ bufferLock' = Request(bufferLock, Indexing, "write")
    /\ Write("truncate")
    /\ UNCHANGED <<values, chain, scannedTo, reader>>

\* With the index's lock held, the buffer's is asked for.
AskCutBuffer ==
    /\ Writing("cut") /\ Holds(indexLock, Indexing)
    /\ bufferLock' = Request(bufferLock, Indexing, "write")
    /\ Write("truncate")
    /\ UNCHANGED <<values, indexLock, chain, scannedTo, reader>>

\* Mutant of CutBuffer: the orphans' bytes stay, as they did in the incident
\* that the test reorg_truncates_cache_no_orphan_bytes records.
CutNothing(off) == buffer

CutBuffer(off) == SubSeq(buffer, 1, off)

\* With both locks held.  A reader between its two locks is caught out.
Cut ==
    LET off == OffsetForHeight(index, writer.fork)
    IN  /\ Writing("truncate") /\ Holds(bufferLock, Indexing)
        /\ IF off = NoOffset
           THEN UNCHANGED <<values, reader>>
           ELSE /\ buffer' = CutBuffer(off)
                /\ index' = RemoveFrom(index, writer.fork)
                /\ reader' = [r \in Reader |->
                     IF reader[r].pc \in {"offset", "slice"}
                     THEN [reader[r] EXCEPT !.cut = TRUE] ELSE reader[r]]
        /\ scannedTo' = writer.fork - 1
        /\ indexLock' = Release(indexLock, Indexing)
        /\ bufferLock' = Release(bufferLock, Indexing)
        /\ Write("idle")
        /\ UNCHANGED chain

----------------------------------------------------------------------------
(* get_shield_data                                                         *)

Reading(r, label) == reader[r].pc = label
Read(r, next) == reader' = [reader EXCEPT ![r] = next]
Moved(r, label) == [reader[r] EXCEPT !.pc = label]

\* Mutant of DataAsk: one consistent view, by taking the buffer's lock first
\* and the index's under it.
DataAskNested(r) ==
    /\ r \in DataReader /\ Reading(r, "idle")
    /\ \E h \in Heights :
         Read(r, [IdleReader EXCEPT !.pc = "length", !.start = h, !.end = MaxHeight])
    /\ bufferLock' = Request(bufferLock, r, "read")
    /\ UNCHANGED <<values, indexLock, chain, scannedTo, writer>>

DataAsk(r) ==
    /\ r \in DataReader /\ Reading(r, "idle")
    /\ \E h \in Heights : Read(r, [IdleReader EXCEPT !.pc = "find", !.start = h])
    /\ indexLock' = Request(indexLock, r, "read")
    /\ UNCHANGED <<values, bufferLock, chain, scannedTo, writer>>

\* The offset is taken and the index let go.  Nothing at or above the start
\* is an empty answer.
DataOffset(r) ==
    LET off == OffsetForHeight(index, reader[r].start)
        due == {h \in HeightsIn(index) : h >= reader[r].start}
    IN  /\ Reading(r, "find") /\ Holds(indexLock, r)
        /\ indexLock' = Release(indexLock, r)
        /\ IF off = NoOffset
           THEN Read(r, [Moved(r, "data") EXCEPT !.due = due])
           ELSE Read(r, [Moved(r, "offset") EXCEPT !.due = due, !.off = off])
        /\ UNCHANGED <<values, bufferLock, chain, scannedTo, writer>>

DataAskBuffer(r) ==
    /\ Reading(r, "offset")
    /\ bufferLock' = Request(bufferLock, r, "read")
    /\ Read(r, Moved(r, "slice"))
    /\ UNCHANGED <<values, indexLock, chain, scannedTo, writer>>

\* Everything from the offset on; nothing if the buffer no longer reaches it.
DataSlice(r) ==
    /\ Reading(r, "slice") /\ Holds(bufferLock, r)
    /\ bufferLock' = Release(bufferLock, r)
    /\ Read(r, [Moved(r, "data") EXCEPT
                  !.data = SubSeq(buffer, reader[r].off + 1, Len(buffer))])
    /\ UNCHANGED <<values, indexLock, chain, scannedTo, writer>>

----------------------------------------------------------------------------
(* get_shield_data_length                                                  *)

LengthAsk(r) ==
    /\ r \in LengthReader /\ Reading(r, "idle")
    /\ \E h \in Heights, g \in Heights :
         /\ h <= g
         /\ Read(r, [IdleReader EXCEPT !.pc = "length", !.start = h, !.end = g])
    /\ bufferLock' = Request(bufferLock, r, "read")
    /\ UNCHANGED <<values, indexLock, chain, scannedTo, writer>>

\* With the buffer's lock held, the index's is asked for.
LengthAskIndex(r) ==
    /\ Reading(r, "length") /\ Holds(bufferLock, r)
    /\ indexLock' = Request(indexLock, r, "read")
    /\ Read(r, Moved(r, "measure"))
    /\ UNCHANGED <<values, bufferLock, chain, scannedTo, writer>>

\* Mutant of ByteLengthBetween: the block at the end height is left out.
ByteLengthBelow(start, end) ==
    LET offset(h) == IF OffsetForHeight(index, h) = NoOffset
                     THEN Len(buffer) ELSE OffsetForHeight(index, h)
    IN  IF offset(end) > offset(start) THEN offset(end) - offset(start) ELSE 0

\* byte_length_between, counted in packets.
ByteLengthBetween(start, end) ==
    LET offset(h) == IF OffsetForHeight(index, h) = NoOffset
                     THEN Len(buffer) ELSE OffsetForHeight(index, h)
    IN  IF offset(end + 1) > offset(start) THEN offset(end + 1) - offset(start) ELSE 0

\* due is the blocks asked for that are indexed, and room the packets of the
\* blocks asked for that are in the buffer.
LengthMeasure(r) ==
    LET start == reader[r].start
        end   == reader[r].end
    IN  /\ Reading(r, "measure") /\ Holds(indexLock, r)
        /\ Read(r, [Moved(r, "size") EXCEPT
                      !.size = ByteLengthBetween(start, end),
                      !.due  = HeightsIn(index) \cap start..end,
                      !.room = {buffer[p] : p \in
                                  {q \in 1..Len(buffer) :
                                     HeightOf[buffer[q][1]] \in start..end}}])
        /\ indexLock' = Release(indexLock, r)
        /\ bufferLock' = Release(bufferLock, r)
        /\ UNCHANGED <<values, chain, scannedTo, writer>>

\* The response is sent and the request is over.
Respond(r) ==
    /\ reader[r].pc \in {"data", "size"}
    /\ Read(r, IdleReader)
    /\ UNCHANGED <<values, locks, chain, scannedTo, writer>>

----------------------------------------------------------------------------

\* What a pass does once it has begun with a block or a cut.
WriterStep ==
    \/ Checked \/ AskExtend \/ Extend \/ AskAdd \/ Add
    \/ AskCutBuffer \/ Cut

\* What a handler does once it has been called.
ReaderStep(r) ==
    \/ DataOffset(r) \/ DataAskBuffer(r) \/ DataSlice(r)
    \/ LengthAskIndex(r) \/ LengthMeasure(r) \/ Respond(r)

Next ==
    \/ PassOver \/ CheckIndexed \/ AskCut \/ WriterStep
    \/ \E r \in Reader : DataAsk(r) \/ LengthAsk(r) \/ ReaderStep(r)

Spec == Init /\ [][Next]_vars

\* A task that can go on does: the runtime polls it when its lock is granted.
FairSpec ==
    /\ Spec
    /\ WF_vars(WriterStep)
    /\ \A r \in Reader : WF_vars(ReaderStep(r))

----------------------------------------------------------------------------
(* Properties.                                                             *)

\* s is whole blocks in ascending order of height, none twice.
WholeBlocks(s) ==
    /\ s # <<>> => s[1][2] = 1 /\ s[Len(s)][2] = 0
    /\ \A p \in 1..(Len(s) - 1) :
         LET b == s[p][1]
             j == s[p][2]
         IN  IF j = 0
             THEN s[p + 1][2] = 1 /\ HeightOf[s[p + 1][1]] > HeightOf[b]
             ELSE s[p + 1] = <<b, IF j < ShieldTxs[b] THEN j + 1 ELSE 0>>

\* A response of get_shield_data is whole blocks, ascending, whatever the
\* indexer is doing.
ServedWhole == \A r \in Reader : WholeBlocks(reader[r].data)

\* It is if no reorg cut the store between the handler's two locks: appends,
\* and cuts before and after, do no harm.
WholeUnlessCut ==
    \A r \in Reader : ~reader[r].cut => WholeBlocks(reader[r].data)

\* And it then holds every block from the start height on that was indexed
\* when the handler looked, and none from below it.
CompleteUnlessCut ==
    \A r \in Reader : Reading(r, "data") /\ ~reader[r].cut =>
      LET served == {HeightOf[reader[r].data[p][1]] : p \in 1..Len(reader[r].data)}
      IN  /\ reader[r].due \subseteq served
          /\ \A h \in served : h >= reader[r].start

\* The length announced for a range of heights is no less than what the buffer
\* holds of the blocks of that range that are indexed.  It may be more: a block
\* that is in the buffer and not in the index yet counts into the last one.
LengthCoversIndexed ==
    \A r \in Reader : Reading(r, "size") =>
        Cardinality({p \in reader[r].room : HeightOf[p[1]] \in reader[r].due})
          <= reader[r].size

\* The indexer changes the index or the buffer with no handler in that value's
\* lock, cuts with both locks held, and a length is measured under both: no one
\* reads the one value from before a cut and the other from after it.
StoreGuarded ==
    /\ \A r \in Reader :
         /\ writer.pc \in {"add", "cut", "truncate"} /\ Holds(indexLock, Indexing) =>
              ~Holds(indexLock, r)
         /\ Holds(bufferLock, Indexing) => ~Holds(bufferLock, r)
         /\ Reading(r, "measure") => Holds(bufferLock, r)
    /\ Writing("truncate") => Holds(indexLock, Indexing)

\* A pass that has begun to store or to cut comes to its end.
PassEnds == writer.pc # "idle" ~> writer.pc = "idle"

\* As long as nobody asks for a length, every request for the stream is
\* answered and every pass ends: no one waits for ever.
EveryoneServed ==
    [](\A r \in LengthReader : Reading(r, "idle")) =>
      /\ PassEnds
      /\ \A r \in Reader : reader[r].pc # "idle" ~> reader[r].pc = "idle"
=============================================================================
