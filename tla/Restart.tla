------------------------------ MODULE Restart ------------------------------
(***************************************************************************)
(* Stopping and starting: init_network of src/main.rs with what it calls   *)
(* (load_or_create, recover_cache, ScanCursor::load, find_fork_point_via_  *)
(* rpc, scanner::scan_range), in front of the live indexer of module       *)
(* Indexer.  The program may stop at any step, also in the middle of a     *)
(* write; shield.bin, the saved index and the saved cursor stay, all else  *)
(* is gone.  While it starts, lastScanned, lastHash, index and cache stand *)
(* for the locals scan_cursor, shield_index and block_cache.               *)
(***************************************************************************)
EXTENDS Indexer

CONSTANTS
    MaxStops,       \* bound on how often the program stops
    AbruptStops,    \* it may stop anywhere, or only between passes
    Reorgs          \* the node may leave a chain, or only extend it

\* With every save done, resume is what the saved cursor stands for.
ASSUME RestartAssumption ==
    /\ MaxStops \in Nat
    /\ AbruptStops \in BOOLEAN /\ Reorgs \in BOOLEAN
    /\ "save" \notin DiskFaults

VARIABLES
    boot,       \* the locals of init_network
    stops,      \* how often the program has stopped
    resume      \* history: the block scanned at each height a start resumes
                \* behind, NoBlock where none was

allvars == <<vars, boot, stops, resume>>

Down == [pc |-> "down", at |-> 0, seen |-> NoBlock, found |-> <<>>]

EmptyCache == [h2h |-> [h \in Heights |-> NoBlock], entries |-> {}]

NoCursor == [height |-> 0, hash |-> NoBlock]    \* ScanCursor::default

RestartInit ==
    /\ chain \in Chains
    /\ indexing = FALSE /\ chainHeight = 0
    /\ lastScanned = 0 /\ lastHash = NoBlock
    /\ index = <<>> /\ buffer = <<>> /\ cache = EmptyCache
    /\ inflight = NoRequest
    /\ pass = [w \in Worker |-> IdlePass]
    /\ boot = Down
    /\ file = <<>> /\ diskIndex = <<>> /\ diskCursor = NoCursor
    /\ scanned = <<>> /\ resume = <<>> /\ stops = 0

----------------------------------------------------------------------------
(* Stopping.                                                               *)

\* Mutant of Batch: the offset does not move on from block to block.
BatchAtStart(idx, f, found) ==
    LET after[n \in 0..Len(found)] ==
          IF n = 0 THEN [index |-> idx, file |-> f]
          ELSE [ index |-> AddEntry(after[n - 1].index, HeightOf[found[n]], Len(f)),
                 file  |-> after[n - 1].file \o Encode(found[n], ShieldTxs[found[n]]) ]
    IN  after[Len(found)]

\* append_blocks for a batch, and an index entry for each block at the offset
\* it was written at.
Batch(idx, f, found) ==
    LET after[n \in 0..Len(found)] ==
          IF n = 0 THEN [index |-> idx, file |-> f]
          ELSE [ index |-> AddEntry(after[n - 1].index, HeightOf[found[n]],
                                    Len(after[n - 1].file)),
                 file  |-> after[n - 1].file \o Encode(found[n], ShieldTxs[found[n]]) ]
    IN  after[Len(found)]

EncodeAll(found) == Batch(<<>>, <<>>, found).file

\* The bytes of the append that is under way.
BeingWritten ==
    IF boot.pc = "append" THEN EncodeAll(boot.found)
    ELSE IF /\ Somewhere({"decoded"}) /\ pass[Running].got > 0
            /\ HeightOf[pass[Running].seen] \notin HeightsIn(index)
    THEN Encode(pass[Running].seen, pass[Running].got)
    ELSE <<>>

\* All memory is lost; the last append may be left in part.
Stop ==
    /\ stops < MaxStops /\ boot.pc # "down"
    /\ AbruptStops \/ (boot.pc = "live" /\ ~indexing)
    /\ \E k \in 0..Len(BeingWritten) : file' = file \o SubSeq(BeingWritten, 1, k)
    /\ indexing' = FALSE /\ chainHeight' = 0
    /\ lastScanned' = 0 /\ lastHash' = NoBlock
    /\ index' = <<>> /\ buffer' = <<>> /\ cache' = EmptyCache
    /\ inflight' = NoRequest
    /\ pass' = [w \in Worker |-> IdlePass]
    /\ boot' = Down
    /\ scanned' = resume
    /\ stops' = stops + 1
    /\ UNCHANGED <<chain, diskIndex, diskCursor, resume>>

----------------------------------------------------------------------------
(* Starting: what is on disk.                                              *)

Booting(label) == boot.pc = label
BootTo(label) == boot' = [boot EXCEPT !.pc = label]

Footers(f) == {p \in 1..Len(f) : f[p][1] # NoBlock /\ f[p][2] = 0}

LastOf(S) == CHOOSE x \in S : \A y \in S : y <= x

\* Mutant of RecoverCache: cuts at the footer before the last.
RecoverToPrevious(f) ==
    IF Cardinality(Footers(f)) < 2 THEN f
    ELSE SubSeq(f, 1, LastOf(Footers(f) \ {LastOf(Footers(f))}))

\* recover_cache: cut behind the last footer; without one, nothing is cut.
RecoverCache(f) == IF Footers(f) = {} THEN f ELSE SubSeq(f, 1, LastOf(Footers(f)))

\* getblockcount, then index, shield.bin and cursor are opened.  Without a
\* node the program stays down.  An index that does not parse would count as
\* an empty one; saves replace the file as a whole, so that there is none.
Connect ==
    /\ Booting("down")
    /\ chainHeight' = Len(chain)
    /\ index' = diskIndex
    /\ file' = RecoverCache(file)
    /\ lastScanned' = diskCursor.height
    /\ lastHash' = diskCursor.hash
    /\ BootTo("check")
    /\ UNCHANGED <<node, indexing, buffer, cache, diskIndex, diskCursor, pass,
                   scanned, stops, resume>>

\* find_fork_point_via_rpc: above the last indexed block below the cursor.
ForkViaRpc == LastOf({h \in HeightsIn(index) : h < lastScanned} \cup {0}) + 1

\* The cursor's hash against the node's; an error counts as agreement.
CheckHash ==
    /\ Booting("check")
    /\ IF lastHash = NoBlock \/ lastScanned = 0
       THEN BootTo("from")
       ELSE \E hash \in HashAnswers(lastScanned) :
              IF hash \in {NoBlock, lastHash}
              THEN BootTo("from")
              ELSE boot' = [boot EXCEPT !.pc = "cut", !.at = ForkViaRpc]
    /\ UNCHANGED <<node, indexing, chainHeight, cursor, store, cache, pass,
                   stops, resume>>

\* Mutant of CutFile: the offset is looked up once the index has been cut.
CutFileAfterIndex ==
    LET kept == RemoveFrom(index, boot.at)
        off  == OffsetForHeight(kept, boot.at)
    IN  /\ Booting("cut")
        /\ file' = IF off = NoOffset THEN file ELSE SetLen(file, off)
        /\ index' = kept
        /\ BootTo("saveindex")
        /\ UNCHANGED <<node, indexing, chainHeight, cursor, buffer, diskIndex,
                       cache, pass, stops, resume>>

\* A file that cannot be cut is warned about; the index is cut all the same.
CutFile ==
    LET off == OffsetForHeight(index, boot.at)
    IN  /\ Booting("cut")
        /\ file' \in (IF off = NoOffset THEN {file} ELSE {SetLen(file, off)})
                       \cup (IF MayFail("truncate") THEN {file} ELSE {})
        /\ index' = RemoveFrom(index, boot.at)
        /\ BootTo("saveindex")
        /\ UNCHANGED <<node, indexing, chainHeight, cursor, buffer, diskIndex,
                       cache, pass, stops, resume>>

CutIndex ==
    /\ Booting("saveindex")
    /\ diskIndex' = index
    /\ BootTo("savecursor")
    /\ UNCHANGED <<node, indexing, chainHeight, cursor, index, buffer, file,
                   cache, pass, stops, resume>>

CutCursor ==
    /\ Booting("savecursor")
    /\ lastScanned' = boot.at - 1
    /\ lastHash' = NoBlock
    /\ diskCursor' = [height |-> boot.at - 1, hash |-> NoBlock]
    /\ scanned' = SubSeq(scanned, 1, boot.at - 1)
    /\ resume' = scanned'
    /\ BootTo("from")
    /\ UNCHANGED <<node, indexing, chainHeight, store, cache, pass, stops>>

----------------------------------------------------------------------------
(* Starting: the blocks that are missing.                                  *)

LastHeight(idx) == IF idx = <<>> THEN 0 ELSE idx[Len(idx)].block

\* Without a cursor above the first height to scan, the index tells.
ScanFrom == IF lastScanned > 0 THEN lastScanned + 1 ELSE LastHeight(index) + 1

\* The range, and the hash of its first block.  An error ends the scan, but
\* not the start.
BeginScan ==
    /\ Booting("from")
    /\ IF ScanFrom > chainHeight
       THEN BootTo("cursor")
       ELSE \E hash \in HashAnswers(ScanFrom) :
              IF hash = NoBlock
              THEN BootTo("cursor")
              ELSE boot' = [boot EXCEPT !.pc = "scan", !.at = ScanFrom, !.seen = hash]
    /\ UNCHANGED <<node, indexing, chainHeight, cursor, store, cache, pass,
                   stops, resume>>

\* After the range's last block the batch is written.  A block of the node's
\* chain names its successor; any other sends scan_range to getblockhash.
ScanOn(found) ==
    LET h    == boot.at
        next == IF NodeHash(h) = boot.seen THEN NodeHash(h + 1) ELSE NoBlock
    IN  boot' = IF h = chainHeight
                THEN [boot EXCEPT !.pc = "append", !.found = found]
                ELSE IF next = NoBlock
                THEN [boot EXCEPT !.pc = "next", !.found = found]
                ELSE [boot EXCEPT !.at = h + 1, !.seen = next, !.found = found]

ScanBlock ==
    LET b == boot.seen
    IN  /\ Booting("scan")
        /\ cache' = Insert(cache, b, 2)
        /\ scanned' = Append(scanned, b)
        /\ ScanOn(IF ShieldTxs[b] > 0 THEN Append(boot.found, b) ELSE boot.found)
        /\ UNCHANGED <<node, indexing, chainHeight, lastScanned, lastHash,
                       diskCursor, store, pass, stops, resume>>

\* A block that getblock fails on is skipped.
SkipBlock ==
    /\ Booting("scan") /\ RpcMayFail
    /\ scanned' = Append(scanned, NoBlock)
    /\ BootTo(IF boot.at = chainHeight THEN "append" ELSE "next")
    /\ UNCHANGED <<node, indexing, chainHeight, lastScanned, lastHash,
                   diskCursor, store, cache, pass, stops, resume>>

\* getblockhash for the next height; an error ends the scan with what it has.
NextHash ==
    /\ Booting("next")
    /\ \E hash \in HashAnswers(boot.at + 1) :
         boot' = IF hash = NoBlock THEN [boot EXCEPT !.pc = "append"]
                 ELSE [boot EXCEPT !.pc = "scan", !.at = boot.at + 1, !.seen = hash]
    /\ UNCHANGED <<node, indexing, chainHeight, cursor, store, cache, pass,
                   stops, resume>>

\* The whole batch, whatever of it is in the file already.  A write that
\* fails leaves any part of the batch behind and is not retried.
AppendBatch ==
    LET bytes   == EncodeAll(boot.found)
        written == Batch(index, file, boot.found)
    IN  /\ Booting("append")
        /\ \/ /\ file' = written.file
              /\ index' = written.index
              /\ BootTo("save")
           \/ /\ MayFail("append")
              /\ \E k \in 0..Len(bytes) : file' = file \o SubSeq(bytes, 1, k)
              /\ BootTo("cursor")
              /\ UNCHANGED index
        /\ UNCHANGED <<node, indexing, chainHeight, cursor, buffer, diskIndex,
                       cache, pass, stops, resume>>

\* What a start resumes behind once the given index is saved: without a
\* cursor, the index's last block.
ResumeByIndex(idx, blocks) ==
    IF diskCursor.height = 0 THEN SubSeq(blocks, 1, LastHeight(idx)) ELSE resume

\* Mutant of SaveBatch: the index is left to the live indexer to save.
SaveBatchLater ==
    /\ Booting("save")
    /\ BootTo("cursor")
    /\ UNCHANGED <<node, indexing, chainHeight, cursor, store, cache, pass, stops,
                   resume>>

SaveBatch ==
    /\ Booting("save")
    /\ diskIndex' = index
    /\ resume' = ResumeByIndex(index, scanned)
    /\ BootTo("cursor")
    /\ UNCHANGED <<node, indexing, chainHeight, cursor, index, buffer, file,
                   cache, pass, stops>>

\* The cursor is set to the chain's height, whatever came of the scan.
SaveCursor ==
    /\ Booting("cursor")
    /\ \E hash \in HashAnswers(chainHeight) :
         lastHash' = IF hash = NoBlock THEN lastHash ELSE hash
    /\ lastScanned' = chainHeight
    /\ diskCursor' = [height |-> chainHeight, hash |-> lastHash']
    /\ scanned' = [h \in 1..chainHeight |->
                     IF h <= Len(scanned) THEN scanned[h] ELSE NoBlock]
    /\ resume' = scanned'
    /\ BootTo("load")
    /\ UNCHANGED <<node, indexing, chainHeight, store, cache, pass, stops>>

\* shield.bin is read into memory, and the program serves and indexes.
Load ==
    /\ Booting("load")
    /\ buffer' = file
    /\ boot' = [Down EXCEPT !.pc = "live"]
    /\ UNCHANGED <<node, indexing, chainHeight, cursor, index, file, diskIndex,
                   cache, pass, stops, resume>>

----------------------------------------------------------------------------

BootStep ==
    \/ Connect \/ CheckHash \/ CutFile \/ CutIndex \/ CutCursor
    \/ BeginScan \/ ScanBlock \/ SkipBlock \/ NextHash
    \/ AppendBatch \/ SaveBatch \/ SaveCursor \/ Load

\* A step of the live indexer.  The proxy's are left out: a request is not
\* served before the start has ended, and what one may put into the cache
\* then is Indexer's and Proxy's.
LiveStep ==
    /\ Booting("live")
    /\ \E w \in Worker : Enter(w) \/ PassStep(w)
    /\ resume' = IF pass' # pass /\ Somewhere({"rewind", "advance", "cursor"})
                 THEN scanned'
                 ELSE IF diskIndex' # diskIndex
                 THEN ResumeByIndex(diskIndex', Synced')
                 ELSE resume
    /\ UNCHANGED <<boot, stops>>

\* The node's chain grows, or gives way to one that is no shorter.
NodeMoves ==
    /\ NodeStep
    /\ MidPassReorg \/ boot.pc \in {"down", "live"}
    /\ Len(chain') >= Len(chain)
    /\ Reorgs \/ SubSeq(chain', 1, Len(chain)) = chain
    /\ UNCHANGED <<boot, stops, resume>>

RestartNext == BootStep \/ LiveStep \/ NodeMoves \/ Stop

RestartSpec == RestartInit /\ [][RestartNext]_allvars

----------------------------------------------------------------------------
(* Properties.                                                             *)

\* Whenever the program stops, every height the next start resumes behind has
\* been scanned, and if its block holds Sapling transactions the saved index
\* has it: no crash makes the bridge skip a block.
CursorBacked == Booting("down") =>
    \A h \in 1..Len(resume) :
        /\ resume[h] # NoBlock
        /\ ShieldTxs[resume[h]] > 0 => h \in HeightsIn(diskIndex)

\* f holds a whole block of height e.block at e.i.
Backs(f, e) ==
    /\ e.i < Len(f) /\ f[e.i + 1][1] # NoBlock
    /\ LET b    == f[e.i + 1][1]
           last == e.i + ShieldTxs[b] + 1
       IN  /\ HeightOf[b] = e.block
           /\ last <= Len(f)
           /\ SubSeq(f, e.i + 1, last) = Encode(b, ShieldTxs[b])

\* Whenever the program stops, each entry of the saved index names a whole
\* block of its height in shield.bin: append before index, index before
\* cursor, and a recovery that cuts no block that is complete.
SavedIndexBacked == Booting("down") =>
    \A k \in 1..Len(diskIndex) : Backs(file, diskIndex[k])

\* After a start the stream served to wallets is cut by the index into whole
\* blocks of ascending height, none twice.
ServesWellFormed == Booting("live") => StreamWellFormed

\* No block is in that stream twice, wherever the program was stopped.
NoDuplicateAppend == Booting("live") =>
    \A p, q \in Footers(buffer) : buffer[p] = buffer[q] => p = q

\* recover_cache leaves no part of a block at the end of shield.bin.
RecoveredWhole == Booting("check") => file = <<>> \/ Len(file) \in Footers(file)

\* When the saved cursor's block has left the node's chain, the start cuts at
\* or below the first block scanned that has left it.
RestartForkSound == Booting("cut") =>
    \A h \in 1..Len(scanned) : h < boot.at => scanned[h] = NodeHash(h)

\* The hash saved with the cursor is the hash of the block scanned last, so
\* that the next start compares that block with the node's.
CursorNamesScanned == Booting("down") /\ resume # <<>> =>
    diskCursor.hash \in {NoBlock, resume[Len(resume)]}
=============================================================================
