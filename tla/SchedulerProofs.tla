--------------------------- MODULE SchedulerProofs ---------------------------
(* The scheduled program is an indexer: whatever the tasks' messages and    *)
(* timers make of it, module Indexer's theorems hold of it.                 *)
EXTENDS Scheduler, IndexerLogProofs

\* Every step of the listener is a task's entry into a pass, or none of the
\* indexer's business.
LEMMA ListenerRefines == ListenerStep => [Next]_vars
<1>. SUFFICES ASSUME ListenerStep PROVE [Next]_vars
  OBVIOUS
<1>1. Listener \in Worker
  BY SchedulerAssumption
<1>2. CASE ListenerEnters
  BY <1>1, <1>2 DEF ListenerEnters, Next
<1>3. CASE ListenerTurnedAway
  BY <1>3 DEF ListenerTurnedAway, TurnedAway
<1>4. CASE Subscribe \/ SubscribeFails \/ Hear \/ Disconnect \/ StreamEnds
  BY <1>4 DEF Subscribe, SubscribeFails, Hear, Disconnect, StreamEnds
<1>. QED  BY <1>2, <1>3, <1>4 DEF ListenerStep

\* And every step of the poller.
LEMMA PollerRefines == PollerStep => [Next]_vars
<1>. SUFFICES ASSUME PollerStep PROVE [Next]_vars
  OBVIOUS
<1>1. Poller \in Worker
  BY SchedulerAssumption
<1>2. CASE PollerEnters
  BY <1>1, <1>2 DEF PollerEnters, Next
<1>3. CASE PollerTurnedAway
  BY <1>3 DEF PollerTurnedAway, TurnedAway
<1>4. CASE Wake \/ PollHash \/ PollNext \/ PollCount
  BY <1>4 DEF Wake, PollHash, PollNext, PollCount
<1>. QED  BY <1>2, <1>3, <1>4 DEF PollerStep

\* The composition of listener, poller, passes and node is a behaviour of the
\* indexer whose tasks may enter a pass at any time: what holds of every
\* indexer holds of the scheduled one.
THEOREM ScheduledIndexer == SchedSpec => Spec
<1>1. SchedInit => Init
  BY DEF SchedInit
<1>2. [SchedNext]_schedvars => [Next]_vars
  <2>. SUFFICES ASSUME [SchedNext]_schedvars PROVE [Next]_vars
    OBVIOUS
  <2>1. CASE ListenerStep
    BY <2>1, ListenerRefines
  <2>2. CASE PollerStep
    BY <2>2, PollerRefines
  <2>3. CASE \E w \in Worker : SchedPass(w)
    BY <2>3 DEF SchedPass, Next
  <2>4. CASE NodeMoves
    BY <2>4 DEF NodeMoves, Next
  <2>5. CASE UNCHANGED schedvars
    BY <2>5 DEF schedvars
  <2>. QED  BY <2>1, <2>2, <2>3, <2>4, <2>5 DEF SchedNext
<1>. QED  BY <1>1, <1>2, PTL DEF SchedSpec, Spec

----------------------------------------------------------------------------
(* Types.                                                                  *)

LEMMA SchedTypeInit == SchedInit => SchedTypeOK
<1>. SUFFICES ASSUME SchedInit PROVE SchedTypeOK
  OBVIOUS
<1>1. TypeOK
  <2>1. Shape /\ scanned = InitChain
    BY InitInv DEF SchedInit, Inv, Init
  <2>2. scanned \in Seq(Block)
    BY <2>1, IndexerAssumption, ChainAssumption
  <2>. QED  BY <2>1, <2>2 DEF Shape, TypeOK
<1>2. messages \in 0..MaxMessages
  BY SchedulerAssumption DEF SchedInit
<1>. QED  BY <1>1, <1>2 DEF SchedInit, SchedTypeOK, Asleep

\* The tasks' own variables keep their types; the rest are the indexer's.
LEMMA SchedTypeNext ==
    ASSUME TypeOK, TypeOK', SchedTypeOK, [SchedNext]_schedvars
    PROVE  SchedTypeOK'
<1>1. MaxMessages \in Nat /\ Asleep \in [ pc   : {"asleep", "hash", "next", "count", "call"},
                                          from : Nat,
                                          hash : Block \cup {NoBlock} ]
  BY SchedulerAssumption DEF Asleep
<1>2. lastScanned \in Nat /\ poller.from \in Nat
  BY DEF TypeOK, SchedTypeOK
<1>3. NodeHash(poller.from) \in Block \cup {NoBlock}
  BY <1>2, NodeHashType, SMTT(30) DEF TypeOK
<1>4. CASE ListenerStep
  <2>1. UNCHANGED poller /\ zmqActive' \in BOOLEAN
    BY <1>4 DEF SchedTypeOK, ListenerStep, Subscribe, SubscribeFails, Hear,
       ListenerEnters, ListenerTurnedAway, Disconnect, StreamEnds
  <2>2. messages' \in 0..MaxMessages
    BY <1>1, <1>4 DEF SchedTypeOK, ListenerStep, Subscribe, SubscribeFails, Hear,
       ListenerEnters, ListenerTurnedAway, Disconnect, StreamEnds
  <2>3. listener' \in {"subscribe", "listen", "call"} /\ missed' \in BOOLEAN
    BY <1>4, Zenon DEF SchedTypeOK, ListenerStep, Subscribe, SubscribeFails, Hear,
       ListenerEnters, ListenerTurnedAway, Disconnect, StreamEnds
  <2>. QED  BY <2>1, <2>2, <2>3 DEF SchedTypeOK
<1>5. CASE Wake
  BY <1>2, <1>5 DEF SchedTypeOK, Wake, Asleep
<1>6. CASE PollHash \/ PollNext \/ PollCount
  BY <1>1, <1>3, <1>6 DEF SchedTypeOK, PollHash, PollNext, PollCount, GiveUp
<1>7. CASE PollerEnters \/ PollerTurnedAway
  BY <1>1, <1>7 DEF SchedTypeOK, PollerEnters, PollerTurnedAway, GiveUp
<1>8. CASE \E w \in Worker : SchedPass(w)
  BY <1>8 DEF SchedTypeOK, SchedPass
<1>9. CASE NodeMoves
  <2>1. messages' \in 0..MaxMessages
    BY <1>1, <1>9 DEF SchedTypeOK, NodeMoves
  <2>2. missed' \in BOOLEAN /\ UNCHANGED <<zmqActive, listener, poller>>
    BY <1>9, Zenon DEF SchedTypeOK, NodeMoves
  <2>. QED  BY <2>1, <2>2 DEF SchedTypeOK
<1>10. CASE UNCHANGED schedvars
  BY <1>10 DEF SchedTypeOK, schedvars, sched
<1>. QED
  BY <1>4, <1>5, <1>6, <1>7, <1>8, <1>9, <1>10 DEF SchedNext, PollerStep

\* Listener, poller and the history of what was missed keep their types.
THEOREM SchedTypeCorrect == SchedSpec => []SchedTypeOK
<1>. QED
  BY SchedTypeInit, SchedTypeNext, ScheduledIndexer, TypeCorrect, PTL DEF SchedSpec

----------------------------------------------------------------------------
(* What was heard is scanned, when RPCs and appends succeed.               *)

Reliable == ~RpcMayFail /\ "append" \notin DiskFaults

\* Every move of the node is either behind the last count, or was heard.
Heard == ~missed /\ messages = 0 /\ listener # "call"

Closing == {"exit", "cursor", "leave"}

\* A pass behind its count has the node's height before it, and one that is
\* closing has reached it.  An append under way has its offset.
CoverInv ==
    /\ \A w \in Worker :
         /\ pass[w].pc \in {"extend", "add"} => pass[w].off # NoOffset
         /\ Heard /\ pass[w].pc \notin {"idle", "count"} => chainHeight = Len(chain)
         /\ Heard /\ pass[w].pc \in Closing => lastScanned >= Len(chain)
    /\ Heard /\ (\A w \in Worker : pass[w].pc = "idle") => lastScanned >= Len(chain)

\* A step inside w's pass, behind its count.
LEMMA CoverKept ==
    ASSUME Inv, CoverInv, NEW w \in Worker, pass[w].pc \notin {"idle", "count"},
           \A v \in Worker : v # w => pass'[v] = pass[v],
           pass'[w].pc \notin {"idle", "count"},
           pass'[w].pc \in {"extend", "add"} => pass'[w].off # NoOffset,
           Heard /\ pass'[w].pc \in Closing => lastScanned' >= Len(chain),
           Heard' => Heard, UNCHANGED <<chain, chainHeight>>
    PROVE  CoverInv'
<1>1. \A v \in Worker : v # w => pass'[v].pc = "idle"
  BY Alone
<1>. QED  BY <1>1 DEF CoverInv, Closing

\* Where a step goes, for every way a step is written.
LEMMA StepTargets ==
    ASSUME pass \in [Worker -> Pass], NEW w \in Worker, NEW label \in PC
    PROVE  /\ Goto(w, label) =>
                /\ pass'[w].pc = label /\ pass'[w].off = pass[w].off
                /\ \A v \in Worker : v # w => pass'[v] = pass[v]
           /\ \A h : GotoAt(w, label, h) =>
                pass'[w].pc = label /\ \A v \in Worker : v # w => pass'[v] = pass[v]
           /\ \A h, b : GotoSeeing(w, label, h, b) =>
                pass'[w].pc = label /\ \A v \in Worker : v # w => pass'[v] = pass[v]
           /\ \A n : Step(w, [pass[w] EXCEPT !.pc = label, !.got = n]) =>
                pass'[w].pc = label /\ \A v \in Worker : v # w => pass'[v] = pass[v]
           /\ \A d : Step(w, [pass[w] EXCEPT !.pc = label, !.dirty = d]) =>
                pass'[w].pc = label /\ \A v \in Worker : v # w => pass'[v] = pass[v]
           /\ \A o : Step(w, [pass[w] EXCEPT !.pc = label, !.off = o]) =>
                /\ pass'[w].pc = label /\ pass'[w].off = o
                /\ \A v \in Worker : v # w => pass'[v] = pass[v]
<1>1. ASSUME Goto(w, label)
      PROVE  /\ pass'[w].off = pass[w].off
             /\ pass'[w].pc = label
             /\ \A v \in Worker : v # w => pass'[v] = pass[v]
  BY <1>1 DEF Goto, Step, Pass
<1>2. ASSUME NEW h, GotoAt(w, label, h)
      PROVE  pass'[w].pc = label /\ \A v \in Worker : v # w => pass'[v] = pass[v]
  BY <1>2 DEF GotoAt, Step, Pass
<1>3. ASSUME NEW h, NEW b, GotoSeeing(w, label, h, b)
      PROVE  pass'[w].pc = label /\ \A v \in Worker : v # w => pass'[v] = pass[v]
  BY <1>3 DEF GotoSeeing, Step, Pass
<1>4. ASSUME NEW n, Step(w, [pass[w] EXCEPT !.pc = label, !.got = n])
      PROVE  pass'[w].pc = label /\ \A v \in Worker : v # w => pass'[v] = pass[v]
  BY <1>4 DEF Step, Pass
<1>5. ASSUME NEW d, Step(w, [pass[w] EXCEPT !.pc = label, !.dirty = d])
      PROVE  pass'[w].pc = label /\ \A v \in Worker : v # w => pass'[v] = pass[v]
  BY <1>5 DEF Step, Pass
<1>6. ASSUME NEW o, Step(w, [pass[w] EXCEPT !.pc = label, !.off = o])
      PROVE  /\ pass'[w].off = o
             /\ pass'[w].pc = label
             /\ \A v \in Worker : v # w => pass'[v] = pass[v]
  BY <1>6 DEF Step, Pass
<1>. QED  BY <1>1, <1>2, <1>3, <1>4, <1>5, <1>6

\* The steps between the count and the end of the loop neither end the pass
\* nor begin an append.
LEMMA MiddleSteps ==
    ASSUME Inv, Reliable, NEW w \in Worker,
           \/ Probe(w) \/ Detect(w) \/ FindFork(w) \/ Invalidate(w) \/ Truncate(w)
           \/ SaveTrimmedIndex(w) \/ Rewind(w) \/ Fetch(w) \/ CachePut(w)
           \/ AdvanceEmpty(w) \/ Advance(w)
    PROVE  /\ pass'[w].pc \notin {"idle", "count", "extend", "add"} \cup Closing
           /\ pass[w].pc \notin {"idle", "count"}
           /\ \A v \in Worker : v # w => pass'[v] = pass[v]
           /\ UNCHANGED <<chain, chainHeight>>
<1>1. pass \in [Worker -> Pass]
  BY DEF Inv, Shape
<1>2. /\ {"target", "detect", "fork", "invalidate", "truncate", "saveindex",
          "rewind", "decoded", "cacheput"} \subseteq PC
      /\ \A l \in {"target", "detect", "fork", "invalidate", "truncate", "saveindex",
                   "rewind", "decoded", "cacheput"} :
            l \notin {"idle", "count", "extend", "add"} \cup Closing
  BY DEF PC, Closing
<1>3. CASE Probe(w)
  BY <1>1, <1>2, <1>3, StepTargets, ZenonT(40) DEF Probe, At, node
<1>4. CASE Detect(w)
  BY <1>1, <1>2, <1>4, StepTargets DEF Detect, At, node
<1>5. CASE FindFork(w)
  BY <1>1, <1>2, <1>5, StepTargets DEF FindFork, At, node
<1>6. CASE Invalidate(w)
  BY <1>1, <1>2, <1>6, StepTargets DEF Invalidate, At, node
<1>7. CASE Truncate(w)
  BY <1>1, <1>2, <1>7, StepTargets DEF Truncate, At, node
<1>8. CASE SaveTrimmedIndex(w)
  BY <1>1, <1>2, <1>8, StepTargets DEF SaveTrimmedIndex, At, node
<1>9. CASE Rewind(w)
  BY <1>1, <1>2, <1>9, StepTargets DEF Rewind, At, node
<1>10. CASE Fetch(w)
  <2>1. \/ \E n : Step(w, [pass[w] EXCEPT !.pc = "decoded", !.got = n])
        \/ \E n : Step(w, [pass[w] EXCEPT !.pc = "cacheput", !.got = n])
    BY <1>10 DEF Fetch, Reliable
  <2>. QED  BY <1>1, <1>2, <1>10, <2>1, StepTargets DEF Fetch, At, node
<1>11. CASE CachePut(w)
  BY <1>1, <1>2, <1>11, StepTargets DEF CachePut, At, node
<1>12. CASE AdvanceEmpty(w)
  BY <1>1, <1>2, <1>12, StepTargets DEF AdvanceEmpty, At, node
<1>13. CASE Advance(w)
  BY <1>1, <1>2, <1>13, StepTargets, ZenonT(40) DEF Advance, At, node
<1>. QED
  BY <1>3, <1>4, <1>5, <1>6, <1>7, <1>8, <1>9, <1>10, <1>11, <1>12, <1>13

\* The loop ends at the height the pass counted: below it the node, whose
\* chain has not moved since, has a block.
LEMMA TargetCover ==
    ASSUME Inv, CoverInv, Reliable, NEW w \in Worker, Target(w), Heard
    PROVE  pass'[w].pc = "exit" => lastScanned >= Len(chain)
<1>. DEFINE t == lastScanned + 1
<1>1. /\ pass \in [Worker -> Pass] /\ "fetch" \in PC /\ "exit" \in PC
      /\ lastScanned \in Nat /\ t \in Nat \ {0} /\ chain \in Seq(Block) /\ Len(chain) \in Nat
  BY ChainAssumption, LenProperties DEF Inv, Shape, PC
<1>2. chainHeight = Len(chain)
  BY DEF CoverInv, Target, At
<1>3. CASE t > chainHeight
  BY <1>1, <1>2, <1>3
<1>4. CASE ~(t > chainHeight)
  <2>1. NodeHash(t) # NoBlock
    <3>1. t \in 1..Len(chain)
      BY <1>1, <1>2, <1>4
    <3>2. chain[t] \in Block
      BY <1>1, <3>1, ElementOfSeq
    <3>. QED  BY <3>1, <3>2, ChainAssumption DEF NodeHash
  <2>2. \A hash \in HashAnswers(t) : hash # NoBlock
    BY <2>1 DEF HashAnswers, Reliable
  <2>3. \E hash : GotoSeeing(w, "fetch", t, hash)
    BY <1>4, <2>2 DEF Target
  <2>. QED  BY <1>1, <2>3, StepTargets
<1>. QED  BY <1>3, <1>4

\* The steps that append.
LEMMA AppendSteps ==
    ASSUME Inv, CoverInv, Reliable, NEW w \in Worker,
           AppendFile(w) \/ ExtendBuffer(w) \/ AddIndex(w)
    PROVE  /\ pass'[w].pc \in {"extend", "add", "advance"}
           /\ pass'[w].pc \in {"extend", "add"} => pass'[w].off # NoOffset
           /\ pass[w].pc \notin {"idle", "count"}
           /\ \A v \in Worker : v # w => pass'[v] = pass[v]
           /\ UNCHANGED <<chain, chainHeight>>
<1>1. /\ pass \in [Worker -> Pass]
      /\ "extend" \in PC /\ "add" \in PC /\ "advance" \in PC
      /\ Len(file) # NoOffset
  BY LenProperties DEF Inv, Shape, PC, NoOffset
<1>2. CASE AppendFile(w)
  <2>1. ~MayFail("append")
    BY DEF MayFail, Reliable
  <2>2. \/ Goto(w, "advance")
        \/ Step(w, [[pass[w] EXCEPT !.pc = "extend"] EXCEPT !.off = Len(file)])
    BY <1>2, <2>1 DEF AppendFile
  <2>3. Step(w, [[pass[w] EXCEPT !.pc = "extend"] EXCEPT !.off = Len(file)]) =>
          /\ pass'[w].pc = "extend" /\ pass'[w].off = Len(file)
          /\ \A v \in Worker : v # w => pass'[v] = pass[v]
    BY <1>1 DEF Step, Pass
  <2>. QED  BY <1>1, <1>2, <2>2, <2>3, StepTargets DEF AppendFile, At, node
<1>3. CASE ExtendBuffer(w)
  BY <1>1, <1>3, StepTargets DEF ExtendBuffer, At, node, CoverInv
<1>4. CASE AddIndex(w)
  BY <1>1, <1>4, StepTargets DEF AddIndex, At, node, CoverInv
<1>. QED  BY <1>2, <1>3, <1>4

\* Entering: no pass was under way.
LEMMA EnterCover ==
    ASSUME Inv, CoverInv, NEW w \in Worker, Enter(w),
           UNCHANGED <<missed, messages>>
    PROVE  CoverInv'
<1>1. pass \in [Worker -> Pass] /\ Goto(w, "count") /\ "count" \in PC
  BY DEF Inv, Shape, Enter, PC
<1>2. pass'[w].pc = "count" /\ \A v \in Worker : v # w => pass'[v].pc = "idle"
  BY <1>1, StepTargets DEF Enter, Inv, GateInv
<1>. QED  BY <1>2 DEF CoverInv, Closing

\* Every step of a pass.
LEMMA PassCover ==
    ASSUME Inv, CoverInv, Reliable, NEW w \in Worker, SchedPass(w)
    PROVE  CoverInv'
<1>1. /\ pass \in [Worker -> Pass] /\ chain \in Seq(Block) /\ Len(chain) \in Nat
      /\ lastScanned \in Nat /\ {"leave", "probe", "cursor", "exit", "fetch"} \subseteq PC
      /\ pass[w].pc # "idle" => \A v \in Worker : v # w => pass[v].pc = "idle"
  BY ChainAssumption, LenProperties, Alone DEF Inv, Shape, PC
<1>2. ~At(w, "count") => (Heard' => Heard)
  BY DEF SchedPass, Heard
<1>3. CASE Count(w)
  <2>1. /\ chainHeight' = Len(chain) /\ UNCHANGED <<chain, lastScanned>>
        /\ IF lastScanned + 1 > Len(chain)
           THEN Goto(w, "leave") ELSE GotoAt(w, "probe", lastScanned + 1)
    BY <1>3 DEF Count, Reliable, node, cursor
  <2>2. /\ \A v \in Worker : v # w => pass'[v].pc = "idle"
        /\ \/ pass'[w].pc = "leave" /\ lastScanned >= Len(chain)
           \/ pass'[w].pc = "probe"
    <3>1. pass[w].pc # "idle"
      BY <1>3 DEF Count, At
    <3>2. CASE lastScanned + 1 > Len(chain)
      <4>1. Goto(w, "leave") /\ lastScanned >= Len(chain)
        BY <1>1, <2>1, <3>2
      <4>. QED  BY <1>1, <3>1, <4>1, StepTargets
    <3>3. CASE ~(lastScanned + 1 > Len(chain))
      BY <1>1, <2>1, <3>1, <3>3, StepTargets
    <3>. QED  BY <3>2, <3>3
  <2>. QED  BY <2>1, <2>2 DEF CoverInv, Closing
<1>4. CASE Leave(w)
  <2>1. \A v \in Worker : pass'[v].pc = "idle"
    BY <1>1, <1>4 DEF Leave, At, Step, IdlePass
  <2>2. pass[w].pc \in Closing /\ UNCHANGED <<chain, lastScanned>> /\ ~At(w, "count")
    BY <1>4 DEF Leave, At, Closing, node, cursor
  <2>3. Heard' => Heard
    BY <1>2, <2>2
  <2>. QED  BY <2>1, <2>2, <2>3 DEF CoverInv, Closing
<1>5. CASE Target(w)
  <2>1. /\ pass'[w].pc \in {"exit", "fetch"} /\ pass[w].pc = "target"
        /\ \A v \in Worker : v # w => pass'[v] = pass[v]
        /\ UNCHANGED <<chain, chainHeight, lastScanned>>
    BY <1>1, <1>5, StepTargets DEF Target, At, node, cursor
  <2>2. Heard /\ pass'[w].pc = "exit" => lastScanned >= Len(chain)
    BY <1>5, TargetCover
  <2>. QED  BY <1>2, <2>1, <2>2, CoverKept DEF Closing, At
<1>6. CASE PersistIndex(w) \/ PersistCursor(w)
  <2>1. /\ pass'[w].pc \in {"cursor", "leave"} /\ pass[w].pc \in Closing
        /\ \A v \in Worker : v # w => pass'[v] = pass[v]
        /\ UNCHANGED <<chain, chainHeight, lastScanned>>
    BY <1>1, <1>6, StepTargets DEF PersistIndex, PersistCursor, At, node, cursor, Closing
  <2>2. Heard => lastScanned >= Len(chain)
    BY <2>1 DEF CoverInv
  <2>. QED  BY <1>2, <2>1, <2>2, CoverKept DEF Closing, At
<1>7. CASE AppendFile(w) \/ ExtendBuffer(w) \/ AddIndex(w)
  BY <1>2, <1>7, AppendSteps, CoverKept DEF Closing, At
<1>8. CASE \/ Probe(w) \/ Detect(w) \/ FindFork(w) \/ Invalidate(w) \/ Truncate(w)
           \/ SaveTrimmedIndex(w) \/ Rewind(w) \/ Fetch(w) \/ CachePut(w)
           \/ AdvanceEmpty(w) \/ Advance(w)
  BY <1>2, <1>8, MiddleSteps, CoverKept DEF At
<1>. QED
  BY <1>3, <1>4, <1>5, <1>6, <1>7, <1>8 DEF SchedPass, PassStep

LEMMA CoverInit == SchedInit => CoverInv
BY ChainAssumption, IndexerAssumption, LenProperties
   DEF SchedInit, Init, CoverInv, IdlePass

LEMMA CoverNext ==
    ASSUME Inv, Reliable, CoverInv, SchedTypeOK, [SchedNext]_schedvars
    PROVE  CoverInv'
<1>1. Listener \in Worker /\ Poller \in Worker
  BY SchedulerAssumption
<1>2. CASE ListenerEnters
  BY <1>1, <1>2, EnterCover DEF ListenerEnters
<1>3. CASE PollerEnters
  BY <1>1, <1>3, EnterCover DEF PollerEnters
<1>4. CASE \E w \in Worker : SchedPass(w)
  BY <1>4, PassCover
<1>5. CASE NodeMoves
  <2>1. ~Heard' /\ UNCHANGED <<pass>>
    BY <1>5 DEF NodeMoves, NodeStep, Heard, SchedTypeOK
  <2>. QED  BY <2>1 DEF CoverInv
<1>6. CASE ListenerTurnedAway \/ Hear
  <2>1. ~Heard' /\ UNCHANGED <<pass>>
    BY <1>6 DEF ListenerTurnedAway, TurnedAway, Hear, Heard, vars
  <2>. QED  BY <2>1 DEF CoverInv
<1>7. CASE \/ Subscribe \/ SubscribeFails \/ Disconnect \/ StreamEnds
           \/ Wake \/ PollHash \/ PollNext \/ PollCount \/ PollerTurnedAway
           \/ UNCHANGED schedvars
  <2>1. Heard' => Heard
    <3>1. CASE Disconnect
      <4>1. ~missed' => ~missed /\ ~(messages > 0) /\ listener = "listen"
        BY <3>1, Zenon DEF Disconnect
      <4>2. ~(messages > 0) => messages = 0
        BY SchedulerAssumption DEF SchedTypeOK
      <4>. QED  BY <4>1, <4>2, Zenon DEF Heard
    <3>2. CASE ~Disconnect
      BY <1>7, <3>2 DEF Subscribe, SubscribeFails, StreamEnds, Wake, PollHash,
         PollNext, PollCount, PollerTurnedAway, Heard, schedvars, sched
    <3>. QED  BY <3>1, <3>2
  <2>2. UNCHANGED <<pass, chain, chainHeight, lastScanned>>
    BY <1>7 DEF Subscribe, SubscribeFails, Disconnect, StreamEnds, Wake, PollHash,
       PollNext, PollCount, PollerTurnedAway, TurnedAway, schedvars, vars
  <2>. QED  BY <2>1, <2>2 DEF CoverInv
<1>. QED
  BY <1>2, <1>3, <1>4, <1>5, <1>6, <1>7 DEF SchedNext, ListenerStep, PollerStep

\* A block stays unscanned while both tasks wait only if its message was not
\* heard: for every node, however many messages are under way, provided RPCs
\* and appends succeed.
THEOREM NotifiedSound ==
    ASSUME Reliable PROVE SchedSpec => []NotifiedIsScanned
<1>1. Inv /\ CoverInv => NotifiedIsScanned
  <2>. SUFFICES ASSUME Inv, CoverInv, ~indexing, Heard PROVE lastScanned >= Len(chain)
    BY DEF NotifiedIsScanned, Heard
  <2>1. \A w \in Worker : pass[w].pc = "idle"
    BY DEF Inv, GateInv
  <2>. QED  BY <2>1 DEF CoverInv
<1>2. SchedSpec => []Inv
  BY ScheduledIndexer, Invariance, PTL
<1>3. SchedSpec => []SchedTypeOK
  BY SchedTypeCorrect
<1>4. Inv /\ CoverInv /\ SchedTypeOK /\ [SchedNext]_schedvars => CoverInv'
  BY CoverNext
<1>5. SchedSpec => []CoverInv
  BY <1>2, <1>3, <1>4, CoverInit, PTL DEF SchedSpec
<1>. QED  BY <1>1, <1>2, <1>5, PTL
=============================================================================
