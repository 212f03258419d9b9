----------------------------- MODULE Scheduler -----------------------------
(***************************************************************************)
(* What makes the two tasks of src/main.rs call index_new_blocks: the ZMQ  *)
(* listener, which subscribes, waits for hashblock messages and calls it   *)
(* for each, and the poller, which looks for a successor of the last       *)
(* scanned block while AppState.zmq_active is unset.  The passes they run, *)
(* the gate, the store and the node are module Indexer's; a task does      *)
(* nothing else until its pass has ended.                                  *)
(***************************************************************************)
EXTENDS Indexer

CONSTANTS
    Listener, Poller,   \* the two tasks
    MaxMessages         \* bound on the messages the node has sent ahead

ASSUME SchedulerAssumption ==
    /\ Worker = {Listener, Poller} /\ Listener # Poller
    /\ MaxMessages \in Nat \ {0}

VARIABLES
    zmqActive,   \* AppState.zmq_active
    listener,    \* where spawn_zmq_listener's loop is
    messages,    \* hashblock messages sent and not yet taken
    poller,      \* where poll_new_blocks is, and its locals
    missed       \* history: the node has moved since a pass last asked for
                 \* its height, and the message that says so was not heard

sched     == <<zmqActive, listener, messages, poller, missed>>
schedvars == <<vars, sched>>

Asleep == [pc |-> "asleep", from |-> 0, hash |-> NoBlock]

SchedInit ==
    /\ Init
    /\ zmqActive = FALSE
    /\ listener = "subscribe" /\ messages = 0
    /\ poller = Asleep
    /\ missed = FALSE

----------------------------------------------------------------------------
(* Calling index_new_blocks: in through the gate, or turned away by it.    *)

TurnedAway == indexing /\ UNCHANGED vars

----------------------------------------------------------------------------
(* The listener.  Its sleeps before it subscribes again are "subscribe".   *)

\* subscribe_async; the subscription hears what is sent from here on.
Subscribe ==
    /\ listener = "subscribe" /\ At(Listener, "idle")
    /\ zmqActive' = TRUE
    /\ listener' = "listen"
    /\ UNCHANGED <<vars, messages, poller, missed>>

SubscribeFails ==
    /\ listener = "subscribe" /\ zmqActive
    /\ zmqActive' = FALSE
    /\ UNCHANGED <<vars, listener, messages, poller, missed>>

\* A hashblock message, taken once the pass for the one before has ended.
Hear ==
    /\ listener = "listen" /\ At(Listener, "idle")
    /\ messages > 0
    /\ messages' = messages - 1
    /\ listener' = "call"
    /\ UNCHANGED <<vars, zmqActive, poller, missed>>

ListenerEnters ==
    /\ listener = "call"
    /\ Enter(Listener)
    /\ listener' = "listen"
    /\ UNCHANGED <<zmqActive, messages, poller, missed>>

ListenerTurnedAway ==
    /\ listener = "call"
    /\ TurnedAway
    /\ listener' = "listen"
    /\ missed' = TRUE
    /\ UNCHANGED <<zmqActive, messages, poller>>

\* An error on the subscription ends it, and what it had not delivered is lost.
Disconnect ==
    /\ listener = "listen" /\ At(Listener, "idle")
    /\ zmqActive' = FALSE
    /\ listener' = "subscribe"
    /\ messages' = 0
    /\ missed' = (missed \/ messages > 0)
    /\ UNCHANGED <<vars, poller>>

\* The stream of messages just ends: zmq_active stays set.
StreamEnds ==
    /\ listener = "listen" /\ At(Listener, "idle") /\ messages = 0
    /\ listener' = "subscribe"
    /\ UNCHANGED <<vars, zmqActive, messages, poller, missed>>

----------------------------------------------------------------------------
(* The poller.                                                             *)

\* The block at the first scanned height's parent is in every chain.
Reaches(h) == h <= Len(chain)

Wake ==
    /\ poller.pc = "asleep" /\ At(Poller, "idle")
    /\ ~zmqActive
    /\ poller' = [Asleep EXCEPT !.pc = "hash", !.from = lastScanned]
    /\ UNCHANGED <<vars, zmqActive, listener, messages, missed>>

\* An RPC error, or nothing new: poll_new_blocks returns.
GiveUp == poller' = Asleep

PollHash ==
    /\ poller.pc = "hash"
    /\ \/ RpcMayFail /\ GiveUp
       \/ IF Reaches(poller.from)
          THEN poller' = [poller EXCEPT !.pc = "next", !.hash = NodeHash(poller.from)]
          ELSE GiveUp
    /\ UNCHANGED <<vars, zmqActive, listener, messages, missed>>

\* getblock: only a block of the node's chain, and not its last, has a
\* nextblockhash.
PollNext ==
    /\ poller.pc = "next"
    /\ \/ RpcMayFail /\ GiveUp
       \/ IF Reaches(poller.from + 1) /\ NodeHash(poller.from) = poller.hash
          THEN poller' = [poller EXCEPT !.pc = "count"]
          ELSE GiveUp
    /\ UNCHANGED <<vars, zmqActive, listener, messages, missed>>

\* Mutant of PollCount: a single new block is not worth a pass.
PollCountShort ==
    /\ poller.pc = "count"
    /\ IF Reaches(poller.from + 2)
       THEN poller' = [poller EXCEPT !.pc = "call"]
       ELSE GiveUp
    /\ UNCHANGED <<vars, zmqActive, listener, messages, missed>>

\* getblockcount.
PollCount ==
    /\ poller.pc = "count"
    /\ \/ RpcMayFail /\ GiveUp
       \/ IF Reaches(poller.from + 1)
          THEN poller' = [poller EXCEPT !.pc = "call"]
          ELSE GiveUp
    /\ UNCHANGED <<vars, zmqActive, listener, messages, missed>>

PollerEnters ==
    /\ poller.pc = "call"
    /\ Enter(Poller)
    /\ GiveUp
    /\ UNCHANGED <<zmqActive, listener, messages, missed>>

PollerTurnedAway ==
    /\ poller.pc = "call"
    /\ TurnedAway
    /\ GiveUp
    /\ UNCHANGED <<zmqActive, listener, messages, missed>>

----------------------------------------------------------------------------
(* Passes and the node.                                                    *)

\* A pass that asks for the node's height makes up for all that was missed.
SchedPass(w) ==
    /\ PassStep(w)
    /\ missed' = (missed /\ ~At(w, "count"))
    /\ UNCHANGED <<zmqActive, listener, messages, poller>>

\* The node changes its chain and tells whoever is subscribed.
NodeMoves ==
    /\ messages < MaxMessages
    /\ NodeStep
    /\ IF listener = "subscribe"
       THEN missed' = TRUE /\ UNCHANGED messages
       ELSE messages' = messages + 1 /\ UNCHANGED missed
    /\ UNCHANGED <<zmqActive, listener, poller>>

ListenerStep ==
    \/ Subscribe \/ SubscribeFails \/ Hear \/ ListenerEnters
    \/ ListenerTurnedAway \/ Disconnect \/ StreamEnds

PollerStep ==
    \/ Wake \/ PollHash \/ PollNext \/ PollCount \/ PollerEnters
    \/ PollerTurnedAway

SchedNext ==
    \/ ListenerStep \/ PollerStep
    \/ \E w \in Worker : SchedPass(w)
    \/ NodeMoves

SchedSpec == SchedInit /\ [][SchedNext]_schedvars

\* The poller's timer goes off again and again, a message that is there is
\* taken, and what a task has begun it goes on with.  Nothing is promised of
\* the subscription: it may never succeed, and never fail.
FairSchedSpec ==
    /\ SchedSpec
    /\ WF_schedvars(PollerStep)
    /\ WF_schedvars(Hear \/ ListenerEnters \/ ListenerTurnedAway)
    /\ \A w \in Worker : WF_schedvars(SchedPass(w))

----------------------------------------------------------------------------
(* Properties.                                                             *)

SchedTypeOK ==
    /\ TypeOK
    /\ zmqActive \in BOOLEAN /\ missed \in BOOLEAN
    /\ listener \in {"subscribe", "listen", "call"}
    /\ messages \in 0..MaxMessages
    /\ poller \in [ pc   : {"asleep", "hash", "next", "count", "call"},
                    from : Nat,
                    hash : Block \cup {NoBlock} ]

\* With RPCs and appends that succeed, a block stays unscanned while both
\* tasks wait only if its message was sent before the subscription, lost with
\* it, or turned away at the gate: no other way through listener, poller and
\* pass leaves one behind, whichever task the messages reach in the middle
\* of whatever pass.
NotifiedIsScanned ==
    (/\ ~indexing /\ listener # "call" /\ messages = 0
     /\ ~missed) => lastScanned >= Len(chain)

\* Once ZMQ is down for good and the node's chain stays, the poller brings the
\* cursor up to the chain's height, whatever the subscription and the passes
\* it started have left behind.
PollerCatchesUp ==
    (<>[]~zmqActive /\ <>[][chain' = chain]_chain) => <>[](lastScanned >= Len(chain))

\* "Spawn polling loop - always runs, catches anything ZMQ misses": once the
\* chain stays, the cursor gets up to its height.
AnythingMissedIsCaught ==
    <>[][chain' = chain]_chain => <>[](lastScanned >= Len(chain))

\* Gate: "just return - the winner will cover whatever we would have done".
\* A listener turned away with its last message leaves behind a pass that has
\* yet to ask for the node's height, or asked when it was already as high.
WinnerCovers ==
    [][ListenerTurnedAway /\ messages = 0 =>
         Somewhere({"count"}) \/ chainHeight >= Len(chain)]_schedvars
=============================================================================
