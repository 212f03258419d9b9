------------------------------- MODULE Chain -------------------------------
(***************************************************************************)
(* The PIVX node as the bridge sees it through its RPC client: blocks, the *)
(* chains the node may follow, and what a block holds.  The node itself is *)
(* not part of the repository; src/rpc.rs is the only way to it.           *)
(*                                                                         *)
(* Heights are counted from the block before the first one the bridge      *)
(* scans, so the first scanned block has height 1.                         *)
(***************************************************************************)
EXTENDS Integers, Sequences, FiniteSets

CONSTANTS
    Block,          \* block hashes; a hash determines its block and ancestors
    NoBlock,        \* the empty hash: nothing cached, or nothing recorded
    MaxHeight,      \* bound on the height of a chain
    HeightOf,       \* the height field of a block
    ShieldTxs,      \* how many Sapling transactions a block holds
    Chains          \* the chains the node may be on, each a sequence of blocks

Heights == 1..MaxHeight

\* A chain starts at height 1, and two chains that share a block share
\* everything below it: a hash commits to its parent.
ASSUME ChainAssumption ==
    /\ MaxHeight \in Nat \ {0}
    /\ NoBlock \notin Block
    /\ HeightOf \in [Block -> Heights]
    /\ ShieldTxs \in [Block -> Nat]
    /\ \A c \in Chains :
         /\ c \in Seq(Block)
         /\ Len(c) <= MaxHeight
         /\ \A h \in 1..Len(c) : HeightOf[c[h]] = h
    /\ \A c, d \in Chains : \A h \in 1..Len(c) :
         (h <= Len(d) /\ c[h] = d[h]) => \A g \in 1..h : c[g] = d[g]

\* The sequence s of blocks is the beginning of one chain, so every block
\* of s names the one before it as its parent.
OnOneChain(s) ==
    \E c \in Chains :
        /\ Len(s) <= Len(c)
        /\ \A h \in 1..Len(s) : s[h] = c[h]
=============================================================================
