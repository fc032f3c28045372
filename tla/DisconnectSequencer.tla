------------------------- MODULE DisconnectSequencer -------------------------
(***************************************************************************)
(* What the composite behaviour promises about disconnecting a peer        *)
(* (spec.md 4.5.1 and 9, "two-phase close"): a peer is owed a final close  *)
(* once it has said goodbye or the node has decided to drop it.  When the  *)
(* node decides, a goodbye goes out on one connection (Any) at once.  An   *)
(* owed close is eventually handed to the swarm as a shutdown of all the   *)
(* peer's connections (All), and no such shutdown is handed out that is    *)
(* not owed.  A peer may be owed more than one close (nothing merges two   *)
(* decisions), so `owed` is a bag.  `shutdowns` is the history of the      *)
(* shutdowns handed to the swarm.                                          *)
(***************************************************************************)
EXTENDS Naturals, Sequences, Bags, BagsExt

CONSTANT Peer

VARIABLES
    owed,           \* bag of peers owed a final close
    shutdowns       \* shutdowns handed out: [peer, to ("Any" or "All"), goodbye]

seqVars == <<owed, shutdowns>>

Init == owed = EmptyBag /\ shutdowns = <<>>

\* The peer said goodbye: it is owed a close, and no goodbye is sent back.
PeerSaidGoodbye(p) ==
    /\ owed' = BagAdd(owed, p)
    /\ UNCHANGED shutdowns

\* The node drops the peer: a goodbye on one connection, and a close owed.
DecideDisconnect(p) ==
    /\ owed' = BagAdd(owed, p)
    /\ shutdowns' = Append(shutdowns, [peer |-> p, to |-> "Any", goodbye |-> TRUE])

\* An owed close: every connection of the peer shut down, without goodbye.
Close(p) ==
    /\ BagIn(p, owed)
    /\ owed' = BagRemove(owed, p)
    /\ shutdowns' = Append(shutdowns, [peer |-> p, to |-> "All", goodbye |-> FALSE])

Next == \E p \in Peer : PeerSaidGoodbye(p) \/ DecideDisconnect(p) \/ Close(p)

\* Every owed close is eventually handed out.
Spec == Init /\ [][Next]_seqVars /\ \A p \in Peer : WF_seqVars(Close(p))

=============================================================================
