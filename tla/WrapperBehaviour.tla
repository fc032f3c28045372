--------------------------- MODULE WrapperBehaviour ---------------------------
(***************************************************************************)
(* The legacy composite behaviour of                                       *)
(* src/core/src/libp2p-wrapper/src/behaviour.rs: the handlers the derived  *)
(* NetworkBehaviour calls for gossipsub and RPC events, its event queue    *)
(* and its poll method.                                                    *)
(*                                                                         *)
(* Gossipsub messages pass a cache of recently seen message ids,           *)
(* LruCache::new(100_000) of the lru crate: put(id) returns the previous   *)
(* value if id was cached and makes id the most recently used; otherwise   *)
(* it inserts id, evicting the least recently used id when full.  The     *)
(* capacity is a constant, SEEN_CAP.                                       *)
(*                                                                         *)
(* The identify handler only truncates a copy it then logs, and the        *)
(* discovery and Unsubscribed handlers do nothing: they change no state.   *)
(* The sub-behaviours producing the events are outside the sources and     *)
(* their events are inputs.                                                *)
(***************************************************************************)
EXTENDS Naturals, Sequences, SequencesExt

CONSTANTS
    Peer,           \* remote peers
    MsgId,          \* gossipsub MessageIds
    SEEN_CAP,       \* capacity of seen_gossip_messages
    MaxInputs       \* bound on the events the sub-behaviours produce

ASSUME SEEN_CAP \in Nat \ {0} /\ MaxInputs \in Nat

VARIABLES
    events,                 \* Behaviour.events: BehaviourEvents not yet polled
    seen_gossip_messages,   \* the LRU cache, most recently used first
    gossipIn,               \* every gossipsub Message handled, in order
    gossipOut,              \* every GossipMessage queued for the application, in order
    inputs                  \* events the sub-behaviours may still produce

wrapperVars == <<events, seen_gossip_messages, gossipIn, gossipOut, inputs>>

\* BehaviourEvent variants (payloads abstracted).
GossipMessage(id, source) == [type |-> "GossipMessage", id |-> id, source |-> source]
PeerSubscribed(p) == [type |-> "PeerSubscribed", peer |-> p]
PeerDialed(p) == [type |-> "PeerDialed", peer |-> p]
PeerDisconnected(p) == [type |-> "PeerDisconnected", peer |-> p]
RPC(p) == [type |-> "RPC", peer |-> p]

-----------------------------------------------------------------------------
(* The lru crate's LruCache::put, on the recency list.                     *)

\* The first n elements of s (all of s when it is shorter).
Take(s, n) == IF Len(s) <= n THEN s ELSE SubSeq(s, 1, n)

(* Faults a change to this code could plausibly introduce, each defined    *)
(* before the operator it would replace.                                   *)
LruPutNoRefresh(cache, id) ==           \* a hit leaves the recency order alone
    IF id \in ToSet(cache) THEN cache ELSE Take(Cons(id, cache), SEEN_CAP)

LruPut(cache, id) == Take(Cons(id, Remove(cache, id)), SEEN_CAP)

\* Reference: the n most recently used distinct ids of a history of uses
\* (oldest first), most recent first.
RECURSIVE RecentDistinct(_, _)
RecentDistinct(s, n) ==
    IF s = <<>> \/ n = 0 THEN <<>>
    ELSE Cons(Last(s), RecentDistinct(Remove(Front(s), Last(s)), n - 1))

-----------------------------------------------------------------------------
(* The event handlers (NetworkBehaviourEventProcess::inject_event).        *)

Produced == inputs > 0 /\ inputs' = inputs - 1

\* GossipsubEvent::Message: queue a GossipMessage only when put reports the
\* id was not cached; a duplicate is logged and dropped.
InjectGossipMessage(source, id) ==
    /\ Produced
    /\ seen_gossip_messages' = LruPut(seen_gossip_messages, id)
    /\ gossipIn' = Append(gossipIn, [source |-> source, id |-> id])
    /\ IF id \notin ToSet(seen_gossip_messages)
       THEN /\ events' = Append(events, GossipMessage(id, source))
            /\ gossipOut' = Append(gossipOut, [source |-> source, id |-> id])
       ELSE UNCHANGED <<events, gossipOut>>

\* GossipsubEvent::Subscribed.
InjectGossipSubscribed(p) ==
    /\ Produced
    /\ events' = Append(events, PeerSubscribed(p))
    /\ UNCHANGED <<seen_gossip_messages, gossipIn, gossipOut>>

\* RPCMessage::PeerDialed / PeerDisconnected / RPC, each queued as is.
InjectRPC(ev) ==
    /\ Produced
    /\ events' = Append(events, ev)
    /\ UNCHANGED <<seen_gossip_messages, gossipIn, gossipOut>>

\* Behaviour::poll: the head of the queue as a GenerateEvent, or NotReady.
WrapperPollReady == events # <<>>
WrapperPoll ==
    /\ WrapperPollReady
    /\ events' = Tail(events)
    /\ UNCHANGED <<seen_gossip_messages, gossipIn, gossipOut, inputs>>

WrapperInit ==
    /\ events = <<>> /\ seen_gossip_messages = <<>> /\ gossipIn = <<>> /\ gossipOut = <<>>
    /\ inputs = MaxInputs

WrapperInput ==
    \/ \E p \in Peer, id \in MsgId : InjectGossipMessage(p, id)
    \/ \E p \in Peer : InjectGossipSubscribed(p)
    \/ \E p \in Peer : \E ev \in {PeerDialed(p), PeerDisconnected(p), RPC(p)} : InjectRPC(ev)

-----------------------------------------------------------------------------
(* Properties                                                              *)

GossipIds == [i \in DOMAIN gossipIn |-> gossipIn[i].id]

\* The i-th message handled was new: its id is not among the SEEN_CAP most
\* recently seen distinct ids before it.
Fresh(i) == GossipIds[i] \notin ToSet(RecentDistinct(SubSeq(GossipIds, 1, i - 1), SEEN_CAP))

\* A gossipsub message reaches the application exactly when its id is not
\* among the SEEN_CAP distinct ids seen last, in the order received: a
\* duplicate inside that window is dropped, one outside it is delivered again.
ForwardedIffFresh ==
    LET fresh == SelectSeq([i \in DOMAIN gossipIn |-> i], Fresh)
    IN  gossipOut = [j \in DOMAIN fresh |-> gossipIn[fresh[j]]]

=============================================================================
