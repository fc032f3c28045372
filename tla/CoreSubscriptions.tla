-------------------------- MODULE CoreSubscriptions --------------------------
(***************************************************************************)
(* The gossip API of the core behaviour, src/core/network/src/behaviour/   *)
(* mod.rs: subscribe_kind, unsubscribe_kind (through the private           *)
(* subscribe/unsubscribe, which write NetworkGlobals.gossipsub_subscriptions *)
(* before calling the engine), publish and propagate_message.              *)
(*                                                                         *)
(* GossipTopic::new(kind) takes only the kind, so a topic is its kind.     *)
(* The gossipsub engine (libp2p crate, outside the sources) is its set of  *)
(* subscriptions and the messages it was asked to publish or forward; its  *)
(* subscribe returns FALSE for a topic it already has, its unsubscribe for *)
(* one it does not have.  Every call holds &mut self: calls do not         *)
(* interleave.  `last` records the previous call, for the round trip.      *)
(***************************************************************************)
EXTENDS Naturals, Sequences

CONSTANTS
    Kind,           \* GossipKinds
    MsgId,          \* gossipsub MessageIds the application propagates
    Peer,           \* propagation sources
    MaxCalls        \* bound on the application's calls

ASSUME MaxCalls \in Nat

VARIABLES
    gossipsub_subscriptions,  \* NetworkGlobals.gossipsub_subscriptions
    mesh,                     \* topics the gossipsub engine is subscribed to
    published,                \* topics handed to Gossipsub::publish, in order
    propagated,               \* <<id, source>> handed to Gossipsub::propagate_message
    returned,                 \* the bool the last subscribe/unsubscribe call returned
    last,                     \* the last call: [op, kind, before]
    calls                     \* application calls left

vars == <<gossipsub_subscriptions, mesh, published, propagated, returned, last, calls>>

-----------------------------------------------------------------------------
(* Gossipsub::subscribe / unsubscribe (external crate): TRUE when it changed. *)
EngineSubscribe(t) == mesh' = mesh \cup {t} /\ returned' = (t \notin mesh)
EngineUnsubscribe(t) == mesh' = mesh \ {t} /\ returned' = (t \in mesh)

Call(op, k) ==
    /\ calls > 0 /\ calls' = calls - 1
    /\ last' = [op |-> op, kind |-> k, before |-> gossipsub_subscriptions]

(* Faults a change to this code could plausibly introduce, each defined    *)
(* before the operator it would replace.                                   *)
unsubscribe_globals_only(t) ==              \* the engine call left out
    /\ gossipsub_subscriptions' = gossipsub_subscriptions \ {t}
    /\ UNCHANGED <<mesh, returned>>

\* Behaviour::subscribe: insert into the globals, then subscribe the engine.
subscribe(t) ==
    /\ gossipsub_subscriptions' = gossipsub_subscriptions \cup {t}
    /\ EngineSubscribe(t)

\* Behaviour::unsubscribe: remove from the globals, then from the engine.
unsubscribe(t) ==
    /\ gossipsub_subscriptions' = gossipsub_subscriptions \ {t}
    /\ EngineUnsubscribe(t)

\* subscribe_kind / unsubscribe_kind: GossipTopic::new(kind), then the above.
subscribe_kind(k) ==
    /\ Call("subscribe", k)
    /\ subscribe(k)
    /\ UNCHANGED <<published, propagated>>

unsubscribe_kind(k) ==
    /\ Call("unsubscribe", k)
    /\ unsubscribe(k)
    /\ UNCHANGED <<published, propagated>>

\* publish: handed to the engine whether or not the node is subscribed.
publish(k) ==
    /\ Call("publish", k)
    /\ published' = Append(published, k)
    /\ UNCHANGED <<gossipsub_subscriptions, mesh, propagated, returned>>

\* propagate_message: the engine forwards a message from its mcache.
propagate_message(source, id) ==
    /\ Call("propagate", last.kind)
    /\ propagated' = Append(propagated, <<id, source>>)
    /\ UNCHANGED <<gossipsub_subscriptions, mesh, published, returned>>

Init ==
    /\ gossipsub_subscriptions = {} /\ mesh = {}
    /\ published = <<>> /\ propagated = <<>>
    /\ returned = FALSE
    /\ last = [op |-> "none", kind |-> CHOOSE k \in Kind : TRUE, before |-> {}]
    /\ calls = MaxCalls

Next ==
    \/ \E k \in Kind : subscribe_kind(k) \/ unsubscribe_kind(k) \/ publish(k)
    \/ \E p \in Peer, id \in MsgId : propagate_message(p, id)

Spec == Init /\ [][Next]_vars

-----------------------------------------------------------------------------
(* Properties                                                              *)

TypeOK ==
    /\ gossipsub_subscriptions \subseteq Kind /\ mesh \subseteq Kind
    /\ published \in Seq(Kind) /\ propagated \in Seq(MsgId \X Peer)
    /\ returned \in BOOLEAN
    /\ calls \in 0..MaxCalls

\* spec.md 8: after every subscribe or unsubscribe call the shared set is the
\* set of topics the engine reports, and the call returns TRUE exactly when
\* it changed that set.
SubscriptionsMirrored ==
    /\ gossipsub_subscriptions = mesh
    /\ last.op \in {"subscribe", "unsubscribe"} =>
          (returned <=> gossipsub_subscriptions # last.before)

=============================================================================
