------------------------- MODULE GossipSubscriptions -------------------------
(***************************************************************************)
(* The gossip subscription API of the legacy composite behaviour,          *)
(* src/core/src/libp2p-wrapper/src/behaviour.rs: subscribe, unsubscribe    *)
(* and update_fork_version.                                                *)
(*                                                                         *)
(* subscribe and unsubscribe write the shared                              *)
(* NetworkGlobals.gossipsub_subscriptions set before calling the gossipsub *)
(* engine.  A GossipTopic (a type outside the sources) is abstracted to    *)
(* its kind and its fork digest; its TopicHash is the topic itself.  The   *)
(* engine is the libp2p Gossipsub crate, outside the sources: its          *)
(* subscribe accepts a topic it is not subscribed to, its unsubscribe one  *)
(* it is.                                                                  *)
(*                                                                         *)
(* update_fork_version holds &mut self for its whole run, so no other call *)
(* of the behaviour interleaves with it; each unsubscribe and subscribe   *)
(* takes and releases the globals' write lock, so other threads may read   *)
(* the set between any two of its steps.  One step of the model is one     *)
(* iteration of its loops, tagged by `pc`.                                 *)
(***************************************************************************)
EXTENDS Naturals

CONSTANTS
    Kind,           \* GossipKinds the application subscribes to
    Digest,         \* fork digests
    InitialDigest,  \* the EnrForkId the behaviour is built with
    MaxCalls        \* bound on the application's calls

ASSUME InitialDigest \in Digest /\ MaxCalls \in Nat

Topic == [kind : Kind, digest : Digest]

VARIABLES
    gossipsub_subscriptions,  \* NetworkGlobals.gossipsub_subscriptions
    mesh,                     \* topics the gossipsub engine is subscribed to
    enr_fork_id,              \* Behaviour.enr_fork_id, the local reference
    enr_eth2,                 \* the fork id in the local ENR (discovery)
    pc,                       \* "idle", or the loop of update_fork_version being run
    subscribed_topics,        \* update_fork_version's snapshot of the globals
    unsubscribed,             \* topics of the snapshot its first loop has visited
    resubscribed,             \* topics of the snapshot its second loop has visited
    new_fork,                 \* update_fork_version's argument
    calls                     \* application calls left

vars == <<gossipsub_subscriptions, mesh, enr_fork_id, enr_eth2, pc,
          subscribed_topics, unsubscribed, resubscribed, new_fork, calls>>
loopVars == <<subscribed_topics, unsubscribed, resubscribed, new_fork>>

-----------------------------------------------------------------------------
(* The gossipsub engine (libp2p Gossipsub::subscribe / unsubscribe).       *)
EngineSubscribe(t) == mesh' = mesh \cup {t}
EngineUnsubscribe(t) == mesh' = mesh \ {t}

(* Faults a change to this code could plausibly introduce, each defined    *)
(* before the operator it would replace.                                   *)
unsubscribe_engine_only(t) ==                       \* globals left untouched
    /\ EngineUnsubscribe(t)
    /\ UNCHANGED gossipsub_subscriptions

\* Behaviour::unsubscribe: remove from the globals, then from the engine.
unsubscribe(t) ==
    /\ gossipsub_subscriptions' = gossipsub_subscriptions \ {t}
    /\ EngineUnsubscribe(t)

\* Behaviour::subscribe: insert into the globals, then subscribe the engine.
subscribe(t) ==
    /\ gossipsub_subscriptions' = gossipsub_subscriptions \cup {t}
    /\ EngineSubscribe(t)

-----------------------------------------------------------------------------
(* The application's calls, between runs of update_fork_version.           *)
AppCall == pc = "idle" /\ calls > 0 /\ calls' = calls - 1

\* Behaviour::subscribe / unsubscribe called with any GossipTopic.
Subscribe(t) ==
    /\ AppCall
    /\ subscribe(t)
    /\ UNCHANGED <<enr_fork_id, enr_eth2, pc, loopVars>>

Unsubscribe(t) ==
    /\ AppCall
    /\ unsubscribe(t)
    /\ UNCHANGED <<enr_fork_id, enr_eth2, pc, loopVars>>

(* update_fork_version(enr_fork_id), one step per statement or iteration. *)

\* Update the ENR, then snapshot the globals into subscribed_topics.
UpdateForkVersionBegin(d) ==
    /\ AppCall
    /\ enr_eth2' = d
    /\ subscribed_topics' = gossipsub_subscriptions
    /\ new_fork' = d
    /\ unsubscribed' = {} /\ resubscribed' = {}
    /\ pc' = "unsubscribe"
    /\ UNCHANGED <<gossipsub_subscriptions, mesh, enr_fork_id>>

\* First loop: unsubscribe every topic of the snapshot (HashSet order).
UpdateForkVersionUnsubscribe ==
    /\ pc = "unsubscribe"
    /\ \E t \in subscribed_topics \ unsubscribed :
          /\ unsubscribe(t)
          /\ unsubscribed' = unsubscribed \cup {t}
    /\ UNCHANGED <<enr_fork_id, enr_eth2, pc, subscribed_topics, resubscribed,
                   new_fork, calls>>

UpdateForkVersionUnsubscribedReread ==        \* snapshot re-read after the first loop
    /\ pc = "unsubscribe" /\ unsubscribed = subscribed_topics
    /\ pc' = "resubscribe"
    /\ subscribed_topics' = gossipsub_subscriptions
    /\ UNCHANGED <<gossipsub_subscriptions, mesh, enr_fork_id, enr_eth2, unsubscribed,
                   resubscribed, new_fork, calls>>

UpdateForkVersionUnsubscribed ==
    /\ pc = "unsubscribe" /\ unsubscribed = subscribed_topics
    /\ pc' = "resubscribe"
    /\ UNCHANGED <<gossipsub_subscriptions, mesh, enr_fork_id, enr_eth2, loopVars, calls>>

\* Second loop: subscribe each topic of the snapshot again; the line that
\* would move it to the new digest is commented out, so the topic is unchanged.
UpdateForkVersionResubscribe ==
    /\ pc = "resubscribe"
    /\ \E t \in subscribed_topics \ resubscribed :
          /\ subscribe(t)
          /\ resubscribed' = resubscribed \cup {t}
    /\ UNCHANGED <<enr_fork_id, enr_eth2, pc, subscribed_topics, unsubscribed,
                   new_fork, calls>>

\* Finally the local reference takes the new fork id.
UpdateForkVersionEnd ==
    /\ pc = "resubscribe" /\ resubscribed = subscribed_topics
    /\ enr_fork_id' = new_fork
    /\ pc' = "idle"
    /\ UNCHANGED <<gossipsub_subscriptions, mesh, enr_eth2, loopVars, calls>>

Init ==
    /\ gossipsub_subscriptions = {} /\ mesh = {}
    /\ enr_fork_id = InitialDigest /\ enr_eth2 = InitialDigest
    /\ pc = "idle"
    /\ subscribed_topics = {} /\ unsubscribed = {} /\ resubscribed = {}
    /\ new_fork = InitialDigest
    /\ calls = MaxCalls

Next ==
    \/ \E t \in Topic : Subscribe(t) \/ Unsubscribe(t)
    \/ \E d \in Digest : UpdateForkVersionBegin(d)
    \/ UpdateForkVersionUnsubscribe \/ UpdateForkVersionUnsubscribed
    \/ UpdateForkVersionResubscribe \/ UpdateForkVersionEnd

\* update_fork_version runs to completion once called: it holds &mut self.
Spec == Init /\ [][Next]_vars /\ WF_vars(Next /\ pc # "idle")

-----------------------------------------------------------------------------
(* Properties                                                              *)

TypeOK ==
    /\ gossipsub_subscriptions \subseteq Topic /\ mesh \subseteq Topic
    /\ {enr_fork_id, enr_eth2, new_fork} \subseteq Digest
    /\ pc \in {"idle", "unsubscribe", "resubscribe"}
    /\ unsubscribed \subseteq subscribed_topics
    /\ resubscribed \subseteq subscribed_topics
    /\ calls \in 0..MaxCalls

\* spec.md section 3, invariant 3: between calls of the behaviour, the
\* globals' subscription set is exactly what the gossipsub engine is
\* subscribed to (subscribe/unsubscribe update both, in that order).
SubscriptionsMirrored ==
    pc = "idle" => gossipsub_subscriptions = mesh

\* update_fork_version unsubscribes from every topic and subscribes again:
\* when it returns, the engine is subscribed to exactly the kinds its first
\* loop unsubscribed from (both loops work from one snapshot of the globals,
\* taken before the first unsubscribe empties them).
ForkUpdateKeepsKinds ==
    [][pc = "resubscribe" /\ pc' = "idle" =>
         {t.kind : t \in mesh'} = {t.kind : t \in unsubscribed}]_vars

\* The comment of update_fork_version: it unsubscribes from every topic and
\* re-subscribes "to their new fork counterparts", so when it returns every
\* subscribed topic carries the digest of the fork id it was given.
ForkUpdateMovesTopics ==
    [][pc = "resubscribe" /\ pc' = "idle" =>
         \A t \in gossipsub_subscriptions' : t.digest = new_fork]_vars

=============================================================================
