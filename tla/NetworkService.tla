---------------------------- MODULE NetworkService ----------------------------
(***************************************************************************)
(* The network service task of src/src/api_libp2p/network.rs, composed     *)
(* with the legacy behaviour it drives (WrapperBehaviour).                 *)
(*                                                                         *)
(* network_service is a futures 0.1 poll_fn task.  Each time the executor  *)
(* polls it, it drains the command channel (NetworkMessage::Send to        *)
(* swarm.send_rpc, ::Publish to swarm.publish) until the channel is        *)
(* NotReady, then polls the swarm until it is NotReady or fails, and       *)
(* returns NotReady.  The task is polled again only when notified: the     *)
(* channel notifies it on a send, and the swarm when new network work      *)
(* arrives, each only if its last poll returned NotReady (futures 0.1      *)
(* registers the task then).  spawn_service runs the task select-ed with   *)
(* an exit oneshot; dropping the Network's sender ends it after the        *)
(* service's own poll (Select polls the service first).                    *)
(*                                                                         *)
(* The swarm (eth2_libp2p::Service and libp2p's Swarm, outside the         *)
(* sources) is abstracted to `swarmOut`, what send_rpc and publish queued  *)
(* and a swarm poll hands to the connections, and to the behaviour's       *)
(* event queue, whose head a swarm poll returns to the service.  The       *)
(* channel never closes: the service holds a sender (_network_send) of its *)
(* own channel, so the "Network channel closed" branch is unreachable.     *)
(***************************************************************************)
EXTENDS WrapperBehaviour

CONSTANTS
    Topic,          \* gossip topics a Publish may name
    MaxTopics,      \* bound on the length of a Publish's topic list
    MaxSends,       \* bound on the application's sends
    MaxSwarmErrors  \* bound on swarm polls that fail

ASSUME MaxTopics \in Nat \ {0} /\ MaxSends \in Nat /\ MaxSwarmErrors \in Nat

\* NetworkMessage: Send(peer, OutgoingMessage::RPC(event)), or Publish with a
\* Vec of topics (the peer, the event and the payload are abstracted away).
NetworkMessage ==
    [type : {"Send"}] \cup [type : {"Publish"}, topics : BoundedSeq(Topic, MaxTopics)]

VARIABLES
    channel,        \* the unbounded mpsc channel: <<no, message>> not yet received
    sent,           \* messages the application has sent
    swarmOut,       \* <<no, part>> handed to the swarm, not yet sent out
    transmitted,    \* <<no, part>> the swarm has sent out
    polledEvents,   \* behaviour events the service has taken from the swarm
    task,           \* "idle" (returned NotReady), "channel", "swarm" or "done"
    notified,       \* a wake-up of the task is pending
    chanWaker,      \* the channel holds the task's registration
    swarmWaker,     \* the swarm holds the task's registration
    exit,           \* the exit oneshot has fired
    swarmErrors     \* failing swarm polls left

serviceVars == <<channel, sent, swarmOut, transmitted, polledEvents, task,
                 notified, chanWaker, swarmWaker, exit, swarmErrors>>
vars == <<wrapperVars, serviceVars>>

-----------------------------------------------------------------------------
(* The application and the network, concurrently with the task.            *)

\* network_send.send(msg): queue it; wake the task if the channel holds its
\* registration.
Send(m) ==
    /\ sent < MaxSends
    /\ sent' = sent + 1
    /\ channel' = Append(channel, <<sent + 1, m>>)
    /\ notified' = (notified \/ chanWaker)
    /\ chanWaker' = FALSE
    /\ UNCHANGED <<wrapperVars, swarmOut, transmitted, polledEvents, task, swarmWaker,
                   exit, swarmErrors>>

\* Network activity reaches the behaviour's handlers; the swarm wakes the
\* task if it holds its registration.
NetworkEvent ==
    /\ WrapperInput
    /\ notified' = (notified \/ swarmWaker)
    /\ swarmWaker' = FALSE
    /\ UNCHANGED <<channel, sent, swarmOut, transmitted, polledEvents, task, chanWaker,
                   exit, swarmErrors>>

\* The Network (holding the exit sender) is dropped: the oneshot fires and
\* wakes the task.
Exit ==
    /\ ~exit
    /\ exit' = TRUE
    /\ notified' = TRUE
    /\ UNCHANGED <<wrapperVars, channel, sent, swarmOut, transmitted, polledEvents, task,
                   chanWaker, swarmWaker, swarmErrors>>

-----------------------------------------------------------------------------
(* The legacy behaviour's calls the service makes, as the work each one    *)
(* queues in the swarm: <<no, part>> for message number no.                *)

(* Faults a change to this code could plausibly introduce, each defined    *)
(* before the operator it would replace.                                   *)
publish_first_topic(no, topics) ==  \* publishes on the first topic only
    [i \in 1..(IF topics = <<>> THEN 0 ELSE 1) |-> <<no, i>>]

\* Behaviour::publish: one gossipsub publish of the message per topic.
publish(no, topics) == [i \in 1..Len(topics) |-> <<no, i>>]

\* Behaviour::send_rpc: one event queued in the RPC behaviour.
send_rpc(no) == <<<<no, 1>>>>

\* The swarm work of one channel message.
Handover(no, msg) == IF msg.type = "Send" THEN send_rpc(no) ELSE publish(no, msg.topics)


-----------------------------------------------------------------------------
(* The task.                                                               *)

\* The executor polls a notified task.
TaskWake ==
    /\ task = "idle" /\ notified
    /\ notified' = FALSE
    /\ task' = "channel"
    /\ UNCHANGED <<wrapperVars, channel, sent, swarmOut, transmitted, polledEvents,
                   chanWaker, swarmWaker, exit, swarmErrors>>

\* The service returns NotReady; Select then polls the exit future.
TaskReturn == task' = IF exit THEN "done" ELSE "idle"

\* Ok(Async::Ready(Some(message))): Send goes to swarm.send_rpc, Publish to
\* swarm.publish; both queue the message in the swarm.  The loop continues.
ChannelMessage ==
    /\ task = "channel" /\ channel # <<>>
    /\ swarmOut' = swarmOut \o Handover(Head(channel)[1], Head(channel)[2])
    /\ channel' = Tail(channel)
    /\ UNCHANGED <<wrapperVars, sent, transmitted, polledEvents, task, notified,
                   chanWaker, swarmWaker, exit, swarmErrors>>

\* Ok(Async::NotReady): the channel registers the task; on to the swarm.
ChannelNotReady ==
    /\ task = "channel" /\ channel = <<>>
    /\ chanWaker' = TRUE
    /\ task' = "swarm"
    /\ UNCHANGED <<wrapperVars, channel, sent, swarmOut, transmitted, polledEvents,
                   notified, swarmWaker, exit, swarmErrors>>

\* One poll of the swarm that is not NotReady inside: it first hands queued
\* work to the connections, else returns the behaviour's next event, which
\* the service logs.  The loop continues.
SwarmTransmit ==
    /\ task = "swarm" /\ swarmOut # <<>>
    /\ transmitted' = Append(transmitted, Head(swarmOut))
    /\ swarmOut' = Tail(swarmOut)
    /\ UNCHANGED <<wrapperVars, channel, sent, polledEvents, task, notified, chanWaker,
                   swarmWaker, exit, swarmErrors>>

SwarmEventOnce ==               \* handles one event, then returns NotReady
    /\ task = "swarm" /\ swarmOut = <<>>
    /\ WrapperPoll
    /\ polledEvents' = polledEvents + 1
    /\ TaskReturn
    /\ UNCHANGED <<channel, sent, swarmOut, transmitted, notified, chanWaker, swarmWaker,
                   exit, swarmErrors>>

SwarmEvent ==
    /\ task = "swarm" /\ swarmOut = <<>>
    /\ WrapperPoll
    /\ polledEvents' = polledEvents + 1
    /\ UNCHANGED <<channel, sent, swarmOut, transmitted, task, notified, chanWaker,
                   swarmWaker, exit, swarmErrors>>

\* Ok(Async::NotReady): the swarm registers the task; the service returns.
SwarmNotReady ==
    /\ task = "swarm" /\ swarmOut = <<>> /\ ~WrapperPollReady
    /\ swarmWaker' = TRUE
    /\ TaskReturn
    /\ UNCHANGED <<wrapperVars, channel, sent, swarmOut, transmitted, polledEvents,
                   notified, chanWaker, exit, swarmErrors>>

\* Err(_) => break: the service returns NotReady with no registration held
\* by the swarm.
SwarmError ==
    /\ task = "swarm" /\ swarmErrors > 0
    /\ swarmErrors' = swarmErrors - 1
    /\ TaskReturn
    /\ UNCHANGED <<wrapperVars, channel, sent, swarmOut, transmitted, polledEvents,
                   notified, chanWaker, swarmWaker, exit>>

TaskStep ==
    \/ TaskWake
    \/ ChannelMessage \/ ChannelNotReady
    \/ SwarmTransmit \/ SwarmEvent \/ SwarmNotReady \/ SwarmError

Init ==
    /\ WrapperInit
    /\ channel = <<>> /\ sent = 0 /\ swarmOut = <<>> /\ transmitted = <<>>
    /\ polledEvents = 0
    /\ task = "idle"
    /\ notified = TRUE              \* a spawned task is polled once
    /\ chanWaker = FALSE /\ swarmWaker = FALSE
    /\ exit = FALSE
    /\ swarmErrors = MaxSwarmErrors

Next ==
    \/ TaskStep
    \/ \E m \in NetworkMessage : Send(m)
    \/ NetworkEvent
    \/ Exit

\* The executor polls every notified task; the application, the network and
\* the exit signal are under no obligation to act.
Spec == Init /\ [][Next]_vars /\ WF_vars(TaskStep)

-----------------------------------------------------------------------------
(* Properties                                                              *)

TypeOK ==
    /\ channel \in Seq((1..MaxSends) \X NetworkMessage)
    /\ sent \in 0..MaxSends
    /\ swarmOut \in Seq((1..MaxSends) \X (1..MaxTopics))
    /\ transmitted \in Seq((1..MaxSends) \X (1..MaxTopics))
    /\ task \in {"idle", "channel", "swarm", "done"}
    /\ {notified, chanWaker, swarmWaker, exit} \subseteq BOOLEAN
    /\ swarmErrors \in 0..MaxSwarmErrors

\* What the application asks of a message, stated from the message alone:
\* an RPC send is one handover, a publish one per topic in its list.
PartCount(msg) == IF msg.type = "Send" THEN 1 ELSE Len(msg.topics)
Parts(no, msg) == {<<no, i>> : i \in 1..PartCount(msg)}

\* The refinement mapping: a part is pending while its message is in the
\* channel or it is queued in the swarm, delivered once the swarm has sent it
\* out, and the service is closed once the Select with the exit oneshot has
\* completed.  A message has a part per call the behaviour makes for it.
Forwarder == INSTANCE MessageForwarder WITH
    MaxParts  <- MaxTopics,
    pending   <- UNION {Parts(channel[i][1], channel[i][2]) : i \in DOMAIN channel}
                    \cup ToSet(swarmOut),
    delivered <- ToSet(transmitted),
    closed    <- (task = "done")

\* network_service implements MessageForwarder: each channel receive and
\* swarm send-out is one abstract step or none, no message is sent out twice
\* or before it was sent, a message hands the swarm exactly the parts it asks
\* for (one per topic of a publish), and while the task runs it does not go to sleep on
\* pending work (the wake-up registrations of both loops).
ForwarderRefined == Forwarder!Spec

\* Every event the behaviour queues is eventually taken by the service,
\* unless the service has been shut down.
EventsPolled ==
    \A n \in 1..MaxInputs :
        (polledEvents + Len(events) >= n) ~> (polledEvents >= n \/ task = "done")

=============================================================================
