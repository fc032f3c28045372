--------------------------- MODULE MothraBehaviour ---------------------------
(***************************************************************************)
(* The composite network behaviour of src/core/network/src/behaviour/mod.rs *)
(* driven by a swarm.                                                      *)
(*                                                                         *)
(* The behaviour owns three sub-behaviours (gossipsub, the RPC of          *)
(* RpcBehaviour, identify), a peer manager, the public event queue         *)
(* `events` and the pending-disconnect queue `peers_to_dc`.  The swarm     *)
(* calls inject_* between polls and calls poll repeatedly; poll drains the *)
(* sub-behaviours in the fixed order gossipsub, RPC, identify, custom_poll *)
(* and returns at the first action it produces.                            *)
(*                                                                         *)
(* One poll call is a run of steps, one per iteration of the code's loops, *)
(* tagged by `phase`.  Poll holds &mut self, so nothing else acts while    *)
(* phase # "Idle": every swarm, peer, peer-manager and application input   *)
(* is enabled only in phase "Idle", and a poll, once started, runs to its  *)
(* return.                                                                 *)
(*                                                                         *)
(* Gossipsub, identify, the peer manager, the per-connection handler and   *)
(* the remote peers are collaborators whose code is not in this            *)
(* repository's sources: they are the environment, producing the actions,  *)
(* events and commands the code consumes.  The per-connection handler      *)
(* (behaviour/handler.rs, RPCHandler) is modelled from spec.md 4.1.        *)
(***************************************************************************)
EXTENDS Naturals, Sequences, FiniteSets, SequencesExt, RpcBehaviour

CONSTANTS
    Peer,               \* remote peers
    Conn,               \* ConnectionIds
    ConnPeer,           \* ConnPeer[c]: the peer at the other end of connection c
    Substream,          \* SubstreamIds the RPC handler stamps on inbound requests
    AppId,              \* RequestIds the application may choose (never Behaviour)
    InboundProtocols,   \* requests remote peers may send
    PeerManagerEvents,  \* PeerManagerEvent variants the peer manager may yield
    GossipsubEvents,    \* what gossipsub's poll may yield
    IdentifyEvents,     \* what identify's poll may yield
    AddrCounts,         \* lengths of listen-address lists peers identify with
    MAX_IDENTIFY_ADDRESSES,
    MaxInputs,          \* bound on spontaneous inputs (peers, peer manager, application)
    NoInfo              \* identified[p] before peer p has identified itself

ASSUME
    /\ ConnPeer \in [Conn -> Peer]
    /\ Behaviour \notin AppId
    /\ InboundProtocols \subseteq {"Ping", "MetaData", "Goodbye", "Status"}
    /\ PeerManagerEvents \subseteq
         {"Dial", "SocketUpdated", "Status", "Ping", "MetaData", "DisconnectPeer"}
    /\ GossipsubEvents \subseteq {"Message", "Subscribed", "Unsubscribed", "NotifyHandler"}
    /\ IdentifyEvents \subseteq {"Received", "Sent", "Error", "NotifyHandler"}
    /\ AddrCounts \subseteq Nat /\ MAX_IDENTIFY_ADDRESSES \in Nat
    /\ MaxInputs \in Nat
    /\ NoInfo \notin Nat

VARIABLES
    \* --- the behaviour (behaviour/mod.rs) ---
    phase,          \* "Idle" between polls, else the part of poll being run
    gossipsub,      \* actions gossipsub's poll will yield, in order
    rpc,            \* RPC.events of rpc/mod.rs
    identify,       \* actions identify's poll will yield, in order
    peerManager,    \* events the peer manager's stream will yield, in order
    events,         \* Behaviour.events: public events not yet returned
    peers_to_dc,    \* Behaviour.peers_to_dc
    identified,     \* identified[p]: listen addresses last passed to peer_manager.identify
    \* --- the swarm, handlers and application around it ---
    conn,           \* conn[c] \in {"Idle", "Open", "Closing", "Closed"}
    outstanding,    \* outbound requests handed to a handler, outcome not yet reported
    inbound,        \* every inbound request a handler has reported, with `at` = Len(out) then
    out,            \* every action poll has returned to the swarm, in order
    appAnswered,    \* <<conn, substream>> pairs the application has answered
    appIds,         \* AppIds the application has used
    budget,         \* spontaneous inputs left
    awake           \* the swarm's task will poll the behaviour (it has been woken)

behaviourVars == <<phase, gossipsub, rpc, identify, peerManager, events, peers_to_dc, identified>>
envVars == <<conn, outstanding, inbound, out, appAnswered, appIds, budget>>
vars == <<behaviourVars, envVars, awake>>

-----------------------------------------------------------------------------
(* Values                                                                  *)

ConnsOf(p) == {c \in Conn : ConnPeer[c] = p}


\* BehaviourEvent variants (public events).
RPCFailed(p, id) == [type |-> "RPCFailed", peer |-> p, id |-> id]
RequestReceived(p, c, s, req) ==
    [type |-> "RequestReceived", peer |-> p, conn |-> c, sub |-> s, req |-> req]
ResponseReceived(p, id, resp) == [type |-> "ResponseReceived", peer |-> p, id |-> id, resp |-> resp]
PubsubMessage(p) == [type |-> "PubsubMessage", peer |-> p]
PeerSubscribed(p) == [type |-> "PeerSubscribed", peer |-> p]
StatusPeer(p) == [type |-> "StatusPeer", peer |-> p]

\* BehaviourHandlerIn: Delegate(DelegateIn::_) or Shutdown(Option<(RequestId, RPCRequest)>).
Delegate(to, payload) == [tag |-> "Delegate", to |-> to, payload |-> payload]
Shutdown(final) == [tag |-> "Shutdown", final |-> final]
Goodbye == <<[id |-> Behaviour, req |-> "Goodbye"]>>

\* NetworkBehaviourAction values poll returns to the swarm.
NotifyHandler(p, h, ev) == [act |-> "NotifyHandler", peer |-> p, handler |-> h, event |-> ev]
DialPeer(p) == [act |-> "DialPeer", peer |-> p]
ReportObservedAddr == [act |-> "ReportObservedAddr"]
GenerateEvent(e) == [act |-> "GenerateEvent", event |-> e]

-----------------------------------------------------------------------------
(* The swarm hands a returned action to the connection handlers.           *)
(* A NotifyHandler to a peer with no live connection is dropped.           *)

Live(p) == {c \in ConnsOf(p) : conn[c] \in {"Open", "Closing"}}

\* Handler side of a returned action (spec.md 4.1, the handler is not under src/):
\* a request starts an outbound substream; Shutdown(Some(goodbye)) sends the
\* goodbye and starts closing that connection; Shutdown(None) closes them all.
Deliver(a) ==
    IF a.act = "NotifyHandler"
    THEN LET live == Live(a.peer)
             ev == a.event
         IN CASE ev.tag = "Shutdown" /\ ev.final = <<>> ->
                   /\ conn' = [c \in Conn |-> IF c \in live THEN "Closing" ELSE conn[c]]
                   /\ UNCHANGED outstanding
              [] ev.tag = "Shutdown" /\ live # {} ->
                   \E c \in live :
                      /\ conn' = [conn EXCEPT ![c] = "Closing"]
                      /\ outstanding' = outstanding \cup
                           {[peer |-> a.peer, conn |-> c, id |-> Behaviour, req |-> "Goodbye"]}
              [] ev.tag = "Delegate" /\ ev.to = "RPC" /\ ev.payload.type = "Request"
                   /\ live # {} ->
                   \E c \in live :
                      /\ outstanding' = outstanding \cup
                           {[peer |-> a.peer, conn |-> c, id |-> ev.payload.id, req |-> ev.payload.req]}
                      /\ UNCHANGED conn
              [] OTHER -> UNCHANGED <<conn, outstanding>>
    ELSE UNCHANGED <<conn, outstanding>>

\* poll returns Poll::Ready(a): the swarm records and delivers it, and the call ends.
Return(a) ==
    /\ out' = Append(out, a)
    /\ Deliver(a)
    /\ phase' = "Idle"

-----------------------------------------------------------------------------
(* Behaviour helpers (behaviour/mod.rs)                                    *)

(* Faults a change to this code could plausibly introduce, each defined   *)
(* before the operator it would replace; substituting one for its original *)
(* must make a property below fail.                                        *)
pong_dropped(q, id, p) == q                                  \* Ping consumed like a Pong
send_meta_data_response_pong(q, id, p) == send_response(q, p, id, "Pong")
inform_failure_unguarded(evs, id, p) == Append(evs, RPCFailed(p, id))
on_identify_event_untruncated(e) ==
    IF e.event = "Received" THEN identified' = [identified EXCEPT ![e.peer] = e.addrs]
    ELSE UNCHANGED identified

ping(q, id, p) == send_request(q, p, id, "Ping")
pong(q, id, p) == send_response(q, p, id, "Pong")
send_meta_data_request(q, p) == send_request(q, p, Behaviour, "MetaData")
send_meta_data_response(q, id, p) == send_response(q, p, id, "MetaData")

\* Behaviour::propagate_response: only responses to requests issued outside
\* the behaviour are surfaced.
propagate_response(evs, id, p, resp) ==
    IF id # Behaviour THEN Append(evs, ResponseReceived(p, id, resp)) ELSE evs

\* The Outbound arm of on_rpc_event: only failures of application requests
\* are surfaced as RPCFailed.
inform_failure(evs, id, p) ==
    IF id # Behaviour THEN Append(evs, RPCFailed(p, id)) ELSE evs

\* Behaviour::on_gossip_event.
on_gossip_event(e) ==
    CASE e.event = "Message" -> Append(events, PubsubMessage(e.peer))
      [] e.event = "Subscribed" -> Append(events, PeerSubscribed(e.peer))
      [] OTHER -> events

\* Behaviour::on_rpc_event(message); `rest` is the RPC queue after poll removed message.
on_rpc_event(m, rest) ==
    LET ev == m.event
        p == m.peer
    IN
    \/ /\ ev.res = "InboundErr"             \* only the peer manager is told
       /\ rpc' = rest
       /\ UNCHANGED <<events, peers_to_dc>>
    \/ /\ ev.res = "OutboundErr"            \* peer manager told; surfaced unless internal
       /\ rpc' = rest
       /\ events' = inform_failure(events, ev.id, p)
       /\ UNCHANGED peers_to_dc
    \/ /\ ev.res = "Request"
       /\ LET peer_request_id == <<m.conn, ev.sub>> IN
          CASE ev.req = "Ping" ->
                 /\ rpc' = pong(rest, peer_request_id, p)
                 /\ UNCHANGED <<events, peers_to_dc>>
            [] ev.req = "MetaData" ->
                 /\ rpc' = send_meta_data_response(rest, peer_request_id, p)
                 /\ UNCHANGED <<events, peers_to_dc>>
            [] ev.req = "Goodbye" ->
                 /\ rpc' = rest
                 /\ peers_to_dc' = Append(peers_to_dc, p)
                 /\ UNCHANGED events
            [] ev.req = "Status" ->
                 /\ rpc' = rest
                 /\ events' = Append(events, RequestReceived(p, m.conn, ev.sub, "Status"))
                 /\ UNCHANGED peers_to_dc
    \/ /\ ev.res = "Response"
       /\ rpc' = rest
       /\ events' = IF ev.resp = "Status"
                    THEN propagate_response(events, ev.id, p, "Status")
                    ELSE events                 \* Pong and MetaData stay in the behaviour
       /\ UNCHANGED peers_to_dc

\* Behaviour::on_identify_event: truncate the address list, hand it to the peer manager.
on_identify_event(e) ==
    IF e.event = "Received"
    THEN identified' = [identified EXCEPT ![e.peer] =
                          IF e.addrs > MAX_IDENTIFY_ADDRESSES
                          THEN MAX_IDENTIFY_ADDRESSES ELSE e.addrs]
    ELSE UNCHANGED identified

-----------------------------------------------------------------------------
(* Behaviour::poll: the poll_behaviour! loop over each sub-behaviour.       *)

GossipsubPending ==
    /\ phase \in {"Idle", "Gossipsub"}
    /\ gossipsub = <<>>
    /\ phase' = "RPC"
    /\ UNCHANGED <<gossipsub, rpc, identify, peerManager, events, peers_to_dc, identified, envVars>>

GossipsubGenerateEvent ==
    /\ phase \in {"Idle", "Gossipsub"}
    /\ gossipsub # <<>> /\ Head(gossipsub).kind = "Generate"
    /\ events' = on_gossip_event(Head(gossipsub))
    /\ gossipsub' = Tail(gossipsub)
    /\ phase' = "Gossipsub"
    /\ UNCHANGED <<rpc, identify, peerManager, peers_to_dc, identified, envVars>>

GossipsubNotifyHandler ==
    /\ phase \in {"Idle", "Gossipsub"}
    /\ gossipsub # <<>> /\ Head(gossipsub).kind = "Notify"
    /\ gossipsub' = Tail(gossipsub)
    /\ Return(NotifyHandler(Head(gossipsub).peer, Head(gossipsub).handler, Delegate("Gossipsub", "-")))
    /\ UNCHANGED <<rpc, identify, peerManager, events, peers_to_dc, identified,
                   inbound, appAnswered, appIds, budget>>

RpcPending ==
    /\ phase = "RPC"
    /\ ~RpcPollReady(rpc)
    /\ phase' = "Identify"
    /\ UNCHANGED <<gossipsub, rpc, identify, peerManager, events, peers_to_dc, identified, envVars>>

RpcGenerateEvent ==
    /\ phase = "RPC"
    /\ RpcPollReady(rpc) /\ Head(rpc).kind = "Generate"
    /\ on_rpc_event(Head(rpc), Tail(rpc))
    /\ UNCHANGED <<phase, gossipsub, identify, peerManager, identified, envVars>>

RpcNotifyHandler ==
    /\ phase = "RPC"
    /\ RpcPollReady(rpc) /\ Head(rpc).kind = "Notify"
    /\ rpc' = Tail(rpc)
    /\ Return(NotifyHandler(Head(rpc).peer, Head(rpc).handler, Delegate("RPC", Head(rpc).send)))
    /\ UNCHANGED <<gossipsub, identify, peerManager, events, peers_to_dc, identified,
                   inbound, appAnswered, appIds, budget>>

IdentifyPending ==
    /\ phase = "Identify"
    /\ identify = <<>>
    /\ phase' = "Custom"
    /\ UNCHANGED <<gossipsub, rpc, identify, peerManager, events, peers_to_dc, identified, envVars>>

IdentifyGenerateEvent ==
    /\ phase = "Identify"
    /\ identify # <<>> /\ Head(identify).kind = "Generate"
    /\ on_identify_event(Head(identify))
    /\ identify' = Tail(identify)
    /\ UNCHANGED <<phase, gossipsub, rpc, peerManager, events, peers_to_dc, envVars>>

IdentifyNotifyHandler ==
    /\ phase = "Identify"
    /\ identify # <<>> /\ Head(identify).kind = "Notify"
    /\ identify' = Tail(identify)
    /\ Return(NotifyHandler(Head(identify).peer, Head(identify).handler, Delegate("Identify", "-")))
    /\ UNCHANGED <<gossipsub, rpc, peerManager, events, peers_to_dc, identified,
                   inbound, appAnswered, appIds, budget>>


(* Behaviour::custom_poll.                                                 *)

\* Fault: the queue's head read but not popped.
CustomPollDisconnectPeek ==
    /\ phase = "Custom"
    /\ peers_to_dc # <<>>
    /\ Return(NotifyHandler(Head(peers_to_dc), "All", Shutdown(<<>>)))
    /\ UNCHANGED <<gossipsub, rpc, identify, peerManager, events, peers_to_dc, identified,
                   inbound, appAnswered, appIds, budget>>

\* A queued disconnection goes first: shut every connection of the peer down.
CustomPollDisconnect ==
    /\ phase = "Custom"
    /\ peers_to_dc # <<>>
    /\ peers_to_dc' = Tail(peers_to_dc)
    /\ Return(NotifyHandler(Head(peers_to_dc), "All", Shutdown(<<>>)))
    /\ UNCHANGED <<gossipsub, rpc, identify, peerManager, events, identified,
                   inbound, appAnswered, appIds, budget>>

\* One turn of the loop over the peer manager's stream.  Ping and MetaData
\* queue an RPC request and continue the loop; every other event returns.
CustomPollPeerManager ==
    /\ phase = "Custom"
    /\ peers_to_dc = <<>>
    /\ peerManager # <<>>
    /\ LET e == Head(peerManager)
           p == e.peer
       IN /\ peerManager' = Tail(peerManager)
          /\ CASE e.event = "Dial" ->
                    /\ Return(DialPeer(p))
                    /\ UNCHANGED <<rpc, peers_to_dc>>
               [] e.event = "SocketUpdated" ->
                    /\ Return(ReportObservedAddr)
                    /\ UNCHANGED <<rpc, peers_to_dc>>
               [] e.event = "Status" ->
                    /\ Return(GenerateEvent(StatusPeer(p)))
                    /\ UNCHANGED <<rpc, peers_to_dc>>
               [] e.event = "Ping" ->
                    /\ rpc' = ping(rpc, Behaviour, p)
                    /\ UNCHANGED <<phase, peers_to_dc, out, conn, outstanding>>
               [] e.event = "MetaData" ->
                    /\ rpc' = send_meta_data_request(rpc, p)
                    /\ UNCHANGED <<phase, peers_to_dc, out, conn, outstanding>>
               [] e.event = "DisconnectPeer" ->
                    /\ peers_to_dc' = Append(peers_to_dc, p)
                    /\ Return(NotifyHandler(p, "Any", Shutdown(Goodbye)))
                    /\ UNCHANGED rpc
    /\ UNCHANGED <<gossipsub, identify, events, identified,
                   inbound, appAnswered, appIds, budget>>

\* The peer manager is pending: return the oldest public event, or Pending.
CustomPollEvents ==
    /\ phase = "Custom"
    /\ peers_to_dc = <<>>
    /\ peerManager = <<>>
    /\ \/ /\ events # <<>>
          /\ events' = Tail(events)
          /\ Return(GenerateEvent(Head(events)))
       \/ /\ events = <<>>
          /\ phase' = "Idle"
          /\ UNCHANGED <<events, out, conn, outstanding>>
    /\ UNCHANGED <<gossipsub, rpc, identify, peerManager, peers_to_dc, identified,
                   inbound, appAnswered, appIds, budget>>

PollStep ==
    \/ GossipsubPending \/ GossipsubGenerateEvent \/ GossipsubNotifyHandler
    \/ RpcPending \/ RpcGenerateEvent \/ RpcNotifyHandler
    \/ IdentifyPending \/ IdentifyGenerateEvent \/ IdentifyNotifyHandler
    \/ CustomPollDisconnect \/ CustomPollPeerManager \/ CustomPollEvents

-----------------------------------------------------------------------------
(* Inputs between polls: the swarm's inject_* calls, the collaborators'     *)
(* queues and the application's calls.                                     *)

\* A spontaneous input: only between polls, and only MaxInputs of them.
Input == phase = "Idle" /\ budget > 0 /\ budget' = budget - 1
Reaction == phase = "Idle" /\ UNCHANGED budget

\* inject_connection_established, then inject_connected for a peer's first
\* connection, delegated to every sub-behaviour (only RPC keeps state).
ConnectionEstablished(c) ==
    /\ Input
    /\ conn[c] = "Idle"
    /\ conn' = [conn EXCEPT ![c] = "Open"]
    /\ rpc' = IF Live(ConnPeer[c]) = {} THEN inject_connected(rpc, ConnPeer[c]) ELSE rpc
    /\ UNCHANGED <<phase, gossipsub, identify, peerManager, events, peers_to_dc, identified,
                   outstanding, inbound, out, appAnswered, appIds>>

\* inject_connection_closed (and inject_disconnected): no state of the
\* behaviour changes; the handler's outstanding substreams are gone.
CloseConnection(c) ==
    /\ conn' = [conn EXCEPT ![c] = "Closed"]
    /\ outstanding' = {o \in outstanding : o.conn # c}
    /\ UNCHANGED <<behaviourVars, inbound, out, appAnswered, appIds>>

\* The remote end or the transport drops an open connection.
ConnectionLost(c) == Input /\ conn[c] = "Open" /\ CloseConnection(c)

\* A handler told to shut down finishes closing its connection.
ConnectionClosed(c) == Reaction /\ conn[c] = "Closing" /\ CloseConnection(c)

\* A peer opens a substream on an open connection and sends a request; the
\* handler stamps it with a SubstreamId unused on that connection.
InboundRequest(c, s, req) ==
    /\ Input
    /\ conn[c] = "Open"
    /\ \A r \in inbound : r.conn = c => r.sub # s
    /\ inbound' = inbound \cup
         {[peer |-> ConnPeer[c], conn |-> c, sub |-> s, req |-> req, at |-> Len(out)]}
    /\ rpc' = inject_event(rpc, ConnPeer[c], c, ReceivedRequest(s, req))
    /\ UNCHANGED <<phase, gossipsub, identify, peerManager, events, peers_to_dc, identified,
                   conn, outstanding, out, appAnswered, appIds>>

\* An inbound substream fails: the response timed out or an error was sent.
InboundFailure(r) ==
    /\ Input
    /\ r \in inbound /\ conn[r.conn] # "Closed"
    /\ rpc' = inject_event(rpc, r.peer, r.conn, InboundErr(r.sub, r.req))
    /\ UNCHANGED <<phase, gossipsub, identify, peerManager, events, peers_to_dc, identified,
                   conn, outstanding, inbound, out, appAnswered, appIds>>

ResponseTo(req) ==
    CASE req = "Ping" -> "Pong" [] req = "MetaData" -> "MetaData" [] req = "Status" -> "Status"

\* The outcome of an outbound request: the peer's response (a goodbye has
\* none and completes silently), or a handler error (timeout, rejection,
\* stream error).
OutboundOutcome(o) ==
    /\ Reaction
    /\ o \in outstanding
    /\ outstanding' = outstanding \ {o}
    /\ \/ /\ o.req # "Goodbye"
          /\ rpc' = inject_event(rpc, o.peer, o.conn, ReceivedResponse(o.id, ResponseTo(o.req)))
       \/ /\ o.req = "Goodbye"
          /\ UNCHANGED rpc
       \/ rpc' = inject_event(rpc, o.peer, o.conn, OutboundErr(o.id, o.req))
    /\ UNCHANGED <<phase, gossipsub, identify, peerManager, events, peers_to_dc, identified,
                   conn, inbound, out, appAnswered, appIds, budget>>

\* Gossipsub, identify and the peer manager have something new for poll.
GossipsubInput(e, p) ==
    /\ Input
    /\ gossipsub' = Append(gossipsub,
          IF e = "NotifyHandler" THEN [kind |-> "Notify", peer |-> p, handler |-> "Any"]
          ELSE [kind |-> "Generate", event |-> e, peer |-> p])
    /\ UNCHANGED <<phase, rpc, identify, peerManager, events, peers_to_dc, identified,
                   conn, outstanding, inbound, out, appAnswered, appIds>>

IdentifyInput(e, p, n) ==
    /\ Input
    /\ identify' = Append(identify,
          IF e = "NotifyHandler" THEN [kind |-> "Notify", peer |-> p, handler |-> "Any"]
          ELSE [kind |-> "Generate", event |-> e, peer |-> p, addrs |-> n])
    /\ UNCHANGED <<phase, gossipsub, rpc, peerManager, events, peers_to_dc, identified,
                   conn, outstanding, inbound, out, appAnswered, appIds>>

PeerManagerInput(e, p) ==
    /\ Input
    /\ peerManager' = Append(peerManager, [event |-> e, peer |-> p])
    /\ UNCHANGED <<phase, gossipsub, rpc, identify, events, peers_to_dc, identified,
                   conn, outstanding, inbound, out, appAnswered, appIds>>

\* Behaviour::send_request with an application RequestId (Request converts
\* to the RPCRequest of the same protocol).
SendRequest(p, id, req) ==
    /\ Input
    /\ id \notin appIds
    /\ appIds' = appIds \cup {id}
    /\ rpc' = send_request(rpc, p, id, req)
    /\ UNCHANGED <<phase, gossipsub, identify, peerManager, events, peers_to_dc, identified,
                   conn, outstanding, inbound, out, appAnswered>>

\* Behaviour::send_successful_response / _send_error_reponse, once, to a
\* RequestReceived the application was given.
SendResponse(i, resp) ==
    /\ Reaction
    /\ out[i].act = "GenerateEvent" /\ out[i].event.type = "RequestReceived"
    /\ LET e == out[i].event IN
         /\ <<e.conn, e.sub>> \notin appAnswered
         /\ appAnswered' = appAnswered \cup {<<e.conn, e.sub>>}
         /\ rpc' = send_response(rpc, e.peer, <<e.conn, e.sub>>, resp)
    /\ UNCHANGED <<phase, gossipsub, identify, peerManager, events, peers_to_dc, identified,
                   conn, outstanding, inbound, out, appIds>>

Environment ==
    \/ \E c \in Conn : ConnectionEstablished(c) \/ ConnectionLost(c) \/ ConnectionClosed(c)
    \/ \E c \in Conn, s \in Substream, req \in InboundProtocols : InboundRequest(c, s, req)
    \/ \E r \in inbound : InboundFailure(r)
    \/ \E o \in outstanding : OutboundOutcome(o)
    \/ \E e \in GossipsubEvents, p \in Peer : GossipsubInput(e, p)
    \/ \E e \in IdentifyEvents, p \in Peer, n \in AddrCounts : IdentifyInput(e, p, n)
    \/ \E e \in PeerManagerEvents, p \in Peer : PeerManagerInput(e, p)
    \/ \E p \in Peer, id \in AppId, req \in {"Status", "Goodbye"} : SendRequest(p, id, req)
    \/ \E i \in DOMAIN out, resp \in {"Status", "Error"} : SendResponse(i, resp)

-----------------------------------------------------------------------------

Init ==
    /\ phase = "Idle"
    /\ gossipsub = <<>> /\ rpc = <<>> /\ identify = <<>> /\ peerManager = <<>>
    /\ events = <<>> /\ peers_to_dc = <<>>
    /\ identified = [p \in Peer |-> NoInfo]
    /\ conn = [c \in Conn |-> "Idle"]
    /\ outstanding = {} /\ inbound = {} /\ out = <<>>
    /\ appAnswered = {} /\ appIds = {}
    /\ budget = MaxInputs
    /\ awake = TRUE

(* The task that drives the swarm.  A poll starts only when the task has    *)
(* been woken.  After Poll::Ready the swarm polls the behaviour again.      *)
(* After Poll::Pending the task sleeps until a registered waker fires:     *)
(* gossipsub, identify and the peer manager register the Context they are  *)
(* polled with, the swarm polls after each inject_* call, and the          *)
(* application's calls are made by the task that polls the swarm next.    *)
(* RPC::poll ignores its Context (rpc/mod.rs:189), so nothing wakes the    *)
(* task for a request custom_poll queues in the RPC after polling it.      *)
PollStepScheduled ==
    /\ phase = "Idle" => awake
    /\ PollStep
    /\ awake' = (phase' # "Idle" \/ Len(out') > Len(out))

EnvironmentWakes == Environment /\ awake' = TRUE

Next == PollStepScheduled \/ EnvironmentWakes

\* A woken task is polled, and a poll in progress runs to its return.
Spec == Init /\ [][Next]_vars /\ WF_vars(PollStepScheduled)


-----------------------------------------------------------------------------
(* Properties                                                              *)

Request == {"Ping", "MetaData", "Goodbye", "Status"}
ResponseKind == {"Pong", "MetaData", "Status", "Error"}
RequestId == AppId \cup {Behaviour}
RpcSend == [type : {"Request"}, id : RequestId, req : Request]
             \cup [type : {"Response"}, sub : Substream, resp : ResponseKind]
HandlerOutEvent ==
    [res : {"Request"}, sub : Substream, req : Request]
      \cup [res : {"Response"}, id : RequestId, resp : ResponseKind]
      \cup [res : {"InboundErr"}, sub : Substream, proto : Request]
      \cup [res : {"OutboundErr"}, id : RequestId, proto : Request]
RpcAction == [kind : {"Notify"}, peer : Peer, handler : Conn \cup {"Any"}, send : RpcSend]
               \cup [kind : {"Generate"}, peer : Peer, conn : Conn, event : HandlerOutEvent]
PublicEvent ==
    [type : {"RPCFailed"}, peer : Peer, id : RequestId]
      \cup [type : {"RequestReceived"}, peer : Peer, conn : Conn, sub : Substream, req : Request]
      \cup [type : {"ResponseReceived"}, peer : Peer, id : RequestId, resp : ResponseKind]
      \cup [type : {"PubsubMessage", "PeerSubscribed", "StatusPeer"}, peer : Peer]

\* Type invariant.  identified[p] is NoInfo or a list the behaviour truncated.
TypeOK ==
    /\ phase \in {"Idle", "Gossipsub", "RPC", "Identify", "Custom"}
    /\ rpc \in Seq(RpcAction)
    /\ events \in Seq(PublicEvent)
    /\ peers_to_dc \in Seq(Peer)
    /\ identified \in [Peer -> (0..MAX_IDENTIFY_ADDRESSES) \cup {NoInfo}]
    /\ conn \in [Conn -> {"Idle", "Open", "Closing", "Closed"}]
    /\ outstanding \subseteq [peer : Peer, conn : Conn, id : RequestId, req : Request]
    /\ budget \in 0..MaxInputs
    /\ awake \in BOOLEAN

IsRpc(a) == a.act = "NotifyHandler" /\ a.event.tag = "Delegate" /\ a.event.to = "RPC"
IsResponse(a) == IsRpc(a) /\ a.event.payload.type = "Response"
IsRequestTo(a, p, id) ==
    IsRpc(a) /\ a.peer = p /\ a.event.payload.type = "Request" /\ a.event.payload.id = id

\* Which response answers which request.
Answers == {<<"Ping", "Pong">>, <<"MetaData", "MetaData">>,
            <<"Status", "Status">>, <<"Status", "Error">>}

(* Every response the behaviour hands to the swarm (pong and metadata built *)
(* in on_rpc_event, application responses through send_response) goes to   *)
(* the connection and substream of a request that same peer made, answers  *)
(* that request's protocol, and is the only response on that substream:    *)
(* the PeerRequestId (ConnectionId, SubstreamId) survives the trip through *)
(* the RPC queue, the public event and the application.                    *)
ResponseRouting ==
    \A i \in DOMAIN out : IsResponse(out[i]) =>
        LET a == out[i] IN
        /\ \E r \in inbound :
              /\ r.peer = a.peer /\ r.conn = a.handler /\ r.sub = a.event.payload.sub
              /\ <<r.req, a.event.payload.resp>> \in Answers
        /\ \A j \in DOMAIN out :
              (IsResponse(out[j]) /\ out[j].handler = a.handler
                 /\ out[j].event.payload.sub = a.event.payload.sub) => j = i

(* The outcome of a request the behaviour issued itself (the metadata      *)
(* request of inject_connected, the peer manager's pings and metadata      *)
(* requests, the goodbye of a disconnection) is never surfaced: every      *)
(* ResponseReceived or RPCFailed the swarm is given names an application   *)
(* RequestId, and a request with that id went to that peer before it.     *)
InternalOutcomesSilent ==
    \A i \in DOMAIN out :
        (out[i].act = "GenerateEvent" /\ out[i].event.type \in {"ResponseReceived", "RPCFailed"})
          => /\ out[i].event.id \in AppId
             /\ \E j \in 1..(i - 1) : IsRequestTo(out[j], out[i].event.peer, out[i].event.id)

ShutdownAllAfter(p, k) ==
    \E j \in (k + 1)..Len(out) : out[j] = NotifyHandler(p, "All", Shutdown(<<>>))

\* The behaviour's part in serving inbound request r.
Served(r) ==
    CASE r.req \in {"Ping", "MetaData"} ->
           \E i \in DOMAIN out : IsResponse(out[i]) /\ out[i].handler = r.conn
                                 /\ out[i].event.payload.sub = r.sub
      [] r.req = "Status" ->
           \E i \in DOMAIN out : out[i] = GenerateEvent(RequestReceived(r.peer, r.conn, r.sub, "Status"))
      [] r.req = "Goodbye" -> ShutdownAllAfter(r.peer, r.at)

(* Every inbound request is eventually served by poll: a ping or metadata   *)
(* request is answered locally, a status request reaches the application   *)
(* as RequestReceived, and a goodbye leads to Shutdown(None) on all of the *)
(* peer's connections, whatever gossipsub, identify and the peer manager   *)
(* queue ahead of it.                                                      *)
InboundRequestsServed ==
    \A c \in Conn, s \in Substream :
        (\E r \in inbound : r.conn = c /\ r.sub = s)
          ~> (\A r \in inbound : (r.conn = c /\ r.sub = s) => Served(r))

\* A returned action that shuts connections down, as DisconnectSequencer
\* records it.
IsShutdown(a) == a.act = "NotifyHandler" /\ a.event.tag = "Shutdown"
ShutdownRecord(a) == [peer |-> a.peer, to |-> a.handler, goodbye |-> a.event.final # <<>>]

\* The refinement mapping: the peers owed a close are the bag of peers_to_dc,
\* and the shutdowns are the Shutdown actions poll has returned, in order.
Sequencer == INSTANCE DisconnectSequencer WITH
    owed      <- ToBag(peers_to_dc),
    shutdowns <- LET sd == SelectSeq(out, IsShutdown)
                 IN  [i \in DOMAIN sd |-> ShutdownRecord(sd[i])]

(* The composite implements DisconnectSequencer: a peer is queued in       *)
(* peers_to_dc only by a Goodbye it sent (on_rpc_event) or together with   *)
(* the one goodbye to Any that DisconnectPeer returns (custom_poll); every  *)
(* Shutdown(None) to All pops one queued entry; and every entry is         *)
(* eventually popped, whatever the sub-behaviours queue ahead of it.       *)
DisconnectSequenced == Sequencer!Spec

(* spec.md 5: a Pending return promises that further progress re-wakes    *)
(* the task through a child's registration.  So every action queued in the *)
(* RPC (a reply, or a ping or metadata request of the peer manager) is     *)
(* eventually handed to the swarm.                                         *)
RpcQueueDrained == RpcPollReady(rpc) ~> ~RpcPollReady(rpc)

(* spec.md 3, invariant 4: a peer appears at most once in the              *)
(* pending-disconnect queue (peers_to_dc, pushed by on_rpc_event on a      *)
(* Goodbye and by custom_poll on DisconnectPeer).                          *)
DisconnectQueueNoDup ==
    \A i, j \in DOMAIN peers_to_dc : peers_to_dc[i] = peers_to_dc[j] => i = j

=============================================================================
