---------------------------- MODULE RpcBehaviour ----------------------------
(***************************************************************************)
(* The RPC sub-behaviour of src/core/network/src/rpc/mod.rs.               *)
(*                                                                         *)
(* Its whole state is `events`, a FIFO (a Vec drained with remove(0)) of   *)
(* NetworkBehaviourAction<RPCSend, RPCMessage>.  The operators below take  *)
(* that queue and return the queue after the call; the composite          *)
(* behaviour (MothraBehaviour) owns the variable.                          *)
(*                                                                         *)
(* Payloads are abstracted to the protocol name: "Ping", "MetaData",       *)
(* "Goodbye", "Status" for requests and "Pong", "MetaData", "Status",      *)
(* "Error" for responses.                                                  *)
(***************************************************************************)
EXTENDS Sequences

CONSTANT Behaviour      \* RequestId::Behaviour, the id of requests the core issues itself

\* NetworkBehaviourAction::NotifyHandler { peer_id, handler, event: RPCSend }.
\* `handler` is a ConnectionId (NotifyHandler::One) or "Any".
NotifyAction(peer, handler, send) ==
    [kind |-> "Notify", peer |-> peer, handler |-> handler, send |-> send]

\* NetworkBehaviourAction::GenerateEvent(RPCMessage { peer_id, conn_id, event }).
GenerateAction(peer, conn, event) ==
    [kind |-> "Generate", peer |-> peer, conn |-> conn, event |-> event]

\* RPCSend::Request(RequestId, RPCRequest) and RPCSend::Response(SubstreamId, _).
RequestSend(id, req) == [type |-> "Request", id |-> id, req |-> req]
ResponseSend(sub, resp) == [type |-> "Response", sub |-> sub, resp |-> resp]

\* The handler's OutEvent, Result<RPCReceived, HandlerErr>, one record per variant.
ReceivedRequest(sub, req) == [res |-> "Request", sub |-> sub, req |-> req]
ReceivedResponse(id, resp) == [res |-> "Response", id |-> id, resp |-> resp]
InboundErr(sub, proto) == [res |-> "InboundErr", sub |-> sub, proto |-> proto]
OutboundErr(id, proto) == [res |-> "OutboundErr", id |-> id, proto |-> proto]

\* RPC::send_response: the response goes to the one connection named by the
\* PeerRequestId (ConnectionId, SubstreamId); the substream id travels in the payload.
send_response(events, peer, id, resp) ==
    Append(events, NotifyAction(peer, id[1], ResponseSend(id[2], resp)))

\* RPC::send_request: a new outbound request goes to any connection of the peer.
send_request(events, peer, request_id, req) ==
    Append(events, NotifyAction(peer, "Any", RequestSend(request_id, req)))

\* RPC::inject_connected: ask every newly connected peer for its metadata,
\* under the behaviour's own request id.
inject_connected(events, peer) ==
    Append(events, NotifyAction(peer, "Any", RequestSend(Behaviour, "MetaData")))

\* RPC::inject_event: every handler outcome is handed up unchanged.
inject_event(events, peer, conn, event) ==
    Append(events, GenerateAction(peer, conn, event))

\* RPC::poll yields the head of the queue, or Pending when it is empty.
RpcPollReady(events) == events # <<>>

=============================================================================
