--------------------------- MODULE MessageForwarder ---------------------------
(***************************************************************************)
(* What the network service promises the application (spec.md, the        *)
(* NetworkMessage channel of src/src/api_libp2p/network.rs): every message *)
(* sent on the channel is handed to the swarm and sent out, each of its    *)
(* parts once, and keeps being so until the service is shut down.  A      *)
(* message has one part per handover it asks for (one for an RPC send, one *)
(* per topic for a publish).  Messages are numbered in the order they are  *)
(* sent; the swarm may send the parts out in any order.                    *)
(***************************************************************************)
EXTENDS Naturals

CONSTANTS
    MaxSends,       \* bound on the application's sends
    MaxParts        \* bound on the parts of one message

VARIABLES
    sent,           \* messages sent so far
    pending,        \* <<message, part>> sent and not yet sent out
    delivered,      \* <<message, part>> sent out
    closed          \* the service has shut down

fwdVars == <<sent, pending, delivered, closed>>

Init == sent = 0 /\ pending = {} /\ delivered = {} /\ closed = FALSE

\* The application sends the next message, of some number of parts.
Send ==
    /\ sent < MaxSends
    /\ sent' = sent + 1
    /\ \E parts \in 0..MaxParts :
          pending' = pending \cup {<<sent + 1, i>> : i \in 1..parts}
    /\ UNCHANGED <<delivered, closed>>

\* A running service sends out one pending part.
Transmit ==
    /\ ~closed
    /\ \E e \in pending :
          /\ pending' = pending \ {e}
          /\ delivered' = delivered \cup {e}
    /\ UNCHANGED <<sent, closed>>

\* The service shuts down; what is still pending stays undelivered.
Close ==
    /\ ~closed
    /\ closed' = TRUE
    /\ UNCHANGED <<sent, pending, delivered>>

Next == Send \/ Transmit \/ Close

\* A running service with pending parts does not stay idle.
Spec == Init /\ [][Next]_fwdVars /\ WF_fwdVars(Transmit)

=============================================================================
