------------------------------ MODULE ExampleApp ------------------------------
(***************************************************************************)
(* The example application, src/examples/rust/src/main.rs: two threads.   *)
(*                                                                         *)
(* The main thread parses the arguments and builds the runtime (either     *)
(* unwrap may panic), then block_on's a future that spawns the publisher   *)
(* on the blocking pool and awaits SIGINT.  After SIGINT it fires the      *)
(* network exit signal and calls runtime.shutdown_timeout(300 ms); when    *)
(* main returns the process exits and every thread with it.                *)
(*                                                                         *)
(* The publisher (spawn_blocking) calls Mothra::new(..).unwrap() and then  *)
(* loops forever: sleep 5 s, gossip one message.  Its JoinHandle is        *)
(* dropped, so a panic of it is seen by no one.                            *)
(*                                                                         *)
(* The mothra crate (Mothra::new, gossip, TaskExecutor) is outside the     *)
(* sources; what its service does with a gossip is not modelled, only that *)
(* the publisher calls it.  SIGINT arriving before the ctrl_c listener is  *)
(* installed takes the default disposition and terminates the process.    *)
(***************************************************************************)
EXTENDS Naturals

CONSTANT MaxGossip      \* bound on the publisher's loop iterations

ASSUME MaxGossip \in Nat

VARIABLES
    main,           \* "start", "running" (in block_on), "shutdown", "dropping",
                    \* "exited", "aborted"
    publisher,      \* "none", "starting", "looping", "panicked"
    sigint,         \* SIGINT has been delivered
    gossiped        \* gossip calls made

vars == <<main, publisher, sigint, gossiped>>

\* The process has exited: main returned or panicked, or a signal killed it.
ProcessExited == main \in {"exited", "aborted"}

-----------------------------------------------------------------------------
(* The main thread.                                                        *)

\* Argument parsing, Mothra::get_config, logging and Runtime::new succeed;
\* block_on spawns the publisher and installs the ctrl_c listener.
Startup ==
    /\ main = "start"
    /\ main' = "running"
    /\ publisher' = "starting"
    /\ UNCHANGED <<sigint, gossiped>>

\* subcommand_matches("mothra").unwrap() (no mothra subcommand) or the
\* runtime's unwrap panics: the process exits.
StartupFails ==
    /\ main = "start"
    /\ main' = "aborted"
    /\ UNCHANGED <<publisher, sigint, gossiped>>

\* ctrl_c().await.expect(..): listening for the signal fails; the panic
\* leaves block_on and unwinds main, which drops the Runtime.  The listener
\* fails when it is registered, before it could have caught a signal.
ListenFails ==
    /\ main = "running" /\ ~sigint
    /\ main' = "dropping"
    /\ UNCHANGED <<publisher, sigint, gossiped>>

\* The Runtime's drop waits, with no timeout, for the blocking pool: it
\* completes only once the publisher thread has ended, which it does only
\* by panicking.  Then the panic ends the process.
RuntimeDropped ==
    /\ main = "dropping"
    /\ publisher = "panicked"
    /\ main' = "aborted"
    /\ UNCHANGED <<publisher, sigint, gossiped>>

(* Faults a change to this code could plausibly introduce, each defined    *)
(* before the operator it would replace.                                   *)
ShutdownWaitsForBlocking ==     \* a shutdown that waits for the blocking pool
    /\ main = "shutdown"
    /\ publisher # "looping"
    /\ main' = "exited"
    /\ UNCHANGED <<publisher, sigint, gossiped>>

\* SIGINT received: block_on returns and network_exit_signal.fire() tells
\* the mothra service to stop; the publisher is not told.
Shutdown ==
    /\ main = "running" /\ sigint
    /\ main' = "shutdown"
    /\ UNCHANGED <<publisher, sigint, gossiped>>

\* shutdown_timeout(300 ms): the publisher's loop never ends, so the runtime
\* gives up on the blocking pool after the timeout; main returns.
ShutdownTimeout ==
    /\ main = "shutdown"
    /\ main' = "exited"
    /\ UNCHANGED <<publisher, sigint, gossiped>>

\* The steps main takes whenever it runs (ListenFails is a possible outcome,
\* never an obligation).
MainProceeds == Startup \/ StartupFails \/ Shutdown \/ ShutdownTimeout \/ RuntimeDropped

-----------------------------------------------------------------------------
(* The publisher thread, which runs only while the process does.           *)

\* Mothra::new(..).unwrap(): the service starts, or the thread panics.
MothraNew ==
    /\ ~ProcessExited /\ publisher = "starting"
    /\ publisher' \in {"looping", "panicked"}
    /\ UNCHANGED <<main, sigint, gossiped>>

\* One iteration of the loop: sleep, then gossip(network_send.clone(), ..).
Gossip ==
    /\ ~ProcessExited /\ publisher = "looping"
    /\ gossiped < MaxGossip
    /\ gossiped' = gossiped + 1
    /\ UNCHANGED <<main, publisher, sigint>>

-----------------------------------------------------------------------------
(* The user.                                                               *)

\* SIGINT: caught by the listener once block_on runs; before, or after the
\* listener failed to install, the default disposition kills the process.
Sigint ==
    /\ ~sigint /\ ~ProcessExited
    /\ sigint' = TRUE
    /\ main' = IF main \in {"start", "dropping"} THEN "aborted" ELSE main
    /\ UNCHANGED <<publisher, gossiped>>

Init ==
    /\ main = "start" /\ publisher = "none"
    /\ sigint = FALSE /\ gossiped = 0

Next == MainProceeds \/ ListenFails \/ MothraNew \/ Gossip \/ Sigint

\* Both threads run once scheduled: the runtime drives block_on, the timeout
\* of shutdown_timeout expires, the blocking pool runs its thread.  The user
\* may never press Ctrl-C.
Spec == Init /\ [][Next]_vars /\ WF_vars(MainProceeds) /\ WF_vars(MothraNew)

-----------------------------------------------------------------------------
(* Properties                                                              *)

\* Ctrl-C ends the process even though the publisher's loop never returns:
\* main does not wait for the blocking thread past shutdown_timeout.
SigintExits == sigint ~> ProcessExited

=============================================================================
