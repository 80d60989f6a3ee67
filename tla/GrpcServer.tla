----------------------------- MODULE GrpcServer -----------------------------
(***************************************************************************)
(* The life of the server process from the moment it listens (main.cc):    *)
(* handler threads that share the pool of module PgPool, the signal        *)
(* handler that sets g_shutdown_requested, the detached thread that polls  *)
(* the flag every 200 ms and calls server->Shutdown(now + 5 s), and main,  *)
(* which sits in server->Wait() and then destroys the services and the     *)
(* pool.                                                                   *)
(*                                                                         *)
(* grpc::Server is external.  From Shutdown on it admits no RPC; at the    *)
(* deadline it cancels the calls that are still open, which no handler of  *)
(* this program looks at; Shutdown and Wait return when the last handler   *)
(* has returned.                                                           *)
(***************************************************************************)
EXTENDS PgPool

VARIABLE phase

serverVars == <<vars, phase>>

Phases ==
    { "serving",    \* main is in server->Wait()
      "signalled",  \* g_shutdown_requested is set
      "draining",   \* the hook called server->Shutdown(deadline)
      "cancelled",  \* the deadline passed with handlers still running
      "exited" }    \* Wait() returned; services and pool are destroyed

ServerTypeOK == TypeOK /\ phase \in Phases

ServerInit == Init /\ phase = "serving"

\* HandleSignal.
Signal ==
    /\ phase = "serving"
    /\ phase' = "signalled"
    /\ UNCHANGED vars

\* The hook's loop sees the flag and calls Shutdown.
HookShutdown ==
    /\ phase = "signalled"
    /\ phase' = "draining"
    /\ UNCHANGED vars

\* Mutant of DeadlinePasses: the process ends at the deadline.
DeadlineExits ==
    /\ phase = "draining"
    /\ \E t \in Threads : pc[t] # "idle"
    /\ phase' = "exited"
    /\ UNCHANGED vars

\* gRPC cancels the open calls; the handlers do not look.
DeadlinePasses ==
    /\ phase = "draining"
    /\ \E t \in Threads : pc[t] # "idle"
    /\ phase' = "cancelled"
    /\ UNCHANGED vars

\* Wait() returns and main leaves the scope that owns the pool.
WaitReturns ==
    /\ phase \in {"draining", "cancelled"}
    /\ \A t \in Threads : pc[t] = "idle"
    /\ phase' = "exited"
    /\ UNCHANGED vars

\* gRPC dispatches RPCs until Shutdown is called.
Dispatch(t) ==
    /\ phase \in {"serving", "signalled"}
    /\ \E r \in Rpcs : StartRpc(t, r)
    /\ UNCHANGED phase

HandlerStep(t) ==
    /\ Step(t) \/ SpuriousWakeup(t)
    /\ UNCHANGED phase

Exited ==
    /\ phase = "exited"
    /\ UNCHANGED serverVars

ServerNext ==
    \/ Signal
    \/ HookShutdown
    \/ DeadlinePasses
    \/ WaitReturns
    \/ \E t \in Threads : Dispatch(t) \/ HandlerStep(t)
    \/ Exited

(***************************************************************************)
(* Fairness: that of the handler threads (PgPool), and the hook's loop and *)
(* gRPC's own threads keep running.  Nobody has to send a signal.          *)
(***************************************************************************)
ServerSpec ==
    /\ ServerInit
    /\ [][ServerNext]_serverVars
    /\ Fairness
    /\ WF_serverVars(HookShutdown)
    /\ WF_serverVars(WaitReturns)

-----------------------------------------------------------------------------

\* Nothing touches the pool after main destroyed it: at exit every connection
\* is back in idle_ and no thread is inside acquire() or release(), its
\* notify_one after the unlock included.
PoolQuietAtExit ==
    phase = "exited" =>
        /\ mu = NoThread
        /\ Len(idle) = Size
        /\ \A t \in Threads : pc[t] = "idle"

\* main.cc announces "SIGINT/SIGTERM -> graceful shutdown within 5s": once
\* the signal is delivered the process ends.
GracefulShutdown == phase = "signalled" ~> phase = "exited"

=============================================================================
