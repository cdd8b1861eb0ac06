--------------------------- MODULE DebuggerSession ---------------------------
(***************************************************************************)
(* What a remote client is promised about stopping the program, without a  *)
(* word on how the backend keeps the promise: a session is detached, idle  *)
(* (debugger not enabled), running or paused; the program is blocked only  *)
(* by a pause, and whoever leaves the paused session (by a resume or step  *)
(* command, by disabling the debugger or by disconnecting) releases it.    *)
(***************************************************************************)
VARIABLES
  session,   \* what the client may do
  blocked,   \* the program waits inside a break
  released   \* the wait is over, the program has not yet gone on

vars == <<session, blocked, released>>

TypeOK ==
  /\ session \in {"detached", "idle", "running", "paused"}
  /\ blocked \in BOOLEAN /\ released \in BOOLEAN

Init == session = "detached" /\ blocked = FALSE /\ released = FALSE

\* A client connects; the program may still be leaving an earlier break only
\* after it was released, and no client is let in before it has gone on.
Attach ==
  /\ session = "detached" /\ ~released
  /\ session' = "idle"
  /\ UNCHANGED <<blocked, released>>

TurnOn ==
  /\ session = "idle" /\ ~released
  /\ session' = "running"
  /\ UNCHANGED <<blocked, released>>

\* The client disables the debugger (to "idle") or goes away ("detached").
Leave(to) ==
  /\ session # "detached" /\ session # to /\ ~released
  /\ session' = to
  /\ released' = blocked
  /\ UNCHANGED blocked

Stop ==
  /\ session = "running" /\ ~blocked
  /\ session' = "paused" /\ blocked' = TRUE
  /\ UNCHANGED released

\* A resume or step command.
Release ==
  /\ session = "paused" /\ blocked /\ ~released
  /\ released' = TRUE
  /\ UNCHANGED <<session, blocked>>

\* The program goes on.  It was released, or it ended its own wait.
GoOn ==
  /\ blocked /\ (released \/ session = "paused")
  /\ session' = IF session = "paused" THEN "running" ELSE session
  /\ blocked' = FALSE /\ released' = FALSE

Next ==
  \/ Attach \/ TurnOn \/ Leave("idle") \/ Leave("detached")
  \/ Stop \/ Release \/ GoOn

Spec == Init /\ [][Next]_vars /\ WF_vars(released /\ GoOn)

\* Nobody but a paused client keeps the program waiting.
BlockedOnlyByPause == blocked /\ ~released => session = "paused"
=============================================================================
