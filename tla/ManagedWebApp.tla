---------------------------- MODULE ManagedWebApp ----------------------------
(***************************************************************************)
(* smokeWebApp and verifyWebApp: start the start script of the workspace   *)
(* as a process group of its own, poll its URL until it answers, let a     *)
(* browser open it (verify only), and terminate the group.                 *)
(*                                                                         *)
(* Besides the call there are the script's leader process, the server it   *)
(* starts, and other processes of the machine that listen on ports.  A     *)
(* call of this module runs while the one before may have left a server.   *)
(***************************************************************************)
EXTENDS Naturals

CONSTANTS
  Ports,         \* ports an app may listen on
  MaxAttempts    \* polls of one call; 120 in the code

ASSUME WebAssumption == MaxAttempts \in Nat

VARIABLES
  pc,         \* where the call is
  kind,       \* which of the two calls it is
  attempt,    \* polls that have failed
  port,       \* the port of the URL: the chosen one, then the announced one
  leader,     \* child: its exit code is null, zero or not, or it died by a signal
  listener,   \* who listens on each port
  page,       \* the response of verify's poll was ok
  result      \* what the last call returned

webVars == <<pc, kind, attempt, port, leader, listener, page, result>>

Running == {"polling", "fetching", "browsing", "closing", "terminating", "grace"}

WebTypeOK ==
  /\ pc \in {"idle", "installing", "spawning", "crashed"} \cup Running
  /\ kind \in {"smoke", "verify"}
  /\ attempt \in 0..MaxAttempts
  /\ port \in Ports
  /\ leader \in {"none", "running", "exited", "failed", "killed"}
  /\ listener \in [Ports -> {"nobody", "app", "other"}]
  /\ page \in BOOLEAN
  /\ result \in {"none", "passed", "failed"}

WebInit ==
  /\ pc = "idle" /\ kind = "smoke" /\ attempt = 0
  /\ port \in Ports
  /\ leader = "none"
  /\ listener \in [Ports -> {"nobody", "other"}]
  /\ page = FALSE
  /\ result = "none"

-----------------------------------------------------------------------------
(* The call. *)

ExitCodeKnown == leader \in {"exited", "failed"}

\* startManagedWebApp reads package.json; without a start script the call fails, and
\* a framework without node_modules is installed first.  What an earlier call has
\* left is by now somebody else's.
Call(k) ==
  /\ pc = "idle"
  /\ kind' = k
  /\ listener' = [p \in Ports |-> IF listener[p] = "app" THEN "other" ELSE listener[p]]
  /\ leader' = "none"
  /\ \/ pc' \in {"installing", "spawning"} /\ result' = "none"
     \/ pc' = "idle" /\ result' = "failed"
  /\ UNCHANGED <<attempt, port, page>>

InstallEnds ==
  /\ pc = "installing"
  /\ \/ pc' = "spawning" /\ UNCHANGED result
     \/ pc' = "idle" /\ result' = "failed"
  /\ UNCHANGED <<kind, attempt, port, leader, listener, page>>

Spawn ==
  /\ pc = "spawning"
  /\ pc' = "polling"
  /\ leader' = "running"
  /\ port' \in Ports
  /\ attempt' = 0
  /\ page' = FALSE
  /\ UNCHANGED <<kind, listener, result>>

\* Nobody listens to the child's error event: a pnpm that cannot be started ends
\* the process of the harness.
SpawnFails ==
  /\ pc = "spawning"
  /\ pc' = "crashed"
  /\ UNCHANGED <<kind, attempt, port, leader, listener, page, result>>

Terminate(r) == pc' = "terminating" /\ result' = r

\* Faulty: a refused connection is not counted.
NotReached_Uncounted == pc' = "polling" /\ UNCHANGED <<attempt, result>>

\* fetch throws, or its body ends early: sleep, and try again.
NotReached == pc' = "polling" /\ attempt' = attempt + 1 /\ UNCHANGED result

\* Only smoke looks at the exit code, and a script that ended with 0 is polled on.
Poll ==
  /\ pc = "polling"
  /\ \/ /\ attempt = MaxAttempts \/ (kind = "smoke" /\ leader = "failed")
        /\ Terminate("failed")
        /\ UNCHANGED attempt
     \/ /\ attempt < MaxAttempts /\ ~(kind = "smoke" /\ leader = "failed")
        /\ IF listener[port] = "nobody" THEN NotReached
           ELSE pc' = "fetching" /\ UNCHANGED <<attempt, result>>
  /\ UNCHANGED <<kind, port, leader, listener, page>>

\* The response, of whoever listens; without a listener the connection breaks.
Response ==
  /\ pc = "fetching"
  /\ \/ /\ listener[port] # "nobody"
        /\ \E ok \in BOOLEAN :
             IF kind = "smoke"
             THEN Terminate(IF ok THEN "passed" ELSE "failed") /\ UNCHANGED page
             ELSE pc' = "browsing" /\ page' = ok /\ UNCHANGED result
        /\ UNCHANGED attempt
     \/ listener[port] = "nobody" /\ NotReached /\ UNCHANGED page
  /\ UNCHANGED <<kind, port, leader, listener>>

\* playwright open ends with success or not, or could not be started.
BrowserEnds ==
  /\ pc = "browsing"
  /\ pc' = "closing"
  /\ \E success \in BOOLEAN : result' = IF page /\ success THEN "passed" ELSE "failed"
  /\ UNCHANGED <<kind, attempt, port, leader, listener, page>>

BrowserCloses ==
  /\ pc = "closing"
  /\ pc' = "terminating"
  /\ UNCHANGED <<kind, attempt, port, leader, listener, page, result>>

-----------------------------------------------------------------------------
(* terminateChild *)

\* SIGTERM: the leader and its servers end or ignore it.
Signal ==
  /\ pc = "terminating"
  /\ \/ ExitCodeKnown /\ pc' = "idle" /\ UNCHANGED <<leader, listener>>
     \/ /\ ~ExitCodeKnown
        /\ pc' = "grace"
        /\ leader' \in IF leader = "running" THEN {"running", "exited", "failed", "killed"}
                       ELSE {leader}
        /\ listener' \in [Ports -> {"nobody", "app", "other"}]
        /\ \A p \in Ports : IF listener[p] = "app" THEN listener'[p] # "other"
                            ELSE listener'[p] = listener[p]
  /\ UNCHANGED <<kind, attempt, port, page, result>>

\* Faulty: SIGTERM is thought to be enough.
Kill_Never ==
  /\ pc = "grace"
  /\ pc' = "idle"
  /\ UNCHANGED <<kind, attempt, port, leader, listener, page, result>>

\* 250 ms later.  A leader that ended with a code ends the matter.
Kill ==
  /\ pc = "grace"
  /\ pc' = "idle"
  /\ IF ExitCodeKnown THEN UNCHANGED <<leader, listener>>
     ELSE /\ leader' = "killed"
          /\ listener' = [p \in Ports |-> IF listener[p] = "app" THEN "nobody" ELSE listener[p]]
  /\ UNCHANGED <<kind, attempt, port, page, result>>

-----------------------------------------------------------------------------
(* The start script and the machine. *)

\* The app listens, on the port it was given or on its own, which it announces.
AppListens ==
  /\ pc \in Running /\ leader = "running"
  /\ \A p \in Ports : listener[p] # "app"
  /\ \E p \in Ports :
       /\ listener[p] = "nobody"
       /\ listener' = [listener EXCEPT ![p] = "app"]
       /\ port' = p
  /\ UNCHANGED <<pc, kind, attempt, leader, page, result>>

\* The leader ends, with its server or leaving it in the background.
LeaderEnds ==
  /\ pc \in Running /\ leader = "running"
  /\ leader' \in {"exited", "failed", "killed"}
  /\ \/ UNCHANGED listener
     \/ listener' = [p \in Ports |-> IF listener[p] = "app" THEN "nobody" ELSE listener[p]]
  /\ UNCHANGED <<pc, kind, attempt, port, page, result>>

OtherStops(p) ==
  /\ listener[p] = "other"
  /\ listener' = [listener EXCEPT ![p] = "nobody"]
  /\ UNCHANGED <<pc, kind, attempt, port, leader, page, result>>

CallStep ==
  \/ InstallEnds \/ Spawn \/ SpawnFails \/ Poll \/ Response
  \/ BrowserEnds \/ BrowserCloses \/ Signal \/ Kill

WebNext ==
  \/ \E k \in {"smoke", "verify"} : Call(k)
  \/ CallStep
  \/ AppListens \/ LeaderEnds
  \/ \E p \in Ports : OtherStops(p)

\* Whoever accepts a connection answers, an install and a browser come to an end,
\* and the event loop goes on: none of them is under a timeout.
WebSpec == WebInit /\ [][WebNext]_webVars /\ WF_webVars(CallStep)

-----------------------------------------------------------------------------
(* Properties. *)

\* A call leaves a server of its group behind only when the leader had ended with
\* an exit code, which terminateChild takes for the end of the group.
OrphansNeedExit ==
  pc = "idle" /\ (leader = "running" \/ \E p \in Ports : listener[p] = "app") => ExitCodeKnown

\* Every call comes to its end, whether the app never listens, exits, moves to
\* another port, or ignores signals.
CallReturns == pc \in Running ~> pc = "idle"
=============================================================================
