------------------------- MODULE ManagedWebAppProofs -------------------------
(***************************************************************************)
(* For every set of ports and every number of attempts: the state of a     *)
(* smoke or verify call keeps its types, and a server outlives the call    *)
(* only if the script's leader had ended with an exit code.                *)
(*                                                                         *)
(* OrphansNeedExit speaks of a call that is over.  It is inductive once it *)
(* is known that a call which has not spawned its script owns no process.  *)
(* That attempts stay in their range rests on a second fact: a response is *)
(* awaited only while there are attempts left.                             *)
(***************************************************************************)
EXTENDS ManagedWebApp, TLAPS

OwnsNothing == leader = "none" /\ \A p \in Ports : listener[p] # "app"

BeforeSpawn == pc \in {"installing", "spawning"} => OwnsNothing

AttemptsLeft == pc = "fetching" => attempt < MaxAttempts

Managed == WebTypeOK /\ AttemptsLeft /\ BeforeSpawn /\ OrphansNeedExit

LEMMA InitManaged == WebInit => Managed
<1> SUFFICES ASSUME WebInit PROVE Managed
  OBVIOUS
<1>1. 0 \in 0..MaxAttempts
  BY WebAssumption DEF WebAssumption
<1>2. listener \in [Ports -> {"nobody", "app", "other"}]
  BY DEF WebInit
<1>3. WebTypeOK
  BY <1>1, <1>2 DEF WebInit, WebTypeOK
<1>4. AttemptsLeft /\ BeforeSpawn /\ OrphansNeedExit
  BY DEF WebInit, AttemptsLeft, BeforeSpawn, OrphansNeedExit, ExitCodeKnown
<1>5. QED
  BY <1>3, <1>4 DEF Managed

-----------------------------------------------------------------------------
(* Every step of the call keeps the invariant. *)

LEMMA CallManaged == Managed /\ (\E k \in {"smoke", "verify"} : Call(k)) => Managed'
<1> SUFFICES ASSUME Managed, NEW k \in {"smoke", "verify"}, Call(k) PROVE Managed'
  OBVIOUS
<1>1. WebTypeOK'
  BY DEF Managed, WebTypeOK, Call, Running
<1>2. AttemptsLeft'
  BY DEF Call, AttemptsLeft
<1>3. OwnsNothing'
  BY DEF Managed, WebTypeOK, Call, OwnsNothing
<1>4. BeforeSpawn' /\ OrphansNeedExit'
  BY <1>3 DEF BeforeSpawn, OwnsNothing, OrphansNeedExit
<1>5. QED
  BY <1>1, <1>2, <1>4 DEF Managed

LEMMA StartManaged == Managed /\ (InstallEnds \/ Spawn \/ SpawnFails) => Managed'
<1> SUFFICES ASSUME Managed, InstallEnds \/ Spawn \/ SpawnFails PROVE Managed'
  OBVIOUS
<1>1. WebTypeOK'
  <2>1. CASE InstallEnds
    BY <2>1 DEF Managed, WebTypeOK, InstallEnds, Running
  <2>2. CASE Spawn
    <3>1. 0 \in 0..MaxAttempts
      BY WebAssumption DEF WebAssumption
    <3>2. QED
      BY <2>2, <3>1 DEF Managed, WebTypeOK, Spawn, Running
  <2>3. CASE SpawnFails
    BY <2>3 DEF Managed, WebTypeOK, SpawnFails, Running
  <2>4. QED
    BY <2>1, <2>2, <2>3
<1>2. OwnsNothing
  BY DEF Managed, BeforeSpawn, InstallEnds, Spawn, SpawnFails
<1>3. AttemptsLeft' /\ BeforeSpawn' /\ OrphansNeedExit'
  BY <1>2 DEF InstallEnds, Spawn, SpawnFails, AttemptsLeft, BeforeSpawn, OrphansNeedExit,
     OwnsNothing
<1>4. QED
  BY <1>1, <1>3 DEF Managed

LEMMA PollManaged == Managed /\ Poll => Managed'
<1> SUFFICES ASSUME Managed, Poll PROVE Managed'
  OBVIOUS
<1>1. WebTypeOK'
  BY WebAssumption DEF WebAssumption, Managed, WebTypeOK, Poll, NotReached, Terminate, Running
<1>2. AttemptsLeft' /\ BeforeSpawn' /\ OrphansNeedExit'
  BY WebAssumption DEF WebAssumption, Managed, WebTypeOK, Poll, NotReached, Terminate, AttemptsLeft,
     BeforeSpawn, OrphansNeedExit
<1>3. QED
  BY <1>1, <1>2 DEF Managed

LEMMA ResponseManaged == Managed /\ Response => Managed'
<1> SUFFICES ASSUME Managed, Response PROVE Managed'
  OBVIOUS
<1>1. attempt < MaxAttempts
  BY DEF Managed, AttemptsLeft, Response
<1>2. WebTypeOK'
  BY <1>1, WebAssumption DEF WebAssumption, Managed, WebTypeOK, Response, NotReached,
     Terminate, Running
<1>3. AttemptsLeft' /\ BeforeSpawn' /\ OrphansNeedExit'
  BY DEF Response, NotReached, Terminate, AttemptsLeft, BeforeSpawn, OrphansNeedExit
<1>4. QED
  BY <1>2, <1>3 DEF Managed

LEMMA BrowserManaged == Managed /\ (BrowserEnds \/ BrowserCloses) => Managed'
<1> SUFFICES ASSUME Managed, BrowserEnds \/ BrowserCloses PROVE Managed'
  OBVIOUS
<1>1. WebTypeOK'
  BY DEF Managed, WebTypeOK, BrowserEnds, BrowserCloses, Running
<1>2. AttemptsLeft' /\ BeforeSpawn' /\ OrphansNeedExit'
  BY DEF BrowserEnds, BrowserCloses, AttemptsLeft, BeforeSpawn, OrphansNeedExit
<1>3. QED
  BY <1>1, <1>2 DEF Managed

-----------------------------------------------------------------------------
(* terminateChild ends the call, and with it the group unless its leader has *)
(* an exit code.                                                              *)

LEMMA SignalManaged == Managed /\ Signal => Managed'
<1> SUFFICES ASSUME Managed, Signal PROVE Managed'
  OBVIOUS
<1>1. WebTypeOK'
  BY DEF Managed, WebTypeOK, Signal, Running
<1>2. CASE ExitCodeKnown /\ pc' = "idle" /\ UNCHANGED <<leader, listener>>
  BY <1>1, <1>2 DEF Managed, AttemptsLeft, BeforeSpawn, OrphansNeedExit, ExitCodeKnown
<1>3. CASE pc' = "grace"
  BY <1>1, <1>3 DEF Managed, AttemptsLeft, BeforeSpawn, OrphansNeedExit
<1>4. QED
  BY <1>2, <1>3 DEF Signal

LEMMA KillManaged == Managed /\ Kill => Managed'
<1> SUFFICES ASSUME Managed, Kill PROVE Managed'
  OBVIOUS
<1>1. WebTypeOK'
  BY DEF Managed, WebTypeOK, Kill, Running
<1>2. pc' = "idle"
  BY DEF Kill
<1>3. OrphansNeedExit'
  <2>1. CASE ExitCodeKnown
    BY <2>1 DEF Kill, OrphansNeedExit, ExitCodeKnown
  <2>2. CASE ~ExitCodeKnown
    BY <2>2 DEF Managed, WebTypeOK, Kill, OrphansNeedExit
  <2>3. QED
    BY <2>1, <2>2
<1>4. QED
  BY <1>1, <1>2, <1>3 DEF Managed, AttemptsLeft, BeforeSpawn

-----------------------------------------------------------------------------
(* Nothing the script or the machine does makes a server of a call that is   *)
(* over.                                                                      *)

LEMMA WorldManaged ==
  Managed /\ (AppListens \/ LeaderEnds \/ \E p \in Ports : OtherStops(p)) => Managed'
<1> SUFFICES ASSUME Managed, AppListens \/ LeaderEnds \/ \E p \in Ports : OtherStops(p)
             PROVE  Managed'
  OBVIOUS
<1>1. CASE AppListens
  BY <1>1 DEF Managed, WebTypeOK, AppListens, AttemptsLeft, BeforeSpawn, OrphansNeedExit, Running
<1>2. CASE LeaderEnds
  <2>1. WebTypeOK'
    BY <1>2 DEF Managed, WebTypeOK, LeaderEnds
  <2>2. QED
    BY <1>2, <2>1 DEF Managed, LeaderEnds, AttemptsLeft, BeforeSpawn, OrphansNeedExit, Running
<1>3. CASE \E p \in Ports : OtherStops(p)
  <2>1. WebTypeOK'
    BY <1>3 DEF Managed, WebTypeOK, OtherStops
  <2>2. \A p \in Ports : listener'[p] = "app" => listener[p] = "app"
    BY <1>3 DEF Managed, WebTypeOK, OtherStops
  <2>3. QED
    BY <1>3, <2>1, <2>2 DEF Managed, OtherStops, AttemptsLeft, BeforeSpawn, OwnsNothing,
       OrphansNeedExit, ExitCodeKnown
<1>4. QED
  BY <1>1, <1>2, <1>3

LEMMA NextManaged == Managed /\ [WebNext]_webVars => Managed'
<1> SUFFICES ASSUME Managed, [WebNext]_webVars PROVE Managed'
  OBVIOUS
<1>1. CASE WebNext
  BY <1>1, CallManaged, StartManaged, PollManaged, ResponseManaged, BrowserManaged,
     SignalManaged, KillManaged, WorldManaged DEF WebNext, CallStep
<1>2. CASE UNCHANGED webVars
  BY <1>2 DEF webVars, Managed, WebTypeOK, AttemptsLeft, BeforeSpawn, OwnsNothing,
     OrphansNeedExit, ExitCodeKnown
<1>3. QED
  BY <1>1, <1>2

LEMMA SpecManaged == WebSpec => []Managed
  BY InitManaged, NextManaged, PTL DEF WebSpec

\* The state of a call keeps its types: never more attempts than the limit, and a
\* result for every call that is over.
THEOREM WebTypeCorrect == WebSpec => []WebTypeOK
<1>1. Managed => WebTypeOK
  BY DEF Managed
<1>2. QED
  BY <1>1, SpecManaged, PTL

\* When smokeWebApp or verifyWebApp has returned, no process of its group runs
\* unless the leader had ended with an exit code, whatever ports the app and others
\* listen on and whatever ignores SIGTERM.
THEOREM OrphansAlwaysNeedExit == WebSpec => []OrphansNeedExit
<1>1. Managed => OrphansNeedExit
  BY DEF Managed
<1>2. QED
  BY <1>1, SpecManaged, PTL
=============================================================================
