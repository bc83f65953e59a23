---------------------------- MODULE DaemonProofs ----------------------------
(***************************************************************************)
(* Single instance, for any number of processes and TUIs: whoever is past  *)
(* the lock holds it, whoever owns a name is past the lock or on its way   *)
(* out, and the pidfile begins with the holder's id or is empty.           *)
(***************************************************************************)
EXTENDS Daemon, SequenceTheorems, TLAPS

(* The lock has one holder, whose stage tells that it has it, and a name is *)
(* owned by a process at a stage that has asked for it.                     *)
LocksAndNames ==
  /\ stage \in [Daemons -> Stages]
  /\ \A d \in Daemons : stage[d] \in Holding => lock = d
  /\ control # NoOne => control \in Daemons /\ stage[control] \in {"serving", "leaving"}
  /\ mpris # NoOne => mpris \in Daemons /\ stage[mpris] \in Reachable

(* With what is written in the pidfile *)
SingleInstance ==
  /\ LocksAndNames
  /\ pidfile \in Seq(Nat)
  /\ PidfileNamesHolder

-----------------------------------------------------------------------------
(* Writing over a file from its start leaves what was written at its start  *)
(* (WritePid).                                                              *)
LEMMA OverwrittenBegins ==
  ASSUME NEW old \in Seq(Nat), NEW new \in Seq(Nat) \ {<<>>}
  PROVE  /\ Overwritten(old, new) \in Seq(Nat)
         /\ SubSeq(Overwritten(old, new), 1, Len(new)) = new
<1> DEFINE rest == SubSeq(old, Len(new) + 1, Len(old))
<1>1. rest \in Seq(Nat)
  <2>1. Len(new) \in Nat /\ Len(old) \in Nat
    OBVIOUS
  <2>2. \A i \in (Len(new) + 1)..Len(old) : i \in 1..Len(old)
    BY <2>1
  <2> QED
    BY <2>1, <2>2
<1> HIDE DEF rest
<1>2. new \o rest \in Seq(Nat)
  BY <1>1
<1>3. SubSeq(new \o rest, 1, Len(new)) = new
  BY <1>1
<1> QED
  BY <1>2, <1>3 DEF Overwritten, rest

(* Nobody has the control name when the holder of the lock asks for it      *)
(* (main.rs 85-91): no other daemon keeps it from it.                      *)
LEMMA ControlIsFree ==
  ASSUME NEW d \in Daemons, LocksAndNames, stage[d] = "registered"
  PROVE  control = NoOne
<1> SUFFICES ASSUME control # NoOne PROVE FALSE
  OBVIOUS
<1>1. control \in Daemons /\ stage[control] \in {"serving", "leaving"}
  BY DEF LocksAndNames
<1>2. lock = control /\ lock = d
  BY <1>1 DEF LocksAndNames, Holding
<1> QED
  BY <1>1, <1>2

(* A process that ends gives back what it owns and disturbs no other (the   *)
(* kernel's and the bus's part of a crash and of an exit).                  *)
LEMMA VanishKeeps ==
  ASSUME NEW d \in Daemons, SingleInstance, Vanish(d)
  PROVE  SingleInstance'
<1> USE DaemonAssumption DEF SingleInstance, LocksAndNames, Vanish, Disowned
<1>1. stage' \in [Daemons -> Stages]
  BY DEF Stages
<1>2. \A e \in Daemons : stage'[e] \in Holding => lock' = e
  BY DEF Holding
<1>3. control' # NoOne => control' \in Daemons /\ stage'[control'] \in {"serving", "leaving"}
  OBVIOUS
<1>4. mpris' # NoOne => mpris' \in Daemons /\ stage'[mpris'] \in Reachable
  OBVIOUS
<1>5. PidfileNamesHolder'
  BY DEF PidfileNamesHolder, Holding
<1> QED
  BY <1>1, <1>2, <1>3, <1>4, <1>5

(* Starting: open, lock, write, register twice (main.rs 44-91).             *)
LEMMA StartingKeeps ==
  ASSUME NEW d \in Daemons, SingleInstance, Starting(d)
  PROVE  SingleInstance'
<1> USE DaemonAssumption DEF SingleInstance, LocksAndNames, Goes, Stages, Holding, Reachable
<1>1. CASE OpenPidfile(d)
  BY <1>1 DEF OpenPidfile, PidfileNamesHolder
<1>2. CASE TryLock(d)
  <2>1. CASE lock # NoOne /\ stage[d] = "opened" /\ Vanish(d)
    BY <2>1, VanishKeeps
  <2>2. CASE /\ lock = NoOne
             /\ Goes(d, "opened", "locked")
             /\ lock' = d
             /\ UNCHANGED <<pidfile, mpris, control, Untouched>>
    <3>1. \A e \in Daemons : stage[e] \notin Holding
      BY <2>2
    <3>2. \A e \in Daemons : stage'[e] \in Holding => e = d
      BY <2>2, <3>1
    <3> QED
      BY <2>2, <3>1, <3>2 DEF PidfileNamesHolder
  <2> QED
    BY <1>2, <2>1, <2>2 DEF TryLock
<1>3. CASE WritePid(d)
  <2>1. Pid[d] \in Seq(Nat) \ {<<>>}
    OBVIOUS
  <2>2. /\ Overwritten(pidfile, Pid[d]) \in Seq(Nat)
        /\ SubSeq(Overwritten(pidfile, Pid[d]), 1, Len(Pid[d])) = Pid[d]
    BY <2>1, OverwrittenBegins
  <2>3. pidfile' \in Seq(Nat) /\ SubSeq(pidfile', 1, Len(Pid[d])) = Pid[d]
    BY <1>3, <2>2 DEF WritePid
  <2>4. \A e \in Daemons : stage'[e] \in Holding => e = d
    BY <1>3 DEF WritePid
  <2>5. PidfileNamesHolder'
    BY <2>3, <2>4 DEF PidfileNamesHolder
  <2> QED
    BY <1>3, <2>3, <2>5 DEF WritePid
<1>4. CASE RegisterMpris(d)
  <2>1. CASE mpris # NoOne /\ stage[d] = "written" /\ Vanish(d)
    BY <2>1, VanishKeeps
  <2>2. CASE mpris = NoOne /\ Goes(d, "written", "registered") /\ mpris' = d
               /\ UNCHANGED <<pidfile, lock, control, Untouched>>
    BY <2>2 DEF PidfileNamesHolder
  <2> QED
    BY <1>4, <2>1, <2>2 DEF RegisterMpris
<1>5. CASE RegisterControl(d)
  BY <1>5 DEF RegisterControl, PidfileNamesHolder
<1> QED
  BY <1>1, <1>2, <1>3, <1>4, <1>5 DEF Starting

(* Leaving: the control name goes before the lock (main.rs 111-119).        *)
LEMMA ShutDownKeeps ==
  ASSUME NEW d \in Daemons, SingleInstance, ShutDown(d)
  PROVE  SingleInstance'
BY DaemonAssumption
   DEF SingleInstance, LocksAndNames, PidfileNamesHolder, ShutDown, Goes, Stages, Holding,
       Reachable, shared

LEMMA LeavingKeeps ==
  ASSUME NEW d \in Daemons, SingleInstance, Leaving(d)
  PROVE  SingleInstance'
<1>1. CASE Notified(d)
  BY <1>1, ShutDownKeeps DEF Notified
<1>2. CASE Exit(d)
  BY <1>2, VanishKeeps DEF Exit
<1>3. CASE DropControl(d)
  BY <1>3 DEF SingleInstance, LocksAndNames, PidfileNamesHolder, DropControl
<1>4. CASE DropLock(d)
  <2>1. \A e \in Daemons : stage[e] \in Holding => e = d
    BY <1>4 DEF SingleInstance, LocksAndNames, DropLock, Goes, Holding
  <2> QED
    BY <1>4, <2>1, DaemonAssumption
       DEF SingleInstance, LocksAndNames, PidfileNamesHolder, DropLock, Goes, Stages, Holding,
           Reachable
<1> QED
  BY <1>1, <1>2, <1>3, <1>4 DEF Leaving

(* Every other step of a process or a client leaves stages, lock, names and *)
(* pidfile alone, or starts a process.                                      *)
LEMMA AloneKeeps ==
  ASSUME SingleInstance, UNCHANGED <<stage, shared>>
  PROVE  SingleInstance'
BY DEF SingleInstance, LocksAndNames, PidfileNamesHolder, shared

LEMMA StartKeeps ==
  ASSUME NEW d \in Daemons, SingleInstance, Goes(d, "off", "started"), UNCHANGED shared
  PROVE  SingleInstance'
BY DaemonAssumption
   DEF SingleInstance, LocksAndNames, PidfileNamesHolder, Goes, Stages, Holding, Reachable, shared

LEMMA StepKeeps ==
  ASSUME SingleInstance, [Next]_daemonVars
  PROVE  SingleInstance'
<1>1. ASSUME NEW d \in Daemons, Process(d)
      PROVE  SingleInstance'
  <2>1. CASE IdleTimer(d) \/ EngineTurn(d)
    BY <2>1, AloneKeeps DEF IdleTimer, take_activity, is_playing, EngineTurn
  <2> QED
    BY <1>1, <2>1, StartingKeeps, LeavingKeeps DEF Process
<1>2. ASSUME NEW d \in Daemons, Outside(d)
      PROVE  SingleInstance'
  <2>1. CASE StartByHand(d)
    BY <2>1, StartKeeps DEF StartByHand
  <2>2. CASE Signalled(d)
    BY <2>2, ShutDownKeeps DEF Signalled
  <2>3. CASE Crash(d)
    BY <2>3, VanishKeeps DEF Crash
  <2>4. CASE Quit(d) \/ Status(d) \/ Send(d)
    BY <2>4, AloneKeeps DEF Quit, Status, Send
  <2> QED
    BY <1>2, <2>1, <2>2, <2>3, <2>4 DEF Outside
<1>3. ASSUME NEW t \in Tuis, Front(t)
      PROVE  SingleInstance'
  <2>1. CASE Spawn(t)
    BY <2>1, StartKeeps DEF Spawn
  <2>2. CASE Launch(t) \/ Connect(t) \/ AskAgain(t) \/ Close(t)
    BY <2>2, AloneKeeps DEF Launch, Connect, AskAgain, Close
  <2> QED
    BY <1>3, <2>1, <2>2 DEF Front
<1>4. CASE UNCHANGED daemonVars
  BY <1>4, AloneKeeps DEF daemonVars
<1> QED
  BY <1>1, <1>2, <1>3, <1>4 DEF Next

LEMMA InitIsSingle == Init => SingleInstance
BY DaemonAssumption
   DEF Init, SingleInstance, LocksAndNames, PidfileNamesHolder, Stages, Holding

-----------------------------------------------------------------------------
(* Single instance and the pidfile, in every reachable state.               *)
THEOREM InstanceSafety == Spec => []SingleInstance
<1>1. Init => SingleInstance
  BY InitIsSingle
<1>2. SingleInstance /\ [Next]_daemonVars => SingleInstance'
  BY StepKeeps
<1> QED
  BY <1>1, <1>2, PTL DEF Spec

(* However many processes are started at once, and wherever they crash, at  *)
(* most one is past the lock, and names are owned by it or by one that is   *)
(* on its way out (AtMostOneServes).                                        *)
THEOREM OneServes == Spec => []AtMostOneServes
<1>1. SingleInstance => AtMostOneServes
  BY DEF SingleInstance, LocksAndNames, AtMostOneServes, Holding
<1> QED
  BY <1>1, InstanceSafety, PTL

(* The pidfile is empty or begins with the holder's id (PidfileNamesHolder). *)
THEOREM PidfileIsOurs == Spec => []PidfileNamesHolder
<1>1. SingleInstance => PidfileNamesHolder
  BY DEF SingleInstance
<1> QED
  BY <1>1, InstanceSafety, PTL
-----------------------------------------------------------------------------
(* The idle timer *)

(* Unless a client has called since the timer's last read of the flag, at    *)
(* least as many checks are behind that call as the timer has counted.       *)
CountsOnlyCalm(d) ==
  /\ timer[d] # "done" => idle_for[d] < IdleChecks
  /\ \/ activity[d]
     \/ idle_for[d] + (IF timer[d] = "between" THEN 1 ELSE 0) <= calm[d]

IdleTypes ==
  /\ activity \in [Daemons -> BOOLEAN]
  /\ timer \in [Daemons -> {"asleep", "between", "done"}]
  /\ idle_for \in [Daemons -> Nat]
  /\ calm \in [Daemons -> 0..IdleChecks]

EarnsIdle == IdleTypes /\ \A d \in Daemons : timer[d] # "done" => CountsOnlyCalm(d)

LEMMA ActiveKeepsIdle ==
  ASSUME NEW d \in Daemons, EarnsIdle, UNCHANGED <<timer, idle_for>>,
         activity' = [activity EXCEPT ![d] = TRUE],
         calm' = calm \/ calm' = [calm EXCEPT ![d] = 0]
  PROVE  EarnsIdle'
<1>1. IdleTypes'
  <2>1. IdleTypes
    BY DEF EarnsIdle
  <2> QED
    BY <2>1, DaemonAssumption DEF IdleTypes
<1> USE DaemonAssumption DEF EarnsIdle, IdleTypes, CountsOnlyCalm
<1>2. ASSUME NEW e \in Daemons, timer'[e] # "done"
      PROVE  CountsOnlyCalm(e)'
  BY <1>2
<1> QED
  BY <1>1, <1>2

LEMMA VanishKeepsIdle ==
  ASSUME NEW d \in Daemons, EarnsIdle, Vanish(d)
  PROVE  EarnsIdle'
<1>1. IdleTypes'
  <2>1. IdleTypes
    BY DEF EarnsIdle
  <2> QED
    BY <2>1, DaemonAssumption DEF IdleTypes, Vanish
<1> USE DaemonAssumption DEF EarnsIdle, IdleTypes, CountsOnlyCalm, Vanish
<1>2. ASSUME NEW e \in Daemons, timer'[e] # "done"
      PROVE  CountsOnlyCalm(e)'
  BY <1>2
<1> QED
  BY <1>1, <1>2

LEMMA TimerKeepsIdle ==
  ASSUME NEW d \in Daemons, EarnsIdle, IdleTimer(d)
  PROVE  EarnsIdle'
<1>0. IdleTypes
  BY DEF EarnsIdle
<1>1. CASE take_activity(d)
  <2>1. IdleTypes'
    <3>1. activity' \in [Daemons -> BOOLEAN] /\ idle_for' \in [Daemons -> Nat]
      BY <1>0, <1>1 DEF take_activity, IdleTypes
    <3>2. timer' \in [Daemons -> {"asleep", "between", "done"}]
      BY <1>0, <1>1 DEF take_activity, IdleTypes
    <3>3. calm' \in [Daemons -> 0..IdleChecks]
      BY <1>0, <1>1, DaemonAssumption DEF take_activity, IdleTypes
    <3> QED
      BY <3>1, <3>2, <3>3 DEF IdleTypes
  <2>2. ASSUME NEW e \in Daemons, timer'[e] # "done"
        PROVE  CountsOnlyCalm(e)'
    BY <1>1, <2>2, DaemonAssumption DEF take_activity, EarnsIdle, IdleTypes, CountsOnlyCalm
  <2> QED
    BY <2>1, <2>2 DEF EarnsIdle
<1>2. CASE is_playing(d)
  <2>1. IdleTypes'
    <3>1. Idle(d) \in Nat /\ activity' = activity
      BY <1>0, <1>2 DEF is_playing, Idle, IdleTypes, engine
    <3>2. idle_for' \in [Daemons -> Nat]
      BY <1>0, <1>2, <3>1 DEF is_playing, IdleTypes
    <3>3. timer' \in [Daemons -> {"asleep", "between", "done"}]
      BY <1>0, <1>2 DEF is_playing, IdleTypes
    <3>4. calm' \in [Daemons -> 0..IdleChecks]
      BY <1>0, <1>2, DaemonAssumption DEF is_playing, IdleTypes
    <3> QED
      BY <1>0, <3>1, <3>2, <3>3, <3>4 DEF IdleTypes
  <2>2. ASSUME NEW e \in Daemons, timer'[e] # "done"
        PROVE  CountsOnlyCalm(e)'
    BY <1>2, <2>2, DaemonAssumption
       DEF is_playing, Idle, engine, EarnsIdle, IdleTypes, CountsOnlyCalm
  <2> QED
    BY <2>1, <2>2 DEF EarnsIdle
<1> QED
  BY <1>1, <1>2 DEF IdleTimer

LEMMA UntouchedKeepsIdle ==
  ASSUME EarnsIdle, UNCHANGED <<activity, idleness>>
  PROVE  EarnsIdle'
BY DEF EarnsIdle, IdleTypes, CountsOnlyCalm, idleness

LEMMA StepKeepsIdle ==
  ASSUME EarnsIdle, [Next]_daemonVars
  PROVE  EarnsIdle'
<1> USE DEF Untouched, engine
<1>1. ASSUME NEW d \in Daemons, Starting(d)
      PROVE  EarnsIdle'
  <2>1. CASE Vanish(d)
    BY <2>1, VanishKeepsIdle
  <2>2. CASE UNCHANGED Untouched
    BY <2>2, UntouchedKeepsIdle
  <2> QED
    BY <1>1, <2>1, <2>2
       DEF Starting, OpenPidfile, TryLock, WritePid, RegisterMpris, RegisterControl
<1>2. ASSUME NEW d \in Daemons, Leaving(d) \/ Outside(d) \/ EngineTurn(d)
      PROVE  EarnsIdle'
  <2>1. CASE Exit(d) \/ Crash(d)
    BY <2>1, VanishKeepsIdle DEF Exit, Crash
  <2>2. CASE ShutDown(d)
    BY <2>2, ActiveKeepsIdle DEF ShutDown, idleness
  <2>3. CASE Status(d) \/ Send(d)
    BY <2>3, ActiveKeepsIdle DEF Status, Send, Active
  <2>4. CASE DropControl(d) \/ DropLock(d) \/ StartByHand(d) \/ Quit(d) \/ EngineTurn(d)
    BY <2>4, UntouchedKeepsIdle DEF DropControl, DropLock, StartByHand, Quit, EngineTurn
  <2> QED
    BY <1>2, <2>1, <2>2, <2>3, <2>4 DEF Leaving, Outside, Notified, Signalled
<1>3. ASSUME NEW t \in Tuis, Front(t)
      PROVE  EarnsIdle'
  <2>1. CASE Connect(t)
    <3>1. PICK d \in Daemons : /\ activity' = [activity EXCEPT ![d] = TRUE]
                               /\ calm' = [calm EXCEPT ![d] = 0]
      BY <2>1 DEF Connect
    <3> QED
      BY <2>1, <3>1, ActiveKeepsIdle DEF Connect
  <2>2. CASE Launch(t) \/ Spawn(t) \/ AskAgain(t) \/ Close(t)
    BY <2>2, UntouchedKeepsIdle DEF Launch, Spawn, AskAgain, Close
  <2> QED
    BY <1>3, <2>1, <2>2 DEF Front
<1>4. CASE UNCHANGED daemonVars
  BY <1>4, UntouchedKeepsIdle DEF daemonVars
<1> QED
  BY <1>1, <1>2, <1>3, <1>4, TimerKeepsIdle DEF Next, Process

(* No idle exit but an earned one (IdleExitIsEarned): the timer counts to    *)
(* the timeout only over checks in a row in which nobody called and nothing  *)
(* played.                                                                   *)
THEOREM IdleExitsAreEarned == Spec => IdleExitIsEarned
<1> DEFINE Earned == \A d \in Daemons : timer[d] # "done" /\ timer'[d] = "done" =>
                       ~playing[d] /\ (calm[d] >= IdleChecks \/ activity[d])
<1>1. Init => EarnsIdle
  BY DaemonAssumption DEF Init, EarnsIdle, IdleTypes, CountsOnlyCalm
<1>2. EarnsIdle /\ [Next]_daemonVars => EarnsIdle'
  BY StepKeepsIdle
<1>3. EarnsIdle /\ [Next]_daemonVars => [Earned]_daemonVars
  <2> SUFFICES ASSUME EarnsIdle, Next, NEW d \in Daemons, timer[d] # "done", timer'[d] = "done"
               PROVE  ~playing[d] /\ (calm[d] >= IdleChecks \/ activity[d])
    OBVIOUS
  <2>1. is_playing(d)
    <3>1. timer' # timer
      OBVIOUS
    <3>2. PICK e \in Daemons : take_activity(e) \/ is_playing(e) \/ Vanish(e)
      BY <3>1
         DEF Next, Process, Outside, Front, Starting, Leaving, IdleTimer, OpenPidfile, TryLock,
             WritePid, RegisterMpris, RegisterControl, Notified, Signalled, ShutDown, DropControl,
             DropLock, Exit, Crash, StartByHand, Quit, Status, Send, EngineTurn, Launch, Connect,
             Spawn, AskAgain, Close, Untouched, idleness
    <3>3. timer \in [Daemons -> {"asleep", "between", "done"}]
      BY DEF EarnsIdle, IdleTypes
    <3> QED
      BY <3>2, <3>3 DEF take_activity, is_playing, Vanish
  <2>2. Idle(d) >= IdleChecks
    BY <2>1 DEF is_playing, EarnsIdle, IdleTypes
  <2>3. CountsOnlyCalm(d) /\ timer[d] = "between" /\ idle_for[d] \in Nat /\ calm[d] \in Nat
    BY <2>1, DaemonAssumption DEF is_playing, EarnsIdle, IdleTypes
  <2> QED
    BY <2>2, <2>3, DaemonAssumption DEF CountsOnlyCalm, Idle
<1>4. QED
  BY <1>1, <1>2, <1>3, PTL DEF Spec, IdleExitIsEarned

-----------------------------------------------------------------------------
(* Types, and that nothing is left of a process that has ended *)

TuiTypes == [at : {"closed", "asking", "waiting", "open", "failed"}, tries : 0..Patience]

(* The lock's owner has it, and a process that is off has nothing to its name *)
Blank ==
  /\ permit \in [Daemons -> BOOLEAN] /\ playing \in [Daemons -> BOOLEAN]
  /\ tui \in [Tuis -> TuiTypes]
  /\ lock # NoOne => lock \in Daemons /\ stage[lock] \in Holding
  /\ \A d \in Daemons : idle_for[d] <= IdleChecks /\ (timer[d] # "done" => idle_for[d] < IdleChecks)
  /\ \A d \in Daemons : stage[d] = "off" =>
       ~permit[d] /\ ~playing[d] /\ ~activity[d] /\ idle_for[d] = 0

Types == LocksAndNames /\ IdleTypes /\ Blank

LEMMA VanishKeepsBlank ==
  ASSUME NEW d \in Daemons, Types, Vanish(d)
  PROVE  Blank'
<1> USE DaemonAssumption DEF Types, LocksAndNames, IdleTypes, Blank, Vanish, Disowned
<1>1. permit' \in [Daemons -> BOOLEAN] /\ playing' \in [Daemons -> BOOLEAN] /\ tui' \in [Tuis -> TuiTypes]
  OBVIOUS
<1>2. lock' # NoOne => lock' \in Daemons /\ stage'[lock'] \in Holding
  OBVIOUS
<1>3. \A e \in Daemons : idle_for'[e] <= IdleChecks /\ (timer'[e] # "done" => idle_for'[e] < IdleChecks)
  OBVIOUS
<1>4. \A e \in Daemons : stage'[e] = "off" =>
       ~permit'[e] /\ ~playing'[e] /\ ~activity'[e] /\ idle_for'[e] = 0
  OBVIOUS
<1> QED
  BY <1>1, <1>2, <1>3, <1>4

(* Main, from its start to its end: the lock is owned by whoever is at one  *)
(* of the stages that have it.                                              *)
LEMMA MainKeepsBlank ==
  ASSUME NEW d \in Daemons, Types, Starting(d) \/ Leaving(d) \/ Signalled(d) \/ StartByHand(d)
  PROVE  Blank'
<1> USE DaemonAssumption
        DEF Types, LocksAndNames, IdleTypes, Blank, Goes, Stages, Holding, Untouched, engine, idleness
<1>1. CASE Vanish(d)
  BY <1>1, VanishKeepsBlank
<1>2. CASE OpenPidfile(d) \/ WritePid(d) \/ RegisterControl(d) \/ StartByHand(d)
  BY <1>2 DEF OpenPidfile, WritePid, RegisterControl, StartByHand, shared
<1>3. CASE /\ lock = NoOne
           /\ Goes(d, "opened", "locked")
           /\ lock' = d
           /\ UNCHANGED <<pidfile, mpris, control, Untouched>>
  BY <1>3
<1>4. CASE /\ mpris = NoOne
           /\ Goes(d, "written", "registered")
           /\ mpris' = d
           /\ UNCHANGED <<pidfile, lock, control, Untouched>>
  BY <1>4
<1>5. CASE ShutDown(d)
  BY <1>5 DEF ShutDown, shared
<1>6. CASE DropControl(d) \/ DropLock(d)
  BY <1>6 DEF DropControl, DropLock
<1> QED
  BY <1>1, <1>2, <1>3, <1>4, <1>5, <1>6
     DEF Starting, Leaving, Notified, Signalled, Exit, TryLock, RegisterMpris

(* Clients, the engine and the idle timer act on a process that runs.       *)
LEMMA CallsKeepBlank ==
  ASSUME NEW d \in Daemons, Types,
         Quit(d) \/ Status(d) \/ Send(d) \/ EngineTurn(d) \/ IdleTimer(d)
  PROVE  Blank'
<1> USE DaemonAssumption DEF Types, LocksAndNames, IdleTypes, Blank
<1>1. CASE Quit(d) \/ Status(d) \/ Send(d)
  BY <1>1 DEF Quit, Status, Send, Active, notify_one, shared, engine, idleness
<1>2. CASE EngineTurn(d)
  BY <1>2 DEF EngineTurn, shared, idleness, Holding, Reachable
<1>3. CASE IdleTimer(d)
  <2>1. stage[d] = "serving" /\ UNCHANGED <<stage, lock, tui, playing>>
    BY <1>3 DEF IdleTimer, take_activity, is_playing, shared, engine
  <2>2. permit' = permit \/ permit' = [permit EXCEPT ![d] = TRUE]
    BY <1>3 DEF IdleTimer, take_activity, is_playing, notify_one
  <2>3. activity' = activity \/ activity' = [activity EXCEPT ![d] = FALSE]
    BY <1>3 DEF IdleTimer, take_activity, is_playing, engine
  <2>4. permit' \in [Daemons -> BOOLEAN] /\ playing' \in [Daemons -> BOOLEAN]
        /\ tui' \in [Tuis -> TuiTypes]
    BY <2>1, <2>2
  <2>5. lock' # NoOne => lock' \in Daemons /\ stage'[lock'] \in Holding
    BY <2>1
  <2>6. /\ timer[d] # "done"
        /\ \/ idle_for' = [idle_for EXCEPT ![d] = 0] /\ timer' = timer
           \/ idle_for' = idle_for /\ timer' = [timer EXCEPT ![d] = "between"]
           \/ /\ idle_for' = [idle_for EXCEPT ![d] = Idle(d)]
              /\ timer' = [timer EXCEPT ![d] = IF Idle(d) >= IdleChecks THEN "done" ELSE "asleep"]
    BY <1>3 DEF IdleTimer, take_activity, is_playing
  <2>7. Idle(d) \in Nat /\ Idle(d) <= idle_for[d] + 1 /\ idle_for[d] \in Nat
    BY DEF Idle
  <2>8. \A e \in Daemons : /\ idle_for'[e] <= IdleChecks
                           /\ timer'[e] # "done" => idle_for'[e] < IdleChecks
    <3> SUFFICES ASSUME NEW e \in Daemons
                 PROVE  /\ idle_for'[e] <= IdleChecks
                        /\ timer'[e] # "done" => idle_for'[e] < IdleChecks
      OBVIOUS
    <3>1. idle_for[e] \in Nat /\ idle_for[e] <= IdleChecks
          /\ (timer[e] # "done" => idle_for[e] < IdleChecks)
      OBVIOUS
    <3>2. CASE e # d
      <4>1. idle_for'[e] = idle_for[e] /\ timer'[e] = timer[e]
        BY <2>6, <3>2
      <4> QED
        BY <3>1, <4>1
    <3>3. CASE e = d
      BY <2>6, <2>7, <3>1, <3>3
    <3> QED
      BY <3>2, <3>3
  <2>9. \A e \in Daemons : stage'[e] = "off" =>
         ~permit'[e] /\ ~playing'[e] /\ ~activity'[e] /\ idle_for'[e] = 0
    BY <2>1, <2>2, <2>3, <2>6
  <2> QED
    BY <2>4, <2>5, <2>8, <2>9
<1> QED
  BY <1>1, <1>2, <1>3

(* A TUI calls the owner of the control name, which is not off.             *)
LEMMA FrontKeepsBlank ==
  ASSUME NEW t \in Tuis, Types, Front(t)
  PROVE  Blank'
<1> USE DaemonAssumption DEF Types, LocksAndNames, IdleTypes, Blank, AtTui, TuiTypes, shared, engine, idleness
<1>1. CASE Launch(t) \/ AskAgain(t) \/ Close(t)
  <2>1. tui[t] \in TuiTypes
    OBVIOUS
  <2>2. \E at \in {"asking", "waiting", "failed", "closed"}, tries \in 0..Patience :
          tui' = [tui EXCEPT ![t] = [at |-> at, tries |-> tries]]
    <3>1. CASE Launch(t) \/ Close(t)
      BY <3>1 DEF Launch, Close
    <3>2. CASE AskAgain(t)
      BY <2>1, <3>2 DEF AskAgain
    <3> QED
      BY <1>1, <3>1, <3>2
  <2>3. tui' \in [Tuis -> TuiTypes]
    BY <2>2
  <2>4. UNCHANGED <<stage, lock, permit, engine, timer, idle_for>>
    BY <1>1 DEF Launch, AskAgain, Close
  <2> QED
    BY <2>3, <2>4
<1>2. CASE Connect(t)
  <2>1. PICK d \in Daemons : control = d /\ activity' = [activity EXCEPT ![d] = TRUE]
    BY <1>2 DEF Connect
  <2>2. UNCHANGED <<stage, lock, permit, playing, timer, idle_for>>
    BY <1>2 DEF Connect
  <2>3. stage[d] # "off"
    BY <2>1 DEF Holding
  <2>4. tui' \in [Tuis -> TuiTypes]
    BY <1>2 DEF Connect
  <2>5. \A e \in Daemons : stage'[e] = "off" => ~activity'[e]
    BY <2>1, <2>2, <2>3
  <2>6. lock' # NoOne => lock' \in Daemons /\ stage'[lock'] \in Holding
    BY <2>2
  <2> QED
    BY <2>2, <2>4, <2>5, <2>6
<1>3. CASE Spawn(t)
  BY <1>3 DEF Spawn, Goes, Stages, Holding
<1> QED
  BY <1>1, <1>2, <1>3 DEF Front

(* Every field keeps its type, the lock and the names have owners that may  *)
(* have them, and nothing of a process outlives it but the pidfile          *)
(* (DaemonTypeOK), however many start, are called, leave and crash.         *)
THEOREM NothingOutlives == Spec => []DaemonTypeOK
<1>1. Init => Blank
  BY DaemonAssumption DEF Init, Blank, TuiTypes
<1>2. SingleInstance /\ EarnsIdle /\ Blank /\ [Next]_daemonVars => Blank'
  <2> SUFFICES ASSUME SingleInstance, EarnsIdle, Blank, [Next]_daemonVars
               PROVE  Blank'
    OBVIOUS
  <2>1. Types
    BY DEF Types, SingleInstance, EarnsIdle
  <2>2. ASSUME NEW d \in Daemons, Process(d) \/ Outside(d)
        PROVE  Blank'
    <3>1. CASE Crash(d)
      BY <2>1, <3>1, VanishKeepsBlank DEF Crash
    <3> QED
      BY <2>1, <2>2, <3>1, MainKeepsBlank, CallsKeepBlank DEF Process, Outside
  <2>3. CASE UNCHANGED daemonVars
    BY <2>3 DEF Blank, daemonVars, shared, engine, idleness
  <2> QED
    BY <2>1, <2>2, <2>3, FrontKeepsBlank DEF Next
<1>3. SingleInstance /\ EarnsIdle /\ Blank => DaemonTypeOK
  <2> SUFFICES ASSUME SingleInstance, EarnsIdle, Blank
               PROVE  DaemonTypeOK
    OBVIOUS
  <2>1. LocksAndNames /\ IdleTypes
    BY DEF SingleInstance, EarnsIdle
  <2>2. ASSUME NEW d \in Daemons
        PROVE  idle_for[d] \in 0..IdleChecks /\ timer[d] \in {"asleep", "between", "done"}
    <3>1. idle_for[d] \in Nat /\ timer[d] \in {"asleep", "between", "done"}
      BY <2>1 DEF IdleTypes
    <3>2. idle_for[d] <= IdleChecks
      BY DEF Blank
    <3> QED
      BY <3>1, <3>2, DaemonAssumption
  <2>3. \A d \in Daemons : stage[d] = "off" => d \notin {lock, mpris, control}
    BY <2>1, DaemonAssumption DEF LocksAndNames, Blank, Holding, Reachable
  <2> QED
    BY <2>1, <2>2, <2>3 DEF LocksAndNames, Blank, TuiTypes, DaemonTypeOK
<1>4. Init => EarnsIdle
  BY DaemonAssumption DEF Init, EarnsIdle, IdleTypes, CountsOnlyCalm
<1>5. EarnsIdle /\ [Next]_daemonVars => EarnsIdle'
  BY StepKeepsIdle
<1> QED
  BY <1>1, <1>2, <1>3, <1>4, <1>5, InstanceSafety, PTL DEF Spec
=============================================================================
