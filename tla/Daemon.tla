-------------------------------- MODULE Daemon --------------------------------
(***************************************************************************)
(* The life of the daemon (daemon/src/main.rs, daemon/src/lifecycle.rs)    *)
(* and of the TUI that starts one if need be (tui/src/lifecycle.rs).       *)
(*                                                                         *)
(* Several processes may be started at the same time, by several TUIs or   *)
(* by hand.  They meet in the pidfile, in the lock on it, in the two names *)
(* on the bus, and nowhere else.  A process that dies, at any point,       *)
(* leaves the pidfile as it is; the kernel takes back its lock and the bus *)
(* its names.                                                              *)
(***************************************************************************)
EXTENDS Integers, Sequences

CONSTANTS
  Daemons,      (* the processes of maraetaid                                 *)
  Tuis,         (* the TUIs                                                   *)
  NoOne,        (* holds what nobody holds                                    *)
  Pid,          (* the digits of each process's id                            *)
  IdleChecks,   (* checks in a row that make up the idle timeout              *)
  Patience      (* bound: times a TUI asks before its 5 seconds are over      *)

ASSUME DaemonAssumption ==
  /\ NoOne \notin Daemons
  /\ Pid \in [Daemons -> Seq(Nat) \ {<<>>}]
  /\ IdleChecks \in Nat \ {0} /\ Patience \in Nat

VARIABLES
  stage,        (* how far main has got, per process                          *)
  pidfile,      (* what the pidfile says                                      *)
  lock,         (* the holder of the lock on it                               *)
  mpris,        (* the owner of the MPRIS name                                *)
  control,      (* the owner of the control name                              *)
  permit,       (* what Notify keeps for main: per process, a stored permit   *)
  playing,      (* the snapshot's status is Playing                           *)
  queued,       (* a command waits for the engine                             *)
  activity,     (* PlaybackHandle::activity                                   *)
  timer,        (* the idle timer: asleep, between its two reads, or done     *)
  idle_for,     (* in checks                                                  *)
  asked,        (* history: a Quit has been answered                          *)
  calm,         (* history: checks since a client called or one found music   *)
  tui           (* per TUI, where it is: [at, tries]                          *)

shared == <<pidfile, lock, mpris, control>>
engine == <<playing, queued, activity>>
idleness == <<timer, idle_for, calm>>
daemonVars == <<stage, shared, permit, engine, idleness, asked, tui>>

Stages == {"off", "started", "opened", "locked", "written", "registered", "serving", "leaving",
           "unlocked"}

(* The lock is held from acquire_single_instance_lock to the end of main *)
Holding == {"locked", "written", "registered", "serving", "leaving"}

(* The bus answers for a process from the registration of its name on *)
Reachable == {"registered", "serving", "leaving", "unlocked"}

Init ==
  /\ stage = [d \in Daemons |-> "off"]
  /\ pidfile = <<>> /\ lock = NoOne /\ mpris = NoOne /\ control = NoOne
  /\ permit = [d \in Daemons |-> FALSE] /\ asked = [d \in Daemons |-> FALSE]
  /\ playing = [d \in Daemons |-> FALSE] /\ queued = [d \in Daemons |-> FALSE]
  /\ activity = [d \in Daemons |-> FALSE]
  /\ timer = [d \in Daemons |-> "asleep"]
  /\ idle_for = [d \in Daemons |-> 0] /\ calm = [d \in Daemons |-> 0]
  /\ tui = [t \in Tuis |-> [at |-> "closed", tries |-> 0]]

Goes(d, from, to) == stage[d] = from /\ stage' = [stage EXCEPT ![d] = to]

-----------------------------------------------------------------------------
(* The end of a process *)

(* Slip: a lock that outlives its process *)
Disowned_leaked(owner, d) == owner

Disowned(owner, d) == IF owner = d THEN NoOne ELSE owner

(* Nothing of the process is left but the pidfile *)
Vanish(d) ==
  /\ stage' = [stage EXCEPT ![d] = "off"]
  /\ lock' = Disowned(lock, d) /\ mpris' = Disowned(mpris, d) /\ control' = Disowned(control, d)
  /\ permit' = [permit EXCEPT ![d] = FALSE] /\ asked' = [asked EXCEPT ![d] = FALSE]
  /\ playing' = [playing EXCEPT ![d] = FALSE] /\ queued' = [queued EXCEPT ![d] = FALSE]
  /\ activity' = [activity EXCEPT ![d] = FALSE]
  /\ timer' = [timer EXCEPT ![d] = "asleep"]
  /\ idle_for' = [idle_for EXCEPT ![d] = 0] /\ calm' = [calm EXCEPT ![d] = 0]
  /\ UNCHANGED <<pidfile, tui>>

(* A crash, a kill, or a signal before select has handlers for it *)
Crash(d) == stage[d] # "off" /\ Vanish(d)

-----------------------------------------------------------------------------
(* acquire_single_instance_lock *)

Untouched == <<permit, engine, idleness, asked, tui>>

(* The pidfile is emptied before anyone knows whether the lock is free *)
OpenPidfile(d) ==
  /\ Goes(d, "started", "opened")
  /\ pidfile' = <<>>
  /\ UNCHANGED <<lock, mpris, control, Untouched>>

(* Slip: the guard is dropped where it is returned *)
TryLock_dropped(d) ==
  /\ lock = NoOne
  /\ Goes(d, "opened", "locked")
  /\ UNCHANGED <<shared, Untouched>>

TryLock(d) ==
  \/ /\ lock = NoOne
     /\ Goes(d, "opened", "locked")
     /\ lock' = d
     /\ UNCHANGED <<pidfile, mpris, control, Untouched>>
  \/ lock # NoOne /\ stage[d] = "opened" /\ Vanish(d)

(* Slip: the pid is appended to what is there *)
Overwritten_appended(old, new) == old \o new

(* The id is written over what is there by now, from the file's start on *)
Overwritten(old, new) == new \o SubSeq(old, Len(new) + 1, Len(old))

WritePid(d) ==
  /\ Goes(d, "locked", "written")
  /\ pidfile' = Overwritten(pidfile, Pid[d])
  /\ UNCHANGED <<lock, mpris, control, Untouched>>

-----------------------------------------------------------------------------
(* main, from the lock on *)

(* Both names are asked for without queueing.  The MPRIS name may still be  *)
(* taken, which ends the start; the control name goes before the lock does, *)
(* and so is free for whoever has the lock.                                 *)
RegisterMpris(d) ==
  \/ /\ mpris = NoOne
     /\ Goes(d, "written", "registered")
     /\ mpris' = d
     /\ UNCHANGED <<pidfile, lock, control, Untouched>>
  \/ mpris # NoOne /\ stage[d] = "written" /\ Vanish(d)

RegisterControl(d) ==
  /\ control = NoOne
  /\ Goes(d, "registered", "serving")
  /\ control' = d
  /\ UNCHANGED <<pidfile, lock, mpris, Untouched>>

(* Slip: notify_waiters, which is lost on a main that is not yet waiting *)
notify_one_waiting(d) ==
  permit' = [permit EXCEPT ![d] = permit[d] \/ (stage[d] = "serving")]

notify_one(d) == permit' = [permit EXCEPT ![d] = TRUE]

(* select: the permit, Ctrl-C or SIGTERM, and then playback.shutdown *)
ShutDown(d) ==
  /\ Goes(d, "serving", "leaving")
  /\ permit' = [permit EXCEPT ![d] = FALSE]
  /\ queued' = [queued EXCEPT ![d] = TRUE]
  /\ activity' = [activity EXCEPT ![d] = TRUE]
  /\ UNCHANGED <<shared, playing, idleness, asked, tui>>

Notified(d) == permit[d] /\ ShutDown(d)
Signalled(d) == ShutDown(d)

(* main returns: the control connection is dropped, and then the lock; the  *)
(* bridge goes on holding the MPRIS server until the runtime drops it       *)
DropControl(d) ==
  /\ stage[d] = "leaving" /\ control = d
  /\ control' = NoOne
  /\ UNCHANGED <<stage, pidfile, lock, mpris, Untouched>>

DropLock(d) ==
  /\ control # d
  /\ Goes(d, "leaving", "unlocked")
  /\ lock' = NoOne
  /\ UNCHANGED <<pidfile, mpris, control, Untouched>>

Exit(d) == stage[d] = "unlocked" /\ Vanish(d)

-----------------------------------------------------------------------------
(* Clients *)

Quit(d) ==
  /\ stage[d] \in {"registered", "serving"}
  /\ notify_one(d)
  /\ asked' = [asked EXCEPT ![d] = TRUE]
  /\ UNCHANGED <<stage, shared, engine, idleness, tui>>

(* A status poll and every command mark activity; before the control name  *)
(* is there, only MPRIS can be called                                      *)
Active(d) ==
  /\ stage[d] \in {"registered", "serving"}
  /\ activity' = [activity EXCEPT ![d] = TRUE]
  /\ calm' = [calm EXCEPT ![d] = 0]

Status(d) ==
  /\ stage[d] = "serving"
  /\ Active(d)
  /\ UNCHANGED <<stage, shared, permit, playing, queued, timer, idle_for, asked, tui>>

Send(d) ==
  /\ Active(d)
  /\ queued' = [queued EXCEPT ![d] = TRUE]
  /\ UNCHANGED <<stage, shared, permit, playing, timer, idle_for, asked, tui>>

(* The engine: a command may start or stop playback, a track may end *)
EngineTurn(d) ==
  /\ stage[d] \in Holding \cup Reachable
  /\ \/ queued[d] /\ \E now \in BOOLEAN : playing' = [playing EXCEPT ![d] = now]
     \/ playing[d] /\ playing' = [playing EXCEPT ![d] = FALSE]
  /\ queued' = [queued EXCEPT ![d] = FALSE]
  /\ UNCHANGED <<stage, shared, permit, activity, idleness, asked, tui>>

-----------------------------------------------------------------------------
(* run_idle_timer: take_activity and is_playing are two reads *)

take_activity(d) ==
  /\ stage[d] = "serving" /\ timer[d] = "asleep"
  /\ activity' = [activity EXCEPT ![d] = FALSE]
  /\ calm' = [calm EXCEPT ![d] = IF activity[d] \/ calm[d] = IdleChecks THEN @ ELSE @ + 1]
  /\ IF activity[d]
     THEN idle_for' = [idle_for EXCEPT ![d] = 0] /\ UNCHANGED timer
     ELSE timer' = [timer EXCEPT ![d] = "between"] /\ UNCHANGED idle_for
  /\ UNCHANGED <<stage, shared, permit, playing, queued, asked, tui>>

(* Slip: the time before the last activity still counts *)
Idle_kept(d) == IF playing[d] THEN idle_for[d] ELSE idle_for[d] + 1

Idle(d) == IF playing[d] THEN 0 ELSE idle_for[d] + 1

is_playing(d) ==
  /\ stage[d] = "serving" /\ timer[d] = "between"
  /\ idle_for' = [idle_for EXCEPT ![d] = Idle(d)]
  /\ IF Idle(d) >= IdleChecks
     THEN timer' = [timer EXCEPT ![d] = "done"] /\ notify_one(d)
     ELSE timer' = [timer EXCEPT ![d] = "asleep"] /\ UNCHANGED permit
  /\ calm' = [calm EXCEPT ![d] = IF playing[d] THEN 0 ELSE @]
  /\ UNCHANGED <<stage, shared, engine, asked, tui>>

-----------------------------------------------------------------------------
(* ensure_daemon_running *)

AtTui(t, at, tries) == tui' = [tui EXCEPT ![t] = [at |-> at, tries |-> tries]]

Launch(t) ==
  /\ tui[t].at = "closed"
  /\ AtTui(t, "asking", 0)
  /\ UNCHANGED <<stage, shared, permit, engine, idleness, asked>>

(* daemon_is_alive: whoever owns the name answers Status *)
Connect(t) ==
  /\ tui[t].at \in {"asking", "waiting"}
  /\ \E d \in Daemons :
       /\ control = d
       /\ activity' = [activity EXCEPT ![d] = TRUE]
       /\ calm' = [calm EXCEPT ![d] = 0]
  /\ AtTui(t, "open", 0)
  /\ UNCHANGED <<stage, shared, permit, playing, queued, timer, idle_for, asked>>

Spawn(t) ==
  /\ tui[t].at = "asking" /\ control = NoOne
  /\ \E d \in Daemons : Goes(d, "off", "started")
  /\ AtTui(t, "waiting", 0)
  /\ UNCHANGED <<shared, permit, engine, idleness, asked>>

AskAgain(t) ==
  /\ tui[t].at = "waiting" /\ control = NoOne
  /\ IF tui[t].tries < Patience THEN AtTui(t, "waiting", tui[t].tries + 1)
                                ELSE AtTui(t, "failed", 0)
  /\ UNCHANGED <<stage, shared, permit, engine, idleness, asked>>

Close(t) ==
  /\ tui[t].at \in {"open", "failed"}
  /\ AtTui(t, "closed", 0)
  /\ UNCHANGED <<stage, shared, permit, engine, idleness, asked>>

(* maraetaid started by hand *)
StartByHand(d) ==
  /\ Goes(d, "off", "started")
  /\ UNCHANGED <<shared, Untouched>>

-----------------------------------------------------------------------------
Starting(d) == OpenPidfile(d) \/ TryLock(d) \/ WritePid(d) \/ RegisterMpris(d) \/ RegisterControl(d)

Leaving(d) == Notified(d) \/ DropControl(d) \/ DropLock(d) \/ Exit(d)

IdleTimer(d) == take_activity(d) \/ is_playing(d)

Process(d) == Starting(d) \/ Leaving(d) \/ IdleTimer(d) \/ EngineTurn(d)

Outside(d) == StartByHand(d) \/ Quit(d) \/ Status(d) \/ Send(d) \/ Signalled(d) \/ Crash(d)

Front(t) == Launch(t) \/ Connect(t) \/ Spawn(t) \/ AskAgain(t) \/ Close(t)

Next ==
  \/ \E d \in Daemons : Process(d) \/ Outside(d)
  \/ \E t \in Tuis : Front(t)

Spec == Init /\ [][Next]_daemonVars

(* A process that runs goes on; nobody need start, call or stop one *)
ProcessFairness == \A d \in Daemons : WF_daemonVars(Starting(d) \/ Leaving(d))

LiveSpec == Spec /\ ProcessFairness

-----------------------------------------------------------------------------
(* Properties *)

(* A name has an owner that may own it, and a process that is off owns and  *)
(* remembers nothing.                                                       *)
DaemonTypeOK ==
  /\ stage \in [Daemons -> Stages]
  /\ lock \in Daemons \cup {NoOne}
  /\ \A d \in Daemons : idle_for[d] \in 0..IdleChecks /\ timer[d] \in {"asleep", "between", "done"}
  /\ \A d \in Daemons : stage[d] = "off" =>
       /\ d \notin {lock, mpris, control}
       /\ ~permit[d] /\ ~playing[d] /\ ~activity[d] /\ idle_for[d] = 0
  /\ tui \in [Tuis -> [at : {"closed", "asking", "waiting", "open", "failed"},
                       tries : 0..Patience]]

(* However many are started at once, at most one process gets past the lock *)
(* and may own the control name and play, one that is on its way out        *)
(* included; all it may still have after giving up the lock is the MPRIS    *)
(* name.  (lifecycle.rs: single-instance enforcement.)                      *)
AtMostOneServes ==
  /\ \A d, e \in Daemons : stage[d] \in Holding /\ stage[e] \in Holding => d = e
  /\ control # NoOne => stage[control] \in Holding
  /\ mpris # NoOne => stage[mpris] \in Reachable

(* While a process serves, what it wrote still stands at the start of the   *)
(* pidfile, or another process that it has kept out has emptied it: never   *)
(* an id of another process.  The end of a longer id may be left behind it. *)
PidfileNamesHolder ==
  \A d \in Daemons : stage[d] \in Holding \ {"locked"} =>
    pidfile = <<>> \/ SubSeq(pidfile, 1, Len(Pid[d])) = Pid[d]

(* The idle timer only ends a daemon with nothing playing after as many     *)
(* checks as make up the timeout, in a row, since a client last called or   *)
(* a check found it playing; except for a call that comes between the       *)
(* timer's two last reads.                                                  *)
IdleExitIsEarned ==
  [][\A d \in Daemons : timer[d] # "done" /\ timer'[d] = "done" =>
       ~playing[d] /\ (calm[d] >= IdleChecks \/ activity[d])]_daemonVars

(* A Quit that a daemon has answered ends it, also one that came before main *)
(* was waiting for it.                                                       *)
QuitEnds == \A d \in Daemons : asked[d] ~> stage[d] = "off"
=============================================================================
