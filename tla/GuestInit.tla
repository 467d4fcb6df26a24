----------------------------- MODULE GuestInit -----------------------------
(***************************************************************************)
(* busybox init, process 1 of the virtual machine: it runs the commands of *)
(* src/inittab group by group, restarts the ones that must keep running,   *)
(* rereads the file on SIGHUP and shuts the machine down on SIGTERM.       *)
(*                                                                         *)
(* Signals other than SIGTSTP and SIGCONT are blocked and taken one at a   *)
(* time from the pending set; SIGTSTP interrupts init between any two of   *)
(* its system calls and reaps children in its handler.  An entry of the    *)
(* list is identified by its key, the command and the terminal together.   *)
(* The build reads an inittab and leaves removed commands running.         *)
(***************************************************************************)
EXTENDS Integers, Sequences

CONSTANTS
  Key,           \* commands with their terminals
  Pid,           \* process ids, all positive
  Inittabs,      \* what /etc/inittab may hold: sequences of [key, type]
  MaxForkFails, MaxStops, MaxSignals  \* bounds on what goes wrong or is sent

Awaited == {"SYSINIT", "WAIT", "CTRLALTDEL", "SHUTDOWN"}
Restarted == {"RESPAWN", "ASKFIRST"}
ActionType == Awaited \cup Restarted \cup {"ONCE", "RESTART"}

ASSUME PidAssumption == Pid \subseteq Nat \ {0}
ASSUME InittabAssumption == Inittabs \subseteq Seq([key : Key, type : ActionType])
ASSUME BoundAssumption == {MaxForkFails, MaxStops, MaxSignals} \subseteq Nat

VARIABLES
  init_action_list,  \* sequence of [key, type, pid]; type "none" once disabled
  proc,              \* children of init: alive, zombie or free
  at,                \* where init is
  stage,             \* how far init_main has come
  group,             \* the argument of run_actions
  a,                 \* its position in the list
  child,             \* what run returned
  pending,           \* blocked signals that have arrived
  stopped,           \* init is in stop_handler
  inittab,           \* the file as it was last parsed
  forkFails, stops, signals  \* how often each has happened

vars == <<init_action_list, proc, at, stage, group, a, child, pending, stopped,
          inittab, forkFails, stops, signals>>

Free == [state |-> "free", key |-> "none", type |-> "none"]
Is(p, state) == proc[p].state = state
Entry == init_action_list[a]
Ending == stage \in {"halt", "exec"}
Types(g) == IF g = "LOOP" THEN Restarted ELSE {g}
-----------------------------------------------------------------------------
Without(list, k) == [i \in 1..(Len(list) - 1) |-> IF i < k THEN list[i] ELSE list[i + 1]]

(* Mutant: a known entry keeps its place.                                  *)
new_init_action_InPlace(list, e) ==
  IF \E i \in DOMAIN list : list[i].key = e.key
  THEN [i \in DOMAIN list |-> IF list[i].key = e.key THEN [list[i] EXCEPT !.type = e.type]
                              ELSE list[i]]
  ELSE Append(list, [key |-> e.key, type |-> e.type, pid |-> 0])

(* An entry that is in the list keeps its process and moves to the end.    *)
new_init_action(list, e) ==
  IF \E i \in DOMAIN list : list[i].key = e.key
  THEN LET i == CHOOSE i \in DOMAIN list : list[i].key = e.key
       IN  Append(Without(list, i), [list[i] EXCEPT !.type = e.type])
  ELSE Append(list, [key |-> e.key, type |-> e.type, pid |-> 0])

(* Mutant: the entry of a running process is removed too.                  *)
Stale_Running(x) == x.type \in {"none", "SYSINIT"}

Stale(x) == x.type \in {"none", "SYSINIT"} /\ x.pid = 0

(* The first entry with this process has none any more.                    *)
mark_terminated(list, p) ==
  [i \in DOMAIN list |->
     IF list[i].pid = p /\ \A j \in 1..(i - 1) : list[j].pid # p
     THEN [list[i] EXCEPT !.pid = 0] ELSE list[i]]
-----------------------------------------------------------------------------
Init ==
  /\ inittab \in Inittabs
  /\ init_action_list = <<>>
  /\ proc = [p \in Pid |-> Free]
  /\ at = "parse" /\ stage = "boot" /\ group = "SYSINIT" /\ a = 1
  /\ child = 0 /\ pending = {} /\ stopped = FALSE
  /\ forkFails = 0 /\ stops = 0 /\ signals = 0

RunActions(g) == at' = "actions" /\ group' = g /\ a' = 1
Goto(label) == at' = label /\ UNCHANGED <<stage, group, a>>
NextAction == at' = "actions" /\ a' = a + 1 /\ UNCHANGED <<stage, group>>

(* What init_main does after check_delayed_sigs.                           *)
AfterSigs ==
  \/ stage = "SYSINIT" /\ stage' = "WAIT" /\ RunActions("WAIT")
  \/ stage = "WAIT" /\ stage' = "ONCE" /\ RunActions("ONCE")
  \/ stage = "LOOP" /\ Goto("reap")

(* One line of the file; after the last one init starts or the list is     *)
(* searched for entries to remove.                                         *)
parse_inittab ==
  /\ at = "parse"
  /\ IF a <= Len(inittab)
     THEN /\ init_action_list' = new_init_action(init_action_list, inittab[a])
          /\ a' = a + 1 /\ UNCHANGED <<at, stage, group>>
     ELSE /\ IF stage = "boot" THEN stage' = "SYSINIT" /\ RunActions("SYSINIT")
             ELSE at' = "prune" /\ a' = 1 /\ UNCHANGED <<stage, group>>
          /\ UNCHANGED init_action_list
  /\ UNCHANGED <<proc, child, pending, inittab, forkFails>>

(* The end of reload_inittab: stale entries and SYSINIT entries go.        *)
Prune ==
  /\ at = "prune"
  /\ IF a > Len(init_action_list) THEN AfterSigs /\ UNCHANGED init_action_list
     ELSE IF Stale(Entry)
     THEN init_action_list' = Without(init_action_list, a) /\ UNCHANGED <<at, stage, group, a>>
     ELSE a' = a + 1 /\ UNCHANGED <<init_action_list, at, stage, group>>
  /\ UNCHANGED <<proc, child, pending, inittab, forkFails>>

(* run_actions at an entry that is to be run now                           *)
Due ==
  /\ at = "actions" /\ a <= Len(init_action_list)
  /\ Entry.type \in Types(group)
  /\ Entry.type \in Restarted => Entry.pid = 0

Skip ==
  /\ at = "actions" /\ a <= Len(init_action_list) /\ ~ Due
  /\ NextAction
  /\ UNCHANGED <<init_action_list, proc, child, pending, inittab, forkFails>>

(* run: what follows depends on whether init waits for the process.        *)
Fork(p) ==
  /\ Due /\ Is(p, "free")
  /\ proc' = [proc EXCEPT ![p] = [state |-> "alive", key |-> Entry.key, type |-> Entry.type]]
  /\ IF Entry.type = "ONCE" THEN NextAction /\ UNCHANGED child
     ELSE /\ child' = p
          /\ at' = IF Entry.type \in Awaited THEN "waitfor" ELSE "forked"
          /\ UNCHANGED <<stage, group, a>>
  /\ UNCHANGED <<init_action_list, pending, inittab, forkFails>>

(* Mutant: the value of the raw system call, -EAGAIN.                      *)
ForkError_Errno == -11

ForkError == -1

(* The return value of the failed vfork is stored like any other.          *)
ForkFail ==
  /\ Due /\ forkFails < MaxForkFails
  /\ forkFails' = forkFails + 1
  /\ init_action_list' = IF Entry.type \in Restarted
                         THEN [init_action_list EXCEPT ![a].pid = ForkError] ELSE init_action_list
  /\ NextAction
  /\ UNCHANGED <<proc, child, pending, inittab>>

(* a->pid = run(a)                                                         *)
StorePid ==
  /\ at = "forked"
  /\ init_action_list' = [init_action_list EXCEPT ![a].pid = child]
  /\ NextAction
  /\ UNCHANGED <<proc, child, pending, inittab, forkFails>>

(* A zombie is reaped without its entry being found.                       *)
Unseen(p) ==
  /\ Is(p, "zombie")
  /\ proc' = [proc EXCEPT ![p] = Free]
  /\ UNCHANGED init_action_list

Reaped(p) ==
  /\ Is(p, "zombie")
  /\ proc' = [proc EXCEPT ![p] = Free]
  /\ init_action_list' = mark_terminated(init_action_list, p)

(* Mutant: any child that exits ends the wait.                             *)
WaitOver_Any(p) == TRUE

(* p is the process waited for, or that process is gone.                   *)
WaitOver(p) == p = child \/ Is(child, "free")

(* waitfor: wait blocks until there is a zombie, and fails without child.  *)
waitfor ==
  /\ at = "waitfor"
  /\ \/ \E p \in Pid :
          /\ Reaped(p)
          /\ IF WaitOver(p) THEN NextAction ELSE UNCHANGED <<at, stage, group, a>>
     \/ /\ \A p \in Pid : Is(p, "free")
        /\ NextAction
        /\ UNCHANGED <<proc, init_action_list>>
  /\ UNCHANGED <<child, pending, inittab, forkFails>>

EndOfActions ==
  /\ at = "actions" /\ a > Len(init_action_list)
  /\ \/ group = "SHUTDOWN" /\ Goto("kill")
     \/ group = "CTRLALTDEL" /\ AfterSigs
     \/ group \in {"SYSINIT", "WAIT", "LOOP"} /\ Goto("sigs")
     \/ group = "ONCE" /\ stage' = "LOOP" /\ RunActions("LOOP")
  /\ UNCHANGED <<init_action_list, proc, child, pending, inittab, forkFails>>
-----------------------------------------------------------------------------
(* The kernel hands out the pending signal with the lowest number.         *)
Signal == {"HUP", "INT", "QUIT", "TERM", "CHLD", "PWR"}
SignalOrder == <<"HUP", "INT", "QUIT", "TERM", "CHLD", "PWR">>
FirstPending == SelectSeq(SignalOrder, LAMBDA s : s \in pending)[1]

(* Signals go back to their default, which for process 1 is to be ignored. *)
Shutdown(goal) ==
  /\ stage' = goal /\ RunActions("SHUTDOWN")
  /\ pending' = {}

(* Mutant: one flag holds the signal seen last.                            *)
Untaken_None(sig) == {}

Untaken(sig) == pending \ {sig}

HasRestart == \E i \in DOMAIN init_action_list : init_action_list[i].type = "RESTART"

check_delayed_sigs ==
  /\ at = "sigs" /\ pending # {}
  /\ LET sig == FirstPending IN
     \/ /\ sig = "HUP"
        /\ inittab' \in Inittabs
        /\ init_action_list' =
             [i \in DOMAIN init_action_list |-> [init_action_list[i] EXCEPT !.type = "none"]]
        /\ at' = "parse" /\ a' = 1 /\ UNCHANGED <<stage, group>> /\ pending' = Untaken(sig)
     \/ /\ sig = "INT"
        /\ RunActions("CTRLALTDEL") /\ pending' = Untaken(sig)
        /\ UNCHANGED <<init_action_list, inittab, stage>>
     \/ /\ sig \in {"TERM", "PWR"} \/ (sig = "QUIT" /\ HasRestart)
        /\ Shutdown(IF sig = "QUIT" THEN "exec" ELSE "halt")
        /\ UNCHANGED <<init_action_list, inittab>>
     \/ /\ sig = "CHLD" \/ (sig = "QUIT" /\ ~ HasRestart)
        /\ AfterSigs /\ pending' = Untaken(sig)
        /\ UNCHANGED <<init_action_list, inittab>>
  /\ UNCHANGED <<proc, child, forkFails>>

(* Only the main loop waits for a signal.                                  *)
NoDelayedSig ==
  /\ at = "sigs" /\ pending = {} /\ stage # "LOOP"
  /\ AfterSigs
  /\ UNCHANGED <<init_action_list, proc, child, pending, inittab, forkFails>>

(* Mutant: one child per round.                                            *)
Reap_One ==
  /\ at = "reap"
  /\ \/ \E p \in Pid : Reaped(p) /\ RunActions("LOOP") /\ UNCHANGED stage
     \/ /\ \A p \in Pid : ~ Is(p, "zombie")
        /\ RunActions("LOOP")
        /\ UNCHANGED <<init_action_list, proc, stage>>
  /\ UNCHANGED <<child, pending, inittab, forkFails>>

(* The main loop reaps what has exited and starts over.                    *)
Reap ==
  /\ at = "reap"
  /\ \/ \E p \in Pid : Reaped(p) /\ UNCHANGED <<at, stage, group, a>>
     \/ /\ \A p \in Pid : ~ Is(p, "zombie")
        /\ RunActions("LOOP")
        /\ UNCHANGED <<init_action_list, proc, stage>>
  /\ UNCHANGED <<child, pending, inittab, forkFails>>

(* SIGTERM and SIGKILL to all; then reboot, or exec which may fail.        *)
KillProcesses ==
  /\ at = "kill"
  /\ proc' = [p \in Pid |-> IF Is(p, "alive") THEN [proc[p] EXCEPT !.state = "zombie"] ELSE proc[p]]
  /\ \/ at' = "halted"
     \/ stage = "exec" /\ at' = "execed"
  /\ UNCHANGED <<init_action_list, stage, group, a, child, pending, inittab, forkFails>>
-----------------------------------------------------------------------------
InitStep ==
  /\ ~ stopped
  /\ \/ parse_inittab \/ Prune
     \/ Skip \/ (\E p \in Pid : Fork(p)) \/ StorePid \/ waitfor \/ EndOfActions
     \/ check_delayed_sigs \/ NoDelayedSig \/ Reap \/ KillProcesses
  /\ UNCHANGED <<stopped, stops, signals>>

ForkFailure == ~ stopped /\ ForkFail /\ UNCHANGED <<stopped, stops, signals>>

(* stop_handler: entered at any time, left on SIGCONT; sigtimedwait, if    *)
(* init was waiting there, then returns without a signal.                  *)
Stop ==
  /\ ~ stopped /\ ~ Ending /\ stage # "boot" /\ stops < MaxStops
  /\ stopped' = TRUE /\ stops' = stops + 1
  /\ UNCHANGED <<init_action_list, proc, at, stage, group, a, child, pending, inittab,
                 forkFails, signals>>

(* While init moves an entry the handler may not find it.                  *)
StoppedReap ==
  /\ stopped
  /\ \E p \in Pid : Reaped(p) \/ (at = "parse" /\ Unseen(p))
  /\ UNCHANGED <<at, stage, group, a, child, pending, stopped, inittab, forkFails, stops, signals>>

Continue ==
  /\ stopped
  /\ stopped' = FALSE
  /\ at' = at \/ (at = "sigs" /\ stage = "LOOP" /\ at' = "reap")
  /\ UNCHANGED <<init_action_list, proc, stage, group, a, child, pending, inittab,
                 forkFails, stops, signals>>

(* A child exits; SIGCHLD stays pending as long as init has it blocked.    *)
Exit(p) ==
  /\ Is(p, "alive")
  /\ proc' = [proc EXCEPT ![p].state = "zombie"]
  /\ pending' = IF Ending THEN pending ELSE pending \cup {"CHLD"}
  /\ UNCHANGED <<init_action_list, at, stage, group, a, child, stopped, inittab,
                 forkFails, stops, signals>>

Kill(sig) ==
  /\ ~ Ending /\ signals < MaxSignals /\ sig \in Signal \ {"CHLD"}
  /\ pending' = pending \cup {sig}
  /\ signals' = signals + 1
  /\ UNCHANGED <<init_action_list, proc, at, stage, group, a, child, stopped, inittab,
                 forkFails, stops>>

Next ==
  \/ InitStep \/ ForkFailure
  \/ Stop \/ StoppedReap \/ Continue
  \/ \E p \in Pid : Exit(p)
  \/ \E sig \in Signal : Kill(sig)

(* Init goes on when it can, and a command it waits for comes to an end.   *)
Fairness ==
  /\ WF_vars(InitStep)
  /\ \A p \in Pid : WF_vars(proc[p].type \in Awaited /\ Exit(p))

Spec == Init /\ [][Next]_vars /\ Fairness
-----------------------------------------------------------------------------
InitAction == [key : Key, type : ActionType \cup {"none"}, pid : Pid \cup {0, -1}]

TypeOK ==
  /\ init_action_list \in Seq(InitAction)
  /\ proc \in [Pid -> {Free} \cup [state : {"alive", "zombie"}, key : Key, type : ActionType]]
  /\ at \in {"parse", "prune", "actions", "forked", "waitfor", "sigs", "reap", "kill", "halted",
            "execed"}
  /\ stage \in {"boot", "SYSINIT", "WAIT", "ONCE", "LOOP", "halt", "exec"}
  /\ group \in {"SYSINIT", "WAIT", "ONCE", "LOOP", "CTRLALTDEL", "SHUTDOWN"}
  /\ a \in Nat \ {0} /\ child \in Pid \cup {0}
  /\ pending \subseteq Signal /\ stopped \in BOOLEAN /\ inittab \in Inittabs
  /\ forkFails \in Nat /\ stops \in Nat /\ signals \in Nat

(* However the file is edited and reread, and whenever SIGTSTP arrives, a  *)
(* command that is to be restarted never runs twice: its entry is kept as  *)
(* long as its process may run.                                            *)
OneProcessPerEntry ==
  \A p, q \in Pid :
    /\ Is(p, "alive") /\ proc[p].type \in Restarted
    /\ Is(q, "alive") /\ proc[q].type \in Restarted
    /\ proc[p].key = proc[q].key
    => p = q

(* While a command that others rely on runs, init does nothing but wait    *)
(* for it, even if the SIGTSTP handler reaps children under its feet.      *)
AwaitedAlone ==
  \A p \in Pid : Is(p, "alive") /\ proc[p].type \in Awaited => at = "waitfor" /\ child = p

(* A stored pid is that of a child not yet reaped, unless fork failed or   *)
(* SIGTSTP arrived at some time before.                                    *)
PidExplained ==
  \A i \in DOMAIN init_action_list :
    LET pid == init_action_list[i].pid IN
    pid # 0 =>
      \/ pid = -1 /\ forkFails > 0
      \/ pid \in Pid /\ (stops > 0 \/ (~ Is(pid, "free") /\ proc[pid].key = init_action_list[i].key))

(* The lines that count among the first n: the last one of each command.   *)
Lines(tab, n) ==
  {m \in 1..n : /\ tab[m].type \notin {"none", "SYSINIT"}
                /\ \A j \in (m + 1)..n : tab[j].key # tab[m].key}

(* list, apart from what is never run again, holds the commands of these   *)
(* lines with their types, each once, and in the order of the lines.       *)
Follows(list, tab, n) ==
  LET listed == {h \in DOMAIN list : list[h].type \notin {"none", "SYSINIT"}}
      Same(h, m) == list[h].key = tab[m].key /\ list[h].type = tab[m].type
  IN  /\ \A h \in listed : \E m \in Lines(tab, n) : Same(h, m)
      /\ \A m \in Lines(tab, n) : \E h \in listed : Same(h, m)
      /\ \A h, i \in listed, m, o \in Lines(tab, n) :
           h < i /\ Same(h, m) /\ Same(i, o) => m < o

(* However often the file is edited and reread, and whatever runs, stops   *)
(* or fails meanwhile, the list follows the file, or as much of it as has  *)
(* been parsed.                                                            *)
ListFollowsInittab ==
  Follows(init_action_list, inittab, IF at = "parse" THEN a - 1 ELSE Len(inittab))

Disturbed == forkFails > 0 \/ stops > 0
Over == at \in {"halted", "execed"}

Restarting(k) ==
  \E i \in DOMAIN init_action_list :
    init_action_list[i].key = k /\ init_action_list[i].type \in Restarted

Running(k) == \E p \in Pid : Is(p, "alive") /\ proc[p].key = k /\ proc[p].type \in Restarted

(* No exit is missed: a command that is to be restarted runs again, as     *)
(* long as init was never stopped and no fork has failed.                  *)
Respawned ==
  \A k \in Key :
    Restarting(k) ~> Running(k) \/ ~ Restarting(k) \/ Ending \/ Disturbed

(* SIGTERM is never lost behind other signals or exits of children: the    *)
(* machine goes down.                                                      *)
GoesDown == "TERM" \in pending ~> Over \/ Disturbed
=============================================================================
