---------------------------- MODULE SessionOwner -----------------------------
(***************************************************************************)
(* mcu-session.sh: the operator's commands, the session owner they leave   *)
(* in the background, and the processes both of them start and signal: the *)
(* application, the bridge and the MIDI adapter.                           *)
(*                                                                         *)
(* Everything is said through files.  The session folder, on /data, keeps  *)
(* locators and receipts and survives a power-off; the state files and the *)
(* settings snapshot, in RAM, do not.  One lock, session.lock, excludes    *)
(* the scripts from each other, never the processes they wait for.  A      *)
(* power-off may come between any two steps, and the operator's script may *)
(* be killed between any two of its own.                                   *)
(*                                                                         *)
(* A file is a number: 0 when it is absent.  Processes are numbered as     *)
(* they are born, which stands for the pid with its start tick.  A bounded *)
(* wait may run out at any time, except that five seconds are taken to be  *)
(* enough for a child to exec (ExecWait) or to record its bridge           *)
(* (Recorded).  A comment that starts with "Fault" introduces a mistake    *)
(* the properties are known to catch, not a part of the model.             *)
(***************************************************************************)
EXTENDS Naturals, Sequences, Functions

CONSTANTS
    Sessions,       \* explicit starts that get as far as an owner
    Apps,           \* applications
    Bridges,        \* bridge processes
    Boots,          \* boots
    Interrupts,     \* operator scripts killed half-way
    HistoryEntries, \* history_entries
    PromptReceipts, \* a dead bridge's exit is recorded before another is started
    Commands        \* operator commands used

ASSUME SessionAssumption ==
    /\ {Sessions, Apps, Bridges, Boots, HistoryEntries} \subseteq Nat \ {0}
    /\ Interrupts \in Nat /\ PromptReceipts \in BOOLEAN
    /\ Commands \subseteq {"start", "stop", "bridge-start", "bridge-stop", "configure"}

VARIABLES
    dir,        \* the session folder
    tmp,        \* the state files and the settings snapshot, in RAM
    history,    \* the history folder: entries in order, and a half-written one
    boot,       \* this boot's number
    lock,       \* who holds session.lock: 0, an owner's session, or Operator
    sessions,   \* owners started so far
    op,         \* the operator's script
    own,        \* the owner of each session
    call,       \* the function the holder of the lock is in
    app,        \* each application process
    bridge,     \* each bridge process and the child that waits for it
    adapter,    \* the MIDI adapter
    acvs,       \* the stock application's service is active
    interrupts, \* scripts killed so far
    pruned      \* history: applications whose entry the bound has dropped

vars == <<dir, tmp, history, boot, lock, sessions, op, own, call, app, bridge, adapter, acvs,
          interrupts, pruned>>

Operator == Sessions + 1

\* generation_files and session_files, in the order archive_entry removes them.
\* "exit" and "bexit" are 1 for code 0 and 2 for another; "failed" is 1 for the
\* arming message, which bridge-start removes, and 2 for every other.
GenerationFiles == <<"mpc", "exit", "bridge", "bexit", "unarmed", "ready", "failed", "pipe", "state">>
SessionFiles    == <<"id", "boot", "revoked", "owner", "snapshot">>
Folder == (Range(GenerationFiles) \cup Range(SessionFiles)) \ {"state", "snapshot"}

NoState == [cmd |-> 0, intent |-> 0, stop |-> FALSE, closed |-> FALSE, snapshot |-> 0]
Idle    == [cmd |-> "none", pc |-> "idle", clean |-> FALSE, owned |-> FALSE]
NoCall  == [pc |-> "none", todo |-> <<>>, whole |-> FALSE, ok |-> FALSE]
Unborn  == [pc |-> "unborn", child |-> 0, setup |-> 0, ready |-> FALSE, tried |-> FALSE,
            seen |-> FALSE, pending |-> FALSE, code |-> FALSE]
Ended   == [Unborn EXCEPT !.pc = "end"]
Gone    == [st |-> "gone", app |-> 0]
NoAdapter == [st |-> "none", app |-> 0]

CallPcs == {"none", "done", "stop", "gone", "receipt", "start", "starting", "route", "usr1",
            "stage", "copy", "rename", "remove"}
OpPcs   == {"idle", "entry", "prior", "stock", "old", "snapshot", "seal", "id", "boot", "fresh",
            "fork", "locator", "adapter", "drained", "close", "closing", "kill", "term", "await",
            "receipt", "recover", "recovered", "stopped", "started", "routed"}
OwnPcs  == {"unborn", "end", "admit", "launch", "spawn", "exec", "last", "poll", "tick", "status",
            "setup", "wired", "apply", "drained", "rewired", "offer", "offered", "leave", "reaped",
            "departed", "cleared", "consume", "archived"}

TypeOK ==
    /\ dir \in [Folder -> 0 .. Sessions + Apps + Bridges + Boots]
    /\ tmp \in [cmd : 0 .. Apps, intent : 0 .. 3, stop : BOOLEAN, closed : BOOLEAN, snapshot : 0 .. 2]
    /\ history.entries \in Seq(0 .. Apps) /\ Len(history.entries) <= HistoryEntries
    /\ history.new \in BOOLEAN /\ pruned \subseteq 0 .. Apps
    /\ boot \in 1 .. Boots /\ lock \in 0 .. Operator /\ sessions \in 0 .. Sessions
    /\ op \in [cmd : Commands \cup {"none"}, pc : OpPcs, clean : BOOLEAN, owned : BOOLEAN]
    /\ own \in [1 .. Sessions -> [pc : OwnPcs, child : 0 .. Apps, setup : 0 .. 2, ready : BOOLEAN,
                  tried : BOOLEAN, seen : BOOLEAN, pending : BOOLEAN, code : BOOLEAN]]
    /\ call.pc \in CallPcs /\ call.todo \in Seq(Folder \cup {"state", "snapshot"})
    /\ {call.whole, call.ok} \subseteq BOOLEAN
    /\ app \in [1 .. Apps -> {"unborn", "exec", "init", "chooser", "ready", "ok", "bad"}]
    /\ bridge \in [1 .. Bridges -> [st : {"unborn", "fork", "up", "ready", "ok", "bad", "gone"},
                                    app : 0 .. Apps]]
    /\ adapter \in [st : {"none", "idle", "armed"}, app : 0 .. Apps]
    /\ acvs \in BOOLEAN /\ interrupts \in 0 .. Interrupts

Init ==
    /\ dir = [f \in Folder |-> 0] /\ tmp = NoState
    /\ history = [entries |-> <<>>, new |-> FALSE] /\ pruned = {}
    /\ boot = 1 /\ lock = 0 /\ sessions = 0 /\ interrupts = 0 /\ acvs = TRUE
    /\ op = Idle /\ own = [k \in 1 .. Sessions |-> Unborn] /\ call = NoCall
    /\ app = [n \in 1 .. Apps |-> "unborn"]
    /\ bridge = [b \in 1 .. Bridges |-> [st |-> "unborn", app |-> 0]]
    /\ adapter = NoAdapter

-----------------------------------------------------------------------------
(* What a script can tell about a process.                                  *)

Running(n) == app[n] \in {"init", "chooser", "ready"}
Alive(n)   == app[n] = "exec" \/ Running(n)
Up(b)      == bridge[b].st \in {"up", "ready"}
OwnerBusy(k) == own[k].pc \notin {"unborn", "end"}

\* mpc_running; same_boot; identity of mpc.pid and of bridge.pid.
MpcRunning == \E n \in 1 .. Apps : Running(n)
SameBoot   == dir.boot \in {0, boot}
IdApp      == SameBoot /\ dir.mpc # 0 /\ Running(dir.mpc)
IdBridge   == SameBoot /\ dir.bridge # 0 /\ Up(dir.bridge)

\* Fault: a revoked session still counts.
OnRecord(k) == dir.id = k

\* authorized: this script's session is the one on record and not revoked.
Authorized(k) == dir.id = k /\ dir.revoked = 0

\* session-status: 0 ready, 3 at the chooser, 5 initializing, 6 in a transition,
\* 4 closed, 1 anything else; a source is unhealthy whenever its clock is late.
Status ==
    IF tmp.cmd = 0 \/ ~\E n \in 1 .. Apps : n = tmp.cmd /\ Running(n) THEN {1}
    ELSE IF tmp.closed THEN {4}
    ELSE IF app[tmp.cmd] = "init" THEN {1, 5}
    ELSE IF tmp.intent # 0 THEN {1, 6}
    ELSE IF app[tmp.cmd] = "ready" THEN {0, 1} ELSE {1, 3}

\* new-project-intent: accepted, for the application of mpc.pid, and no stop.
Accepted == tmp.cmd # 0 /\ tmp.cmd = dir.mpc /\ tmp.intent = 1 /\ ~tmp.stop

\* stop_adapter: TERM, and a bounded wait that may fail.
StopAdapter(ok) == \/ ok /\ adapter' = NoAdapter
                   \/ ~ok /\ adapter.st # "none" /\ UNCHANGED adapter

-----------------------------------------------------------------------------
(* The processes.                                                           *)

ScriptFrame == <<history, boot, lock, sessions, op, own, call, interrupts, pruned, acvs>>

\* The application maps its state files as it starts.
AppExec(n) ==
    /\ app[n] = "exec" /\ app' = [app EXCEPT ![n] = "init"]
    /\ tmp' = [NoState EXCEPT !.cmd = n, !.snapshot = tmp.snapshot]
    /\ UNCHANGED <<ScriptFrame, dir, bridge, adapter>>
AppProgress(n) ==
    /\ app[n] \in {"init", "chooser"}
    /\ app' = [app EXCEPT ![n] = IF @ = "init" THEN "chooser" ELSE "ready"]
    /\ UNCHANGED <<ScriptFrame, dir, tmp, bridge, adapter>>

\* A New Project dialog is answered: 1 accepts it, 3 does not qualify.
AppIntent(n) ==
    /\ app[n] \in {"chooser", "ready"} /\ tmp.cmd = n
    /\ \E v \in {1, 3} :
          /\ v = 1 => tmp.intent = 0 /\ ~tmp.stop
          /\ tmp' = [tmp EXCEPT !.intent = v]
    /\ UNCHANGED <<ScriptFrame, dir, app, bridge, adapter>>
AppClose(n) ==
    /\ Running(n) /\ tmp.cmd = n /\ tmp.stop /\ ~tmp.closed /\ tmp' = [tmp EXCEPT !.closed = TRUE]
    /\ UNCHANGED <<ScriptFrame, dir, app, bridge, adapter>>
AppExit(n) ==
    /\ Alive(n) /\ \E end \in {"ok", "bad"} : app' = [app EXCEPT ![n] = end]
    /\ UNCHANGED <<ScriptFrame, dir, tmp, bridge, adapter>>

\* bridge_start's child: it records its bridge, waits for it, records its exit.
BridgeBegins(b) ==
    /\ bridge[b].st = "fork"
    /\ bridge' = [bridge EXCEPT ![b].st = "up", ![b].app = tmp.cmd]
    /\ dir' = [dir EXCEPT !.bridge = b]
    /\ UNCHANGED <<ScriptFrame, tmp, app, adapter>>
BridgeReady(b) ==
    /\ bridge[b].st = "up" /\ bridge[b].app # 0 /\ bridge' = [bridge EXCEPT ![b].st = "ready"]
    /\ UNCHANGED <<ScriptFrame, dir, tmp, app, adapter>>
BridgeExit(b) ==
    /\ Up(b) /\ \E end \in {"ok", "bad"} : bridge' = [bridge EXCEPT ![b].st = end]
    /\ UNCHANGED <<ScriptFrame, dir, tmp, app, adapter>>
BridgeReceipt(b) ==
    /\ bridge[b].st \in {"ok", "bad"} /\ bridge' = [bridge EXCEPT ![b] = Gone]
    /\ dir' = [dir EXCEPT !.bexit = IF bridge[b].st = "ok" THEN 1 ELSE 2]
    /\ UNCHANGED <<ScriptFrame, tmp, app, adapter>>

AdapterExit ==
    /\ adapter.st # "none" /\ adapter' = NoAdapter
    /\ UNCHANGED <<ScriptFrame, dir, tmp, app, bridge>>

\* The preferences watch wakes an owner that has set its controller up.
Wake(k) ==
    /\ own[k].setup = 1 /\ ~own[k].pending
    /\ own[k].pc \in {"poll", "tick", "status", "apply", "drained", "rewired", "offer", "offered", "leave"}
    /\ own' = [own EXCEPT ![k].pending = TRUE]
    /\ UNCHANGED <<dir, tmp, history, boot, lock, sessions, op, call, app, bridge, adapter, acvs,
                   interrupts, pruned>>

Processes ==
    \/ \E n \in 1 .. Apps : AppExec(n) \/ AppProgress(n) \/ AppIntent(n) \/ AppClose(n) \/ AppExit(n)
    \/ \E b \in 1 .. Bridges : BridgeBegins(b) \/ BridgeReady(b) \/ BridgeExit(b) \/ BridgeReceipt(b)
    \/ AdapterExit \/ \E k \in 1 .. Sessions : Wake(k)

-----------------------------------------------------------------------------
(* The functions that a holder of the lock calls.                           *)

CallFrame   == <<boot, lock, sessions, op, own, interrupts, acvs>>
Calls(pc)   == call = NoCall /\ call' = [NoCall EXCEPT !.pc = pc]
Archives(whole) == call = NoCall /\ call' = [NoCall EXCEPT !.pc = "stage", !.whole = whole]
Step(pc)    == call' = [call EXCEPT !.pc = pc]
Return(ok)  == call' = [NoCall EXCEPT !.pc = "done", !.ok = ok]
Returned    == call.pc = "done" /\ call' = NoCall

\* bridge_stop: TERM, wait for the process, then for its exit receipt.
BridgeStop ==
    /\ call.pc = "stop"
    /\ Step(IF IdBridge THEN "gone" ELSE "receipt")
    /\ UNCHANGED <<CallFrame, dir, tmp, history, app, bridge, adapter, pruned>>

CleanReceipt == dir.bexit = 1

BridgeGone ==
    /\ call.pc = "gone" /\ IF IdBridge THEN Return(FALSE) ELSE Step("receipt")
    /\ UNCHANGED <<CallFrame, dir, tmp, history, app, bridge, adapter, pruned>>
BridgeSettled ==
    /\ call.pc = "receipt" /\ Return(dir.bridge = 0 \/ CleanReceipt)
    /\ UNCHANGED <<CallFrame, dir, tmp, history, app, bridge, adapter, pruned>>

\* bridge_start: "It never restarts it".  The preference may be unreadable.
BridgeStart ==
    /\ call.pc = "start"
    /\ \/ Return(FALSE) /\ UNCHANGED <<dir, bridge>>
       \/ /\ IdApp /\ ~IdBridge /\ Status \cap {0, 3} # {} /\ Step("starting")
          /\ PromptReceipts => \A b \in 1 .. Bridges : bridge[b].st \notin {"ok", "bad"}
          /\ dir' = [dir EXCEPT !.bexit = 0]
          /\ \E b \in 1 .. Bridges :
                /\ bridge[b].st = "unborn" /\ \A c \in 1 .. b - 1 : bridge[c].st # "unborn"
                /\ bridge' = [bridge EXCEPT ![b].st = "fork"]
    /\ UNCHANGED <<CallFrame, tmp, history, app, adapter, pruned>>
Recorded == \A b \in 1 .. Bridges : bridge[b].st # "fork"
BridgeStarted ==
    /\ call.pc = "starting" /\ Recorded
    /\ \/ Return(FALSE)
       \/ /\ IdBridge /\ bridge[dir.bridge].st = "ready" /\ dir.bexit = 0
          /\ Status \cap {0, 3} # {} /\ Return(TRUE)
    /\ UNCHANGED <<CallFrame, dir, tmp, history, app, bridge, adapter, pruned>>

\* arm_adapter: the checks, then USR1 to the adapter that was checked.
Route ==
    /\ call.pc = "route"
    /\ \/ Return(FALSE)
       \/ /\ dir.revoked = 0 /\ dir.unarmed # 0 /\ adapter.st # "none" /\ adapter.app = dir.unarmed
          /\ 0 \in Status /\ IdBridge /\ ~Accepted /\ Step("usr1")
    /\ UNCHANGED <<CallFrame, dir, tmp, history, app, bridge, adapter, pruned>>
Arm ==
    /\ call.pc = "usr1"
    /\ IF adapter.st = "none" THEN Return(FALSE) /\ UNCHANGED <<adapter, dir>>
       ELSE /\ adapter' = [adapter EXCEPT !.st = "armed"]
            /\ dir' = [dir EXCEPT !.unarmed = 0] /\ Return(TRUE)
    /\ UNCHANGED <<CallFrame, tmp, history, app, bridge, pruned>>

\* What archive_entry removes once history_commit has succeeded.
Retire == call' = [call EXCEPT !.pc = "remove",
              !.todo = (IF dir.mpc # 0 THEN GenerationFiles ELSE <<>>)
                       \o (IF call.whole THEN SessionFiles ELSE <<>>)]

\* Fault: a failed commit does not keep archive_entry from removing.
RetireAnyway == Retire

Uncommitted == Return(FALSE)

\* How many of n entries history_commit drops before it adds one.
Cut(n) == IF n >= HistoryEntries THEN n - HistoryEntries + 1 ELSE 0

\* archive_entry and history_commit.  The stage is in RAM; any write may fail.
Stage ==
    /\ call.pc = "stage"
    /\ \/ Uncommitted /\ UNCHANGED <<history, pruned>>
       \/ LET old == history.entries
              cut == Cut(Len(old))
          IN  /\ history' = [entries |-> SubSeq(old, cut + 1, Len(old)), new |-> FALSE]
              /\ pruned' = pruned \cup Range(SubSeq(old, 1, cut)) /\ Step("copy")
    /\ UNCHANGED <<CallFrame, dir, tmp, app, bridge, adapter>>
Copy ==
    /\ call.pc = "copy" /\ history' = [history EXCEPT !.new = TRUE]
    /\ Uncommitted \/ Step("rename")
    /\ UNCHANGED <<CallFrame, dir, tmp, app, bridge, adapter, pruned>>
Rename ==
    /\ call.pc = "rename"
    /\ \/ Uncommitted /\ UNCHANGED history
       \/ Retire /\ history' = [entries |-> Append(history.entries, dir.mpc), new |-> FALSE]
    /\ UNCHANGED <<CallFrame, dir, tmp, app, bridge, adapter, pruned>>
Remove ==
    /\ call.pc = "remove"
    /\ IF call.todo = <<>> THEN Return(TRUE) /\ UNCHANGED <<dir, tmp>>
       ELSE LET f == Head(call.todo) IN
            /\ dir' = IF f \in Folder THEN [dir EXCEPT ![f] = 0] ELSE dir
            /\ tmp' = CASE f = "state" -> [NoState EXCEPT !.snapshot = tmp.snapshot]
                        [] f = "snapshot" -> [tmp EXCEPT !.snapshot = 0]
                        [] OTHER -> tmp
            /\ call' = [call EXCEPT !.todo = Tail(@)]
    /\ UNCHANGED <<CallFrame, history, app, bridge, adapter, pruned>>

CallStep == \/ BridgeStop \/ BridgeGone \/ BridgeSettled \/ BridgeStart \/ BridgeStarted
            \/ Route \/ Arm \/ Stage \/ Copy \/ Rename \/ Remove

-----------------------------------------------------------------------------
(* The session owner.                                                       *)

OwnerFrame == <<history, boot, sessions, op, bridge, acvs, interrupts, pruned>>
Goto(k, pc) == own' = [own EXCEPT ![k].pc = pc]

Lock(k)     == lock = 0 /\ lock' = k
Unlock      == lock' = 0
Dismiss(k)  == own' = [own EXCEPT ![k] = Ended]
Quit(k)     == Dismiss(k) /\ Unlock

OwnerAdmit(k) ==
    /\ own[k].pc = "admit" /\ Lock(k) /\ Goto(k, "launch")
    /\ UNCHANGED <<OwnerFrame, dir, tmp, call, app, adapter>>

\* launch_app up to its pipe.  A refusal ends the owner.
Launch(k) ==
    /\ own[k].pc = "launch"
    /\ IF Authorized(k) /\ tmp.cmd = 0 /\ ~MpcRunning /\ ~acvs /\ dir.pipe = 0
          THEN Goto(k, "spawn") /\ dir' = [dir EXCEPT !.pipe = 1] /\ UNCHANGED lock
          ELSE Quit(k) /\ UNCHANGED dir
    /\ UNCHANGED <<OwnerFrame, tmp, call, app, adapter>>
Spawn(k) ==
    /\ own[k].pc = "spawn"
    /\ \E n \in 1 .. Apps :
          /\ app[n] = "unborn" /\ \A m \in 1 .. n - 1 : app[m] # "unborn"
          /\ app' = [app EXCEPT ![n] = "exec"] /\ dir' = [dir EXCEPT !.mpc = n]
          /\ own' = [own EXCEPT ![k] = [Unborn EXCEPT !.pc = "exec", !.child = n,
                                            !.pending = own[k].pending]]
    /\ UNCHANGED <<OwnerFrame, tmp, call, lock, adapter>>

\* Fault: the child is taken to have crossed exec.
NotAwaited(k) == TRUE

\* "The child may still be crossing exec": this wait is taken to be long enough, so
\* that it fails only when the child has died.
Crossed(k) == app[own[k].child] # "exec"
ExecWait(k) ==
    /\ own[k].pc = "exec" /\ Crossed(k) /\ Unlock
    /\ Goto(k, IF IdApp THEN "poll" ELSE "last")
    /\ UNCHANGED <<OwnerFrame, dir, tmp, call, app, adapter>>
LastReceipt(k) ==
    /\ own[k].pc = "last" /\ ~Alive(own[k].child) /\ Dismiss(k)
    /\ dir' = [dir EXCEPT !.exit = IF app[own[k].child] = "ok" THEN 1 ELSE 2, !.pipe = 0]
    /\ UNCHANGED <<OwnerFrame, tmp, call, lock, app, adapter>>

\* "Never block here": the lock is tried, not waited for.
Poll(k) ==
    /\ own[k].pc = "poll" /\ IdApp /\ Lock(k) /\ Goto(k, "tick")
    /\ UNCHANGED <<OwnerFrame, dir, tmp, call, app, adapter>>

\* One visit: a transition only stops the adapter; otherwise the status decides.
Tick(k) ==
    /\ own[k].pc = "tick"
    /\ \/ /\ ~Authorized(k) \/ (~Accepted /\ own[k].setup = 2)
          /\ Goto(k, "poll") /\ Unlock /\ UNCHANGED adapter
       \/ /\ Authorized(k) /\ Accepted /\ Unlock
          /\ own' = [own EXCEPT ![k].pc = "poll", ![k].seen = TRUE]
          /\ IF own[k].seen THEN UNCHANGED adapter ELSE \E ok \in BOOLEAN : StopAdapter(ok)
       \/ /\ Authorized(k) /\ ~Accepted /\ own[k].setup # 2
          /\ Goto(k, "status") /\ UNCHANGED <<lock, adapter>>
    /\ UNCHANGED <<OwnerFrame, dir, tmp, call, app>>

\* Forty visits of an initializing source are too many; that bound is "may fail".
Visit(k) ==
    /\ own[k].pc = "status" /\ UNCHANGED lock
    /\ \E code \in Status :
          /\ IF code = 6 THEN \E ok \in BOOLEAN : StopAdapter(ok) ELSE UNCHANGED adapter
          /\ LET next == [own[k] EXCEPT !.seen = @ \/ code = 6, !.ready = code = 0] IN
                \/ /\ own[k].setup = 1 /\ own' = [own EXCEPT ![k] = [next EXCEPT !.pc = "apply"]]
                   /\ UNCHANGED dir
                \/ /\ own[k].setup = 0 /\ code \in {0, 3} /\ UNCHANGED dir
                   /\ own' = [own EXCEPT ![k] = [next EXCEPT !.pc = "setup"]]
                \/ /\ own[k].setup = 0 /\ code \in {1, 5} /\ UNCHANGED dir
                   /\ own' = [own EXCEPT ![k] = [next EXCEPT !.pc = "leave"]]
                \/ /\ own[k].setup = 0 /\ code \notin {0, 3}
                   /\ own' = [own EXCEPT ![k] = [next EXCEPT !.pc = "leave", !.setup = 2]]
                   /\ dir' = [dir EXCEPT !.failed = 2]
    /\ UNCHANGED <<OwnerFrame, tmp, call, app>>

\* start_adapter and bridge_start; the preferences watch may fail to start too.
Setup(k) ==
    /\ own[k].pc = "setup"
    /\ \/ /\ adapter.st = "none" /\ adapter' = [st |-> "idle", app |-> own[k].child]
          /\ dir' = [dir EXCEPT !.unarmed = own[k].child]
          /\ Goto(k, "wired") /\ Calls("start")
       \/ /\ dir' = [dir EXCEPT !.failed = 2] /\ UNCHANGED <<adapter, call>>
          /\ own' = [own EXCEPT ![k].pc = "leave", ![k].setup = 2]
    /\ UNCHANGED <<OwnerFrame, tmp, lock, app>>
Wired(k) ==
    /\ own[k].pc = "wired" /\ Returned
    /\ \/ /\ call.ok /\ dir' = [dir EXCEPT !.ready = 1]
          /\ own' = [own EXCEPT ![k].pc = "apply", ![k].setup = 1]
       \/ /\ dir' = [dir EXCEPT !.failed = 2]
          /\ own' = [own EXCEPT ![k].pc = "leave", ![k].setup = 2]
    /\ UNCHANGED <<OwnerFrame, tmp, lock, app, adapter>>

\* native_preferences_apply: the selection is saved, or refused, before the live
\* bridge is touched; the bridge is drained and started once.
Apply(k) ==
    /\ own[k].pc = "apply"
    /\ \/ /\ own[k].pending /\ Calls("stop")
          /\ own' = [own EXCEPT ![k].pc = "drained", ![k].pending = FALSE]
       \/ /\ own' = [own EXCEPT ![k].pc = "offer", ![k].pending = FALSE] /\ UNCHANGED call
    /\ UNCHANGED <<OwnerFrame, dir, tmp, lock, app, adapter>>
Reapply(k) ==
    /\ own[k].pc = "drained" /\ call.pc = "done"
    /\ IF call.ok THEN /\ call' = [NoCall EXCEPT !.pc = "start"] /\ Goto(k, "rewired")
                       /\ UNCHANGED dir
                  ELSE /\ Returned /\ own' = [own EXCEPT ![k].pc = "leave", ![k].setup = 2]
                       /\ dir' = [dir EXCEPT !.failed = 2]
    /\ UNCHANGED <<OwnerFrame, tmp, lock, app, adapter>>
Reapplied(k) ==
    /\ own[k].pc = "rewired" /\ Returned
    /\ IF call.ok THEN Goto(k, "offer") /\ UNCHANGED dir
                  ELSE /\ own' = [own EXCEPT ![k].pc = "leave", ![k].setup = 2]
                       /\ dir' = [dir EXCEPT !.failed = 2]
    /\ UNCHANGED <<OwnerFrame, tmp, lock, app, adapter>>

\* One attempt to arm in a generation, when the status of this visit was ready.
Offer(k) ==
    /\ own[k].pc = "offer"
    /\ IF own[k].ready /\ ~own[k].tried
          THEN Calls("route") /\ own' = [own EXCEPT ![k].pc = "offered", ![k].tried = TRUE]
          ELSE Goto(k, "leave") /\ UNCHANGED call
    /\ UNCHANGED <<OwnerFrame, dir, tmp, lock, app, adapter>>
Offered(k) ==
    /\ own[k].pc = "offered" /\ Returned /\ Goto(k, "leave")
    /\ dir' = IF call.ok THEN dir ELSE [dir EXCEPT !.failed = 1]
    /\ UNCHANGED <<OwnerFrame, tmp, lock, app, adapter>>
LeaveVisit(k) ==
    /\ own[k].pc = "leave" /\ Unlock
    /\ own' = [own EXCEPT ![k].pc = "poll", ![k].ready = FALSE]
    /\ UNCHANGED <<OwnerFrame, dir, tmp, call, app, adapter>>

\* wait_receipt: "Actual wait and bounded logger join never need session.lock".
Reap(k) ==
    /\ own[k].pc = "poll" /\ ~IdApp /\ ~Alive(own[k].child)
    /\ own' = [own EXCEPT ![k] = [Unborn EXCEPT !.pc = "reaped", !.pending = own[k].pending,
                                                 !.code = app[own[k].child] = "ok"]]
    /\ dir' = [dir EXCEPT !.exit = IF app[own[k].child] = "ok" THEN 1 ELSE 2, !.pipe = 0]
    /\ UNCHANGED <<OwnerFrame, tmp, call, lock, app, adapter>>

\* After an exit: adapter and bridge go first, whatever comes next.
Departed(k) ==
    /\ own[k].pc = "reaped" /\ Lock(k) /\ Goto(k, "departed")
    /\ UNCHANGED <<OwnerFrame, dir, tmp, call, app, adapter>>
Clear(k) ==
    /\ own[k].pc = "departed"
    /\ \/ ~Authorized(k) /\ Quit(k) /\ UNCHANGED <<adapter, call>>
       \/ Authorized(k) /\ StopAdapter(FALSE) /\ Quit(k) /\ UNCHANGED call
       \/ Authorized(k) /\ StopAdapter(TRUE) /\ Calls("stop") /\ Goto(k, "cleared") /\ UNCHANGED lock
    /\ UNCHANGED <<OwnerFrame, dir, tmp, app>>

\* Fault: any exit of the application will do.
EarnedByExit(k) == Accepted

\* "only an exact consumed native New Project intent permits one next app".
Earned(k) == own[k].code /\ Accepted

\* Fault: bridge_stop is trusted to have worked.
NothingLeft == FALSE

BridgeLeft == IdBridge \/ (dir.bridge # 0 /\ dir.bexit = 0)
Consider(k) ==
    /\ own[k].pc = "cleared" /\ Returned
    /\ IF Earned(k) /\ ~MpcRunning /\ ~acvs /\ ~BridgeLeft
          THEN Goto(k, "consume") /\ UNCHANGED lock ELSE Quit(k)
    /\ UNCHANGED <<OwnerFrame, dir, tmp, app, adapter>>
Consume(k) ==
    /\ own[k].pc = "consume"
    /\ IF Authorized(k) /\ Accepted
          THEN /\ tmp' = [tmp EXCEPT !.intent = 2] /\ Archives(FALSE) /\ Goto(k, "archived")
               /\ UNCHANGED lock
          ELSE Quit(k) /\ UNCHANGED <<tmp, call>>
    /\ UNCHANGED <<OwnerFrame, dir, app, adapter>>
Archived(k) ==
    /\ own[k].pc = "archived" /\ Returned
    /\ IF call.ok THEN Goto(k, "launch") /\ UNCHANGED lock ELSE Quit(k)
    /\ UNCHANGED <<OwnerFrame, dir, tmp, app, adapter>>

OwnerStep(k) ==
    \/ OwnerAdmit(k) \/ Launch(k) \/ Spawn(k) \/ ExecWait(k) \/ LastReceipt(k) \/ Poll(k) \/ Tick(k)
    \/ Visit(k) \/ Setup(k) \/ Wired(k) \/ Apply(k) \/ Reapply(k) \/ Reapplied(k) \/ Offer(k)
    \/ Offered(k) \/ LeaveVisit(k) \/ Reap(k) \/ Departed(k) \/ Clear(k) \/ Consider(k)
    \/ Consume(k) \/ Archived(k)

-----------------------------------------------------------------------------
(* The operator's script.                                                   *)

OpFrame == <<history, boot, own, app, bridge, interrupts, pruned>>
Finish  == op' = Idle /\ Unlock
GotoOp(pc) == op' = [op EXCEPT !.pc = pc] /\ UNCHANGED lock

Command(c) ==
    /\ op = Idle /\ lock = 0 /\ lock' = Operator
    /\ op' = [Idle EXCEPT !.cmd = c, !.pc = "entry", !.clean = TRUE]
    /\ UNCHANGED <<OpFrame, dir, tmp, call, sessions, adapter, acvs>>

\* start: an owned application is kept; a live bridge, a busy owner, unsealed
\* settings or state of unknown origin refuse; a prior boot is archived first.
Refused == \/ IdBridge
           \/ SameBoot /\ dir.owner # 0 /\ \E k \in 1 .. Sessions : k = dir.owner /\ OwnerBusy(k)
           \/ (tmp.cmd # 0 \/ tmp.snapshot # 0) /\ ~(dir.id # 0 /\ tmp.snapshot = 2)
           \/ ~SameBoot /\ dir.id = 0
StartEntry ==
    /\ op.cmd = "start" /\ op.pc = "entry"
    /\ \/ (IdApp \/ Refused) /\ Finish /\ UNCHANGED call
       \/ ~IdApp /\ ~Refused /\ SameBoot /\ GotoOp("stock") /\ UNCHANGED call
       \/ ~IdApp /\ ~Refused /\ ~SameBoot /\ GotoOp("prior") /\ Archives(TRUE)
    /\ UNCHANGED <<OpFrame, dir, tmp, sessions, adapter, acvs>>
StartPrior ==
    /\ op.cmd = "start" /\ op.pc = "prior" /\ Returned
    /\ IF call.ok THEN GotoOp("stock") ELSE Finish
    /\ UNCHANGED <<OpFrame, dir, tmp, sessions, adapter, acvs>>

\* The adapter and the stock service stop; what an earlier session of this boot
\* left is archived.
StartStock ==
    /\ op.cmd = "start" /\ op.pc = "stock"
    /\ \/ StopAdapter(FALSE) /\ Finish /\ UNCHANGED <<acvs, call>>
       \/ /\ StopAdapter(TRUE) /\ acvs' = FALSE
          /\ IF MpcRunning THEN Finish /\ UNCHANGED call
             ELSE IF dir.id # 0 THEN GotoOp("old") /\ Archives(TRUE)
             ELSE GotoOp("snapshot") /\ UNCHANGED call
    /\ UNCHANGED <<OpFrame, dir, tmp, sessions>>
StartOld ==
    /\ op.cmd = "start" /\ op.pc = "old" /\ Returned
    /\ IF call.ok THEN GotoOp("snapshot") ELSE Finish
    /\ UNCHANGED <<OpFrame, dir, tmp, sessions, adapter, acvs>>

\* The settings are copied and sealed, then the session is put on record.
StartRecord ==
    /\ op.cmd = "start" /\ UNCHANGED <<OpFrame, call, sessions, adapter, acvs>>
    /\ \/ op.pc = "snapshot" /\ GotoOp("seal") /\ tmp' = [tmp EXCEPT !.snapshot = 1] /\ UNCHANGED dir
       \/ op.pc = "seal" /\ GotoOp("id") /\ tmp' = [tmp EXCEPT !.snapshot = 2] /\ UNCHANGED dir
       \/ op.pc = "id" /\ GotoOp("boot") /\ dir' = [dir EXCEPT !.id = sessions + 1] /\ UNCHANGED tmp
       \/ op.pc = "boot" /\ GotoOp("fresh") /\ dir' = [dir EXCEPT !.boot = boot] /\ UNCHANGED tmp
       \/ op.pc = "fresh" /\ GotoOp("fork") /\ dir' = [dir EXCEPT !.revoked = 0] /\ UNCHANGED tmp
StartOwner ==
    /\ op.cmd = "start" /\ op.pc = "fork" /\ GotoOp("locator")
    /\ sessions < Sessions /\ sessions' = sessions + 1
    /\ own' = [own EXCEPT ![sessions'] = [Unborn EXCEPT !.pc = "admit"]]
    /\ UNCHANGED <<dir, tmp, history, boot, call, app, bridge, adapter, acvs, interrupts, pruned>>
StartLocator ==
    /\ op.cmd = "start" /\ op.pc = "locator" /\ Finish
    /\ dir' = [dir EXCEPT !.owner = sessions]
    /\ UNCHANGED <<OpFrame, tmp, call, sessions, adapter, acvs>>

\* stop: "Durable revocation precedes every slow drain/stop".
Stop(pc) == op.cmd = "stop" /\ op.pc = pc
StopFrame == <<history, boot, own, interrupts, pruned, sessions>>
StopRevoke ==
    /\ Stop("entry")
    /\ IF dir.id = 0 THEN Finish /\ UNCHANGED dir
                     ELSE GotoOp("adapter") /\ dir' = [dir EXCEPT !.revoked = 1]
    /\ UNCHANGED <<StopFrame, tmp, call, app, bridge, adapter, acvs>>
StopAdapterFirst ==
    /\ Stop("adapter")
    /\ \/ StopAdapter(FALSE) /\ Finish /\ UNCHANGED call
       \/ StopAdapter(TRUE) /\ GotoOp("drained") /\ Calls("stop")
    /\ UNCHANGED <<StopFrame, dir, tmp, app, bridge, acvs>>

\* Nothing but the owned application, or the absence of any, is recovered from.
StopOwned ==
    /\ Stop("drained") /\ Returned
    /\ IF ~IdApp /\ (tmp.snapshot = 0 \/ MpcRunning \/ acvs) THEN Finish
       ELSE /\ op' = [op EXCEPT !.pc = IF call.ok /\ IdApp THEN "close" ELSE "kill",
                                !.owned = IdApp, !.clean = call.ok /\ IdApp]
            /\ UNCHANGED lock
    /\ UNCHANGED <<StopFrame, dir, tmp, app, bridge, adapter, acvs>>

\* command-client stop: the request, then the wait for a closed producer.
StopClose ==
    /\ Stop("close") /\ UNCHANGED lock
    /\ \/ /\ op' = [op EXCEPT !.pc = "kill", !.clean = FALSE] /\ UNCHANGED tmp
       \/ /\ IdApp /\ tmp.cmd = dir.mpc /\ tmp' = [tmp EXCEPT !.stop = TRUE]
          /\ op' = [op EXCEPT !.pc = "closing"]
    /\ UNCHANGED <<StopFrame, dir, call, app, bridge, adapter, acvs>>
StopClosing ==
    /\ Stop("closing") /\ UNCHANGED lock
    /\ \E ok \in {FALSE, tmp.closed} : op' = [op EXCEPT !.pc = "kill", !.clean = ok]
    /\ UNCHANGED <<StopFrame, dir, tmp, call, app, bridge, adapter, acvs>>

\* "A timed-out bridge must be gone before stock recovery, not merely signaled".
StopKill ==
    /\ Stop("kill") /\ UNCHANGED lock
    /\ IF IdBridge THEN /\ bridge' = [bridge EXCEPT ![dir.bridge].st = "bad"]
                        /\ op' = [op EXCEPT !.pc = "term", !.clean = FALSE]
                   ELSE op' = [op EXCEPT !.pc = "term"] /\ UNCHANGED bridge
    /\ UNCHANGED <<StopFrame, dir, tmp, call, app, adapter, acvs>>

\* TERM, and KILL when the application outlives its time.
StopTerm ==
    /\ Stop("term") /\ IF op.owned /\ ~IdApp THEN Finish ELSE GotoOp("await")
    /\ UNCHANGED <<StopFrame, dir, tmp, call, app, bridge, adapter, acvs>>
StopAwait ==
    /\ Stop("await") /\ UNCHANGED lock
    /\ IF IdApp THEN /\ app' = [app EXCEPT ![dir.mpc] = "bad"]
                     /\ op' = [op EXCEPT !.pc = "receipt", !.clean = FALSE]
                ELSE op' = [op EXCEPT !.pc = "receipt"] /\ UNCHANGED app
    /\ UNCHANGED <<StopFrame, dir, tmp, call, bridge, adapter, acvs>>

\* Fault: a stop does not wait for the application's receipt.
NoReceiptNeeded == TRUE

Receipted == dir.mpc = 0 \/ dir.exit # 0
StopReceipt ==
    /\ Stop("receipt") /\ op' = [op EXCEPT !.pc = "recover", !.clean = @ /\ Receipted]
    /\ UNCHANGED <<StopFrame, dir, tmp, call, app, bridge, adapter, acvs, lock>>
StopRecover ==
    /\ Stop("recover")
    /\ IF MpcRunning \/ acvs \/ tmp.snapshot # 2 THEN Finish /\ UNCHANGED acvs
       ELSE GotoOp("recovered") /\ acvs' = TRUE
    /\ UNCHANGED <<StopFrame, dir, tmp, call, app, bridge, adapter>>
StopReport ==
    /\ Stop("recovered") /\ Finish
    /\ UNCHANGED <<StopFrame, dir, tmp, call, app, bridge, adapter, acvs>>

\* bridge-stop, bridge-start and configure, which has saved its selection.
Explicit(pc, cmds) == op.cmd \in cmds /\ op.pc = pc
ExplicitFrame == <<OpFrame, tmp, sessions, adapter, acvs>>
ExplicitEntry ==
    /\ Explicit("entry", {"bridge-stop", "bridge-start", "configure"}) /\ UNCHANGED <<ExplicitFrame, dir>>
    /\ \/ op.cmd = "bridge-stop" /\ Calls("stop") /\ GotoOp("stopped")
       \/ op.cmd = "bridge-start" /\ Authorized(dir.id) /\ dir.id # 0 /\ Calls("start") /\ GotoOp("started")
       \/ op.cmd = "configure" /\ IdApp /\ Authorized(dir.id) /\ dir.id # 0 /\ Calls("stop") /\ GotoOp("stopped")
       \/ /\ op.cmd = "bridge-start" /\ (~Authorized(dir.id) \/ dir.id = 0) /\ Finish /\ UNCHANGED call
       \/ /\ op.cmd = "configure" /\ ~(IdApp /\ Authorized(dir.id) /\ dir.id # 0)
          /\ Finish /\ UNCHANGED call
ExplicitStopped ==
    /\ Explicit("stopped", {"bridge-stop", "configure"}) /\ call.pc = "done"
    /\ IF op.cmd = "configure" /\ call.ok
          THEN call' = [NoCall EXCEPT !.pc = "start"] /\ GotoOp("started")
          ELSE Returned /\ Finish
    /\ UNCHANGED <<ExplicitFrame, dir>>
ExplicitStarted ==
    /\ Explicit("started", {"bridge-start", "configure"}) /\ call.pc = "done"
    /\ IF call.ok /\ dir.unarmed # 0 /\ 0 \in Status
          THEN call' = [NoCall EXCEPT !.pc = "route"] /\ GotoOp("routed")
          ELSE Returned /\ Finish
    /\ UNCHANGED <<ExplicitFrame, dir>>
ExplicitRouted ==
    /\ Explicit("routed", {"bridge-start", "configure"}) /\ Returned /\ Finish
    /\ dir' = IF call.ok /\ op.cmd = "bridge-start" /\ dir.failed = 1 THEN [dir EXCEPT !.failed = 0] ELSE dir
    /\ UNCHANGED ExplicitFrame

OperatorStep ==
    \/ StartEntry \/ StartPrior \/ StartStock \/ StartOld \/ StartRecord \/ StartOwner \/ StartLocator
    \/ StopRevoke \/ StopAdapterFirst \/ StopOwned \/ StopClose \/ StopClosing \/ StopKill \/ StopTerm
    \/ StopAwait \/ StopReceipt \/ StopRecover \/ StopReport
    \/ ExplicitEntry \/ ExplicitStopped \/ ExplicitStarted \/ ExplicitRouted

-----------------------------------------------------------------------------
(* What may come between any two steps.                                     *)

\* The operator's script is killed.  Its children, and what it wrote, remain.
Interrupt ==
    /\ op # Idle /\ Recorded /\ interrupts < Interrupts /\ interrupts' = interrupts + 1
    /\ op' = Idle /\ lock' = 0 /\ call' = NoCall
    /\ UNCHANGED <<dir, tmp, history, boot, own, app, bridge, adapter, acvs, sessions, pruned>>

\* RAM and every process go; both folders stay.
PowerOff ==
    /\ boot < Boots /\ boot' = boot + 1 /\ tmp' = NoState /\ lock' = 0 /\ op' = Idle
    /\ call' = NoCall /\ adapter' = NoAdapter /\ acvs' = TRUE
    /\ own' = [k \in 1 .. Sessions |-> IF own[k].pc = "unborn" THEN own[k] ELSE Ended]
    /\ app' = [n \in 1 .. Apps |-> IF Alive(n) THEN "bad" ELSE app[n]]
    /\ bridge' = [b \in 1 .. Bridges |-> IF bridge[b].st = "unborn" THEN bridge[b]
                                         ELSE Gone]
    /\ UNCHANGED <<dir, history, sessions, interrupts, pruned>>

Scripts == OperatorStep \/ CallStep \/ \E k \in 1 .. Sessions : OwnerStep(k)

Next == \/ Processes \/ Scripts \/ Interrupt \/ PowerOff
        \/ \E c \in Commands : Command(c)

Spec == Init /\ [][Next]_vars

-----------------------------------------------------------------------------
(* Safety *)

\* mpc_running and systemctl is-active before every launch and every recovery: two
\* applications never run together, stock or owned.
OneApp ==
    /\ \A m, n \in 1 .. Apps : Alive(m) /\ Alive(n) => m = n
    /\ acvs => \A n \in 1 .. Apps : ~Alive(n)

\* stop_adapter and bridge_stop before every launch: no bridge and no adapter of
\* an application that is gone outlives the launch of the next.
GenerationsDoNotMix ==
    \A n \in 1 .. Apps : Alive(n) =>
        /\ adapter.st # "none" => adapter.app = n
        /\ \A b \in 1 .. Bridges : Up(b) /\ bridge[b].app # 0 => bridge[b].app = n

\* archive_entry commits before it removes: every application launched has its
\* locators in the session folder or an entry in history, power-off or not, until
\* the bound on entries drops it.
EvidenceIsKept ==
    \A n \in 1 .. Apps :
        app[n] # "unborn" => n \in {dir.mpc} \cup Range(history.entries) \cup pruned

\* "Session recovered; clean=1": the producer certified its closure, no process
\* is left, and both exits are on record, the bridge's with success.
CleanStopIsComplete ==
    (op.pc = "recovered" /\ op.clean) =>
        /\ tmp.closed /\ \A n \in 1 .. Apps : ~Alive(n) /\ \A b \in 1 .. Bridges : ~Up(b)
        /\ adapter.st = "none" /\ dir.exit # 0 /\ (dir.bridge # 0 => dir.bexit = 1)

\* "Owner cannot launch or arm while this lock is held and sees the revocation on
\* its next admission": while a session stays revoked nothing new is started.
NothingNew ==
    (dir.id # 0 /\ dir.revoked = 1 /\ dir'.revoked = 1) =>
        /\ \A n \in 1 .. Apps : app[n] = "unborn" => app'[n] = "unborn"
        /\ \A b \in 1 .. Bridges : bridge[b].st = "unborn" => bridge'[b].st = "unborn"
        /\ adapter'.st = "armed" => adapter.st = "armed"
RevokedStaysDown == [][NothingNew]_vars

\* "Prior-boot locators cannot authorize signals. Preserve them before any
\* current-boot process action, then admit a new session normally": start does not
\* refuse because of what an earlier boot left in the folder.
PriorBootIsAdmitted == ~(op.cmd = "start" /\ op.pc = "entry" /\ ~SameBoot /\ dir.id = 0)

-----------------------------------------------------------------------------
(* Refinement: no application without a permit. *)

life ==
    IF \E n \in 1 .. Apps : Alive(n) THEN "running"
    ELSE IF \E k \in 1 .. Sessions : Authorized(k) /\ own[k].pc \in {"admit", "launch", "spawn", "archived"}
         THEN "permitted" ELSE "down"
renewal ==
    IF tmp.cmd = 0 \/ tmp.intent # 1 THEN "none"
    ELSE CASE Alive(tmp.cmd) -> "asked" [] app[tmp.cmd] = "ok" -> "earned" [] OTHER -> "none"

Permit == INSTANCE LaunchPermit WITH starts <- sessions

\* "only an exact consumed native New Project intent permits one next app".
LaunchesArePermitted == Permit!Spec

=============================================================================
