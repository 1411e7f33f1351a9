------------------------- MODULE SessionOwner_proofs -------------------------
(***************************************************************************)
(* Proofs about the session owner, for any number of sessions,             *)
(* applications, bridges, boots and killed scripts: the types, who holds   *)
(* the lock and who is in which function, and the lemmas that say which    *)
(* variables each part of the script writes.                               *)
(***************************************************************************)
EXTENDS SessionOwner, SequenceTheorems, TLAPS

\* What an owner does with the lock, on a visit to a running application, after the
\* application's exit, and with a call of its own.
Visiting == {"status", "setup", "wired", "apply", "drained", "rewired", "offer", "offered", "leave"}
Closing  == {"departed", "cleared", "consume", "archived"}
Held     == Visiting \cup Closing \cup {"launch", "spawn", "exec", "tick"}
Calling  == {"wired", "drained", "rewired", "offered", "cleared", "archived"}

\* What the operator's script does with a call of its own.
OpCalling == {"prior", "old", "drained", "stopped", "started", "routed"}

\* Which caller each function of the lock's holder has.
StopCall    == {"stop", "gone", "receipt"}
StartCall   == {"start", "starting"}
RouteCall   == {"route", "usr1"}
ArchiveCall == {"stage", "copy", "rename", "remove"}

\* The lock is held by an owner, and the owner is at one of these points.
OwnerAt(pcs) == lock \in 1 .. Sessions /\ own[lock].pc \in pcs

TypeInv ==
    /\ TypeOK
    /\ history \in [entries : Seq(0 .. Apps), new : BOOLEAN]
    /\ call \in [pc : CallPcs, todo : Seq(Folder \cup {"state", "snapshot"}),
                 whole : BOOLEAN, ok : BOOLEAN]
    /\ call.pc \in {"copy", "rename"} => Len(history.entries) < HistoryEntries
    /\ dir.mpc \in 0 .. Apps /\ dir.bridge \in 0 .. Bridges
    /\ dir.id \in 0 .. sessions + 1
    /\ \A k \in 1 .. Sessions : k > sessions => own[k] = Unborn

\* The lock excludes the scripts from each other, and one of them is in the call.
LockInv ==
    /\ op.pc = "idle" => op = Idle
    /\ op.pc # "idle" => lock = Operator /\ op.cmd # "none"
    /\ \A k \in 1 .. Sessions : own[k].pc \in Held => lock = k
    /\ call.pc = "none" => call = NoCall
    /\ call.pc = "done" => op.pc \in OpCalling \/ OwnerAt(Calling)
    /\ call.pc \in StopCall => op.pc \in {"drained", "stopped"} \/ OwnerAt({"drained", "cleared"})
    /\ call.pc \in StartCall => op.pc = "started" \/ OwnerAt({"wired", "rewired"})
    /\ call.pc \in RouteCall => op.pc = "routed" \/ OwnerAt({"offered"})
    /\ call.pc \in ArchiveCall => op.pc \in {"prior", "old"} \/ OwnerAt({"archived"})
    /\ call.whole => op.pc \in {"prior", "old"} /\ call.pc \in ArchiveCall

-----------------------------------------------------------------------------
(* Types.                                                                   *)

Places == 0 .. Sessions + Apps + Bridges + Boots
Owners == [pc : OwnPcs, child : 0 .. Apps, setup : 0 .. 2, ready : BOOLEAN,
           tried : BOOLEAN, seen : BOOLEAN, pending : BOOLEAN, code : BOOLEAN]
Memory == [cmd : 0 .. Apps, intent : 0 .. 3, stop : BOOLEAN, closed : BOOLEAN, snapshot : 0 .. 2]
Ops    == [cmd : Commands \cup {"none"}, pc : OpPcs, clean : BOOLEAN, owned : BOOLEAN]
Callees == [pc : CallPcs, todo : Seq(Folder \cup {"state", "snapshot"}), whole : BOOLEAN, ok : BOOLEAN]
AppStates == {"unborn", "exec", "init", "chooser", "ready", "ok", "bad"}
BridgeStates == [st : {"unborn", "fork", "up", "ready", "ok", "bad", "gone"}, app : 0 .. Apps]
Adapters == [st : {"none", "idle", "armed"}, app : 0 .. Apps]
Files == {"mpc", "exit", "bridge", "bexit", "unarmed", "ready", "failed", "pipe",
          "id", "boot", "revoked", "owner"}

\* The constants are numbers, none of the first five zero.
LEMMA Sizes == /\ Sessions \in Nat /\ Sessions >= 1 /\ Apps \in Nat /\ Apps >= 1
               /\ Bridges \in Nat /\ Bridges >= 1 /\ Boots \in Nat /\ Boots >= 1
               /\ HistoryEntries \in Nat /\ HistoryEntries >= 1 /\ Interrupts \in Nat
BY SessionAssumption DEF SessionAssumption

\* Every number a file may hold is a place.
LEMMA PlaceSizes ==
    /\ {0, 1, 2} \subseteq Places /\ 0 .. Apps \subseteq Places /\ 0 .. Bridges \subseteq Places
    /\ 0 .. Boots \subseteq Places /\ 0 .. Sessions + 1 \subseteq Places /\ Places \subseteq Nat
<1>1. Sessions + Apps + Bridges + Boots \in Nat /\ Sessions + Apps + Bridges + Boots >= 4
      /\ Sessions + Apps + Bridges + Boots >= Sessions + 1
      /\ Sessions + Apps + Bridges + Boots >= Apps
      /\ Sessions + Apps + Bridges + Boots >= Bridges
      /\ Sessions + Apps + Bridges + Boots >= Boots
  BY Sizes
<1> QED BY <1>1, Sizes DEF Places

\* The names the folder holds.
LEMMA FolderIs == Folder = Files
<1>1. Range(GenerationFiles) = {"mpc", "exit", "bridge", "bexit", "unarmed", "ready", "failed",
                                "pipe", "state"}
  BY DEF GenerationFiles, Range
<1>2. Range(SessionFiles) = {"id", "boot", "revoked", "owner", "snapshot"}
  BY DEF SessionFiles, Range
<1> QED BY <1>1, <1>2 DEF Folder, Files

\* TypeInv, one variable at a time.
LEMMA Types ==
    TypeInv <=>
        /\ dir \in [Folder -> Places] /\ tmp \in Memory /\ own \in [1 .. Sessions -> Owners]
        /\ op \in Ops /\ call \in Callees /\ app \in [1 .. Apps -> AppStates]
        /\ bridge \in [1 .. Bridges -> BridgeStates] /\ adapter \in Adapters
        /\ history \in [entries : Seq(0 .. Apps), new : BOOLEAN] /\ pruned \subseteq 0 .. Apps
        /\ Len(history.entries) <= HistoryEntries
        /\ call.pc \in {"copy", "rename"} => Len(history.entries) < HistoryEntries
        /\ boot \in 1 .. Boots /\ lock \in 0 .. Operator /\ sessions \in 0 .. Sessions
        /\ acvs \in BOOLEAN /\ interrupts \in 0 .. Interrupts
        /\ dir.mpc \in 0 .. Apps /\ dir.bridge \in 0 .. Bridges /\ dir.id \in 0 .. sessions + 1
        /\ \A k \in 1 .. Sessions : k > sessions => own[k] = Unborn
<1>1. history \in [entries : Seq(0 .. Apps), new : BOOLEAN] =>
          history.entries \in Seq(0 .. Apps) /\ history.new \in BOOLEAN
  OBVIOUS
<1>2. call \in Callees => call.pc \in CallPcs /\ call.todo \in Seq(Folder \cup {"state", "snapshot"})
                          /\ {call.whole, call.ok} \subseteq BOOLEAN
  BY DEF Callees
<1> QED BY <1>1, <1>2 DEF TypeInv, TypeOK, Places, Memory, Owners, Ops, Callees, AppStates,
                          BridgeStates, Adapters

\* The same of the state after a step.
LEMMA TypesNext ==
    ASSUME /\ dir' \in [Folder -> Places] /\ tmp' \in Memory /\ own' \in [1 .. Sessions -> Owners]
           /\ op' \in Ops /\ call' \in Callees /\ app' \in [1 .. Apps -> AppStates]
           /\ bridge' \in [1 .. Bridges -> BridgeStates] /\ adapter' \in Adapters
           /\ history' \in [entries : Seq(0 .. Apps), new : BOOLEAN] /\ pruned' \subseteq 0 .. Apps
           /\ Len(history'.entries) <= HistoryEntries
           /\ call'.pc \in {"copy", "rename"} => Len(history'.entries) < HistoryEntries
           /\ boot' \in 1 .. Boots /\ lock' \in 0 .. Operator /\ sessions' \in 0 .. Sessions
           /\ acvs' \in BOOLEAN /\ interrupts' \in 0 .. Interrupts
           /\ dir'.mpc \in 0 .. Apps /\ dir'.bridge \in 0 .. Bridges /\ dir'.id \in 0 .. sessions' + 1
           /\ \A k \in 1 .. Sessions : k > sessions' => own'[k] = Unborn
    PROVE  TypeInv'
<1>1. history' \in [entries : Seq(0 .. Apps), new : BOOLEAN] =>
          history'.entries \in Seq(0 .. Apps) /\ history'.new \in BOOLEAN
  OBVIOUS
<1>2. call' \in Callees => call'.pc \in CallPcs /\ call'.todo \in Seq(Folder \cup {"state", "snapshot"})
                          /\ {call'.whole, call'.ok} \subseteq BOOLEAN
  BY DEF Callees
<1> QED BY <1>1, <1>2 DEF TypeInv, TypeOK, Places, Memory, Owners, Ops, Callees, AppStates,
                          BridgeStates, Adapters

\* The records the actions start from.
LEMMA Records == /\ Unborn \in Owners /\ Ended \in Owners /\ Ended.pc = "end" /\ Unborn.pc = "unborn"
                 /\ NoState \in Memory /\ NoState.cmd = 0 /\ Idle \in Ops /\ Idle.pc = "idle"
                 /\ NoCall \in Callees /\ NoCall.pc = "none" /\ Gone \in BridgeStates
                 /\ NoAdapter \in Adapters /\ NoAdapter.st = "none"
<1>1. Apps \in Nat /\ 0 \in 0 .. Apps
  BY Sizes
<1>2. Unborn \in Owners /\ Unborn.pc = "unborn"
  BY <1>1 DEF Unborn, Owners, OwnPcs
<1>3. Ended \in Owners /\ Ended.pc = "end"
  <2>1. "end" \in OwnPcs
    BY DEF OwnPcs
  <2>2. ASSUME NEW u \in Owners
        PROVE  [u EXCEPT !.pc = "end"] \in Owners /\ [u EXCEPT !.pc = "end"].pc = "end"
    BY <2>1 DEF Owners
  <2> QED BY <1>2, <2>2 DEF Ended
<1>4. NoState \in Memory /\ NoState.cmd = 0
  BY <1>1 DEF NoState, Memory
<1>5. Idle \in Ops /\ Idle.pc = "idle"
  <2>1. "none" \in Commands \cup {"none"} /\ "idle" \in OpPcs
    BY DEF OpPcs
  <2> QED BY <2>1 DEF Idle, Ops
<1>6. NoCall \in Callees /\ NoCall.pc = "none"
  <2>1. <<>> \in Seq(Folder \cup {"state", "snapshot"})
    OBVIOUS
  <2> QED BY <2>1 DEF NoCall, Callees, CallPcs
<1>7. Gone \in BridgeStates /\ NoAdapter \in Adapters /\ NoAdapter.st = "none"
  BY <1>1 DEF Gone, BridgeStates, NoAdapter, Adapters
<1> QED BY <1>2, <1>3, <1>4, <1>5, <1>6, <1>7


-----------------------------------------------------------------------------
(* The lock.                                                                *)

\* What LockInv speaks of, and its types.
Scripted == <<lock, op, own, call>>
LEMMA ScriptTypes ==
    TypeInv => /\ own \in [1 .. Sessions -> Owners] /\ op \in Ops /\ call \in Callees
               /\ lock \in 0 .. Operator /\ sessions \in 0 .. Sessions
               /\ Sessions \in Nat /\ Operator = Sessions + 1
BY Types, Sizes DEF Operator

\* An owner's step.
LEMMA OwnerLocks ==
    ASSUME TypeInv, LockInv, NEW k \in 1 .. Sessions, OwnerStep(k)
    PROVE  LockInv'
<1>0. /\ own \in [1 .. Sessions -> Owners] /\ op \in Ops /\ call \in Callees
      /\ lock \in 0 .. Operator /\ Sessions \in Nat /\ Operator = Sessions + 1
      /\ NoCall \in Callees /\ NoCall.pc = "none" /\ NoCall.whole = FALSE /\ Ended.pc = "end"
  BY ScriptTypes, Records DEF NoCall
<1>1. CASE OwnerAdmit(k)
  BY <1>0, <1>1 DEF OwnerAdmit, OwnerFrame, Goto, Lock, Unlock, Dismiss, Quit, Calls, Archives, Returned,
     Owners, LockInv, OwnerAt, Held, Visiting, Closing, Calling, OpCalling, StopCall, StartCall,
       RouteCall, ArchiveCall
<1>2. CASE Launch(k)
  BY <1>0, <1>2 DEF Launch, OwnerFrame, Goto, Lock, Unlock, Dismiss, Quit, Calls, Archives, Returned,
     Owners, LockInv, OwnerAt, Held, Visiting, Closing, Calling, OpCalling, StopCall, StartCall,
       RouteCall, ArchiveCall
<1>3. CASE Spawn(k)
  BY <1>0, <1>3 DEF Spawn, OwnerFrame, Goto, Lock, Unlock, Dismiss, Quit, Calls, Archives, Returned,
     Owners, LockInv, OwnerAt, Held, Visiting, Closing, Calling, OpCalling, StopCall, StartCall,
       RouteCall, ArchiveCall
<1>4. CASE ExecWait(k)
  BY <1>0, <1>4 DEF ExecWait, OwnerFrame, Goto, Lock, Unlock, Dismiss, Quit, Calls, Archives, Returned,
     Owners, LockInv, OwnerAt, Held, Visiting, Closing, Calling, OpCalling, StopCall, StartCall,
       RouteCall, ArchiveCall
<1>5. CASE LastReceipt(k)
  BY <1>0, <1>5 DEF LastReceipt, OwnerFrame, Goto, Lock, Unlock, Dismiss, Quit, Calls, Archives, Returned,
     Owners, LockInv, OwnerAt, Held, Visiting, Closing, Calling, OpCalling, StopCall, StartCall,
       RouteCall, ArchiveCall
<1>6. CASE Poll(k)
  BY <1>0, <1>6 DEF Poll, OwnerFrame, Goto, Lock, Unlock, Dismiss, Quit, Calls, Archives, Returned,
     Owners, LockInv, OwnerAt, Held, Visiting, Closing, Calling, OpCalling, StopCall, StartCall,
       RouteCall, ArchiveCall
<1>7. CASE Tick(k)
  <2>0. own[k].pc = "tick" /\ UNCHANGED <<op, call>>
    BY <1>7 DEF Tick, OwnerFrame, Goto, Unlock
  <2>1. \/ own' = [own EXCEPT ![k].pc = "poll"] /\ lock' = 0
        \/ own' = [own EXCEPT ![k].pc = "poll", ![k].seen = TRUE] /\ lock' = 0
        \/ own' = [own EXCEPT ![k].pc = "status"] /\ lock' = lock
    BY <1>7 DEF Tick, Goto, Unlock
  <2>2. CASE own' = [own EXCEPT ![k].pc = "poll"] /\ lock' = 0
    BY <1>0, <2>0, <2>2 DEF Owners, LockInv, OwnerAt, Held, Visiting, Closing, Calling, OpCalling, StopCall, StartCall,
       RouteCall, ArchiveCall
  <2>3. CASE own' = [own EXCEPT ![k].pc = "poll", ![k].seen = TRUE] /\ lock' = 0
    BY <1>0, <2>0, <2>3 DEF Owners, LockInv, OwnerAt, Held, Visiting, Closing, Calling, OpCalling, StopCall, StartCall,
       RouteCall, ArchiveCall
  <2>4. CASE own' = [own EXCEPT ![k].pc = "status"] /\ lock' = lock
    BY <1>0, <2>0, <2>4 DEF Owners, LockInv, OwnerAt, Held, Visiting, Closing, Calling, OpCalling, StopCall, StartCall,
       RouteCall, ArchiveCall
  <2> QED BY <2>1, <2>2, <2>3, <2>4
<1>8. CASE Visit(k)
  BY <1>0, <1>8 DEF Visit, OwnerFrame, Goto, Lock, Unlock, Dismiss, Quit, Calls, Archives, Returned,
     Owners, LockInv, OwnerAt, Held, Visiting, Closing, Calling, OpCalling, StopCall, StartCall,
       RouteCall, ArchiveCall
<1>9. CASE Setup(k)
  <2>0. own[k].pc = "setup" /\ UNCHANGED <<op, lock>>
    BY <1>9 DEF Setup, OwnerFrame, Goto, Calls
  <2>1. \/ own' = [own EXCEPT ![k].pc = "wired"] /\ call = NoCall /\ call' = [NoCall EXCEPT !.pc = "start"]
        \/ own' = [own EXCEPT ![k].pc = "leave", ![k].setup = 2] /\ call' = call
    BY <1>9 DEF Setup, Goto, Calls
  <2>2. CASE own' = [own EXCEPT ![k].pc = "wired"] /\ call = NoCall /\ call' = [NoCall EXCEPT !.pc = "start"]
    BY <1>0, <2>0, <2>2 DEF Owners, LockInv, OwnerAt, Held, Visiting, Closing, Calling, OpCalling, StopCall, StartCall,
       RouteCall, ArchiveCall
  <2>3. CASE own' = [own EXCEPT ![k].pc = "leave", ![k].setup = 2] /\ call' = call
    BY <1>0, <2>0, <2>3 DEF Owners, LockInv, OwnerAt, Held, Visiting, Closing, Calling, OpCalling, StopCall, StartCall,
       RouteCall, ArchiveCall
  <2> QED BY <2>1, <2>2, <2>3
<1>10. CASE Wired(k)
  BY <1>0, <1>10 DEF Wired, OwnerFrame, Goto, Lock, Unlock, Dismiss, Quit, Calls, Archives, Returned,
     Owners, LockInv, OwnerAt, Held, Visiting, Closing, Calling, OpCalling, StopCall, StartCall,
       RouteCall, ArchiveCall
<1>11. CASE Apply(k)
  BY <1>0, <1>11 DEF Apply, OwnerFrame, Goto, Lock, Unlock, Dismiss, Quit, Calls, Archives, Returned,
     Owners, LockInv, OwnerAt, Held, Visiting, Closing, Calling, OpCalling, StopCall, StartCall,
       RouteCall, ArchiveCall
<1>12. CASE Reapply(k)
  <2>0. own[k].pc = "drained" /\ UNCHANGED <<op, lock>>
    BY <1>12 DEF Reapply, OwnerFrame, Goto, Returned
  <2>1. \/ own' = [own EXCEPT ![k].pc = "rewired"] /\ call' = [NoCall EXCEPT !.pc = "start"]
        \/ own' = [own EXCEPT ![k].pc = "leave", ![k].setup = 2] /\ call' = NoCall
    BY <1>12 DEF Reapply, Goto, Returned
  <2>2. CASE own' = [own EXCEPT ![k].pc = "rewired"] /\ call' = [NoCall EXCEPT !.pc = "start"]
    BY <1>0, <2>0, <2>2 DEF Owners, LockInv, OwnerAt, Held, Visiting, Closing, Calling, OpCalling, StopCall, StartCall,
       RouteCall, ArchiveCall
  <2>3. CASE own' = [own EXCEPT ![k].pc = "leave", ![k].setup = 2] /\ call' = NoCall
    BY <1>0, <2>0, <2>3 DEF Owners, LockInv, OwnerAt, Held, Visiting, Closing, Calling, OpCalling, StopCall, StartCall,
       RouteCall, ArchiveCall
  <2> QED BY <2>1, <2>2, <2>3
<1>13. CASE Reapplied(k)
  BY <1>0, <1>13 DEF Reapplied, OwnerFrame, Goto, Lock, Unlock, Dismiss, Quit, Calls, Archives, Returned,
     Owners, LockInv, OwnerAt, Held, Visiting, Closing, Calling, OpCalling, StopCall, StartCall,
       RouteCall, ArchiveCall
<1>14. CASE Offer(k)
  BY <1>0, <1>14 DEF Offer, OwnerFrame, Goto, Lock, Unlock, Dismiss, Quit, Calls, Archives, Returned,
     Owners, LockInv, OwnerAt, Held, Visiting, Closing, Calling, OpCalling, StopCall, StartCall,
       RouteCall, ArchiveCall
<1>15. CASE Offered(k)
  BY <1>0, <1>15 DEF Offered, OwnerFrame, Goto, Lock, Unlock, Dismiss, Quit, Calls, Archives, Returned,
     Owners, LockInv, OwnerAt, Held, Visiting, Closing, Calling, OpCalling, StopCall, StartCall,
       RouteCall, ArchiveCall
<1>16. CASE LeaveVisit(k)
  BY <1>0, <1>16 DEF LeaveVisit, OwnerFrame, Goto, Lock, Unlock, Dismiss, Quit, Calls, Archives, Returned,
     Owners, LockInv, OwnerAt, Held, Visiting, Closing, Calling, OpCalling, StopCall, StartCall,
       RouteCall, ArchiveCall
<1>17. CASE Reap(k)
  BY <1>0, <1>17 DEF Reap, OwnerFrame, Goto, Lock, Unlock, Dismiss, Quit, Calls, Archives, Returned,
     Owners, LockInv, OwnerAt, Held, Visiting, Closing, Calling, OpCalling, StopCall, StartCall,
       RouteCall, ArchiveCall
<1>18. CASE Departed(k)
  BY <1>0, <1>18 DEF Departed, OwnerFrame, Goto, Lock, Unlock, Dismiss, Quit, Calls, Archives, Returned,
     Owners, LockInv, OwnerAt, Held, Visiting, Closing, Calling, OpCalling, StopCall, StartCall,
       RouteCall, ArchiveCall
<1>19. CASE Clear(k)
  <2>0. own[k].pc = "departed" /\ op' = op
    BY <1>19 DEF Clear, OwnerFrame, Goto, Dismiss, Quit, Unlock, Calls
  <2>1. \/ own' = [own EXCEPT ![k] = Ended] /\ lock' = 0 /\ call' = call
        \/ own' = [own EXCEPT ![k].pc = "cleared"] /\ lock' = lock /\ call = NoCall /\ call' = [NoCall EXCEPT !.pc = "stop"]
    BY <1>19 DEF Clear, Goto, Dismiss, Quit, Unlock, Calls
  <2>2. CASE own' = [own EXCEPT ![k] = Ended] /\ lock' = 0 /\ call' = call
    BY <1>0, <2>0, <2>2 DEF Owners, LockInv, OwnerAt, Held, Visiting, Closing, Calling, OpCalling, StopCall, StartCall,
       RouteCall, ArchiveCall
  <2>3. CASE own' = [own EXCEPT ![k].pc = "cleared"] /\ lock' = lock /\ call = NoCall /\ call' = [NoCall EXCEPT !.pc = "stop"]
    BY <1>0, <2>0, <2>3 DEF Owners, LockInv, OwnerAt, Held, Visiting, Closing, Calling, OpCalling, StopCall, StartCall,
       RouteCall, ArchiveCall
  <2> QED BY <2>1, <2>2, <2>3
<1>20. CASE Consider(k)
  BY <1>0, <1>20 DEF Consider, OwnerFrame, Goto, Lock, Unlock, Dismiss, Quit, Calls, Archives, Returned,
     Owners, LockInv, OwnerAt, Held, Visiting, Closing, Calling, OpCalling, StopCall, StartCall,
       RouteCall, ArchiveCall
<1>21. CASE Consume(k)
  <2>0. own[k].pc = "consume" /\ op' = op
    BY <1>21 DEF Consume, OwnerFrame, Goto, Dismiss, Quit, Unlock, Archives
  <2>1. \/ own' = [own EXCEPT ![k] = Ended] /\ lock' = 0 /\ call' = call
        \/ own' = [own EXCEPT ![k].pc = "archived"] /\ lock' = lock /\ call = NoCall
           /\ call' = [NoCall EXCEPT !.pc = "stage", !.whole = FALSE]
    BY <1>21 DEF Consume, Goto, Dismiss, Quit, Unlock, Archives
  <2>2. CASE own' = [own EXCEPT ![k] = Ended] /\ lock' = 0 /\ call' = call
    BY <1>0, <2>0, <2>2 DEF Owners, LockInv, OwnerAt, Held, Visiting, Closing, Calling, OpCalling, StopCall, StartCall,
       RouteCall, ArchiveCall
  <2>3. CASE own' = [own EXCEPT ![k].pc = "archived"] /\ lock' = lock /\ call = NoCall
           /\ call' = [NoCall EXCEPT !.pc = "stage", !.whole = FALSE]
    BY <1>0, <2>0, <2>3 DEF Owners, LockInv, OwnerAt, Held, Visiting, Closing, Calling, OpCalling, StopCall, StartCall,
       RouteCall, ArchiveCall
  <2> QED BY <2>1, <2>2, <2>3
<1>22. CASE Archived(k)
  <2>0. own[k].pc = "archived" /\ op' = op /\ call' = NoCall
    BY <1>22 DEF Archived, OwnerFrame, Returned
  <2>1. \/ own' = [own EXCEPT ![k] = Ended] /\ lock' = 0
        \/ own' = [own EXCEPT ![k].pc = "launch"] /\ lock' = lock
    BY <1>22 DEF Archived, Goto, Dismiss, Quit, Unlock
  <2>2. CASE own' = [own EXCEPT ![k] = Ended] /\ lock' = 0
    BY <1>0, <2>0, <2>2 DEF Owners, LockInv, OwnerAt, Held, Visiting, Closing, Calling, OpCalling, StopCall, StartCall,
       RouteCall, ArchiveCall
  <2>3. CASE own' = [own EXCEPT ![k].pc = "launch"] /\ lock' = lock
    BY <1>0, <2>0, <2>3 DEF Owners, LockInv, OwnerAt, Held, Visiting, Closing, Calling, OpCalling, StopCall, StartCall,
       RouteCall, ArchiveCall
  <2> QED BY <2>1, <2>2, <2>3
<1> QED BY <1>1, <1>2, <1>3, <1>4, <1>5, <1>6, <1>7, <1>8, <1>9, <1>10, <1>11, <1>12, <1>13, <1>14, <1>15, <1>16, <1>17, <1>18, <1>19, <1>20, <1>21, <1>22 DEF OwnerStep

\* A step of the function that the lock's holder is in.
LEMMA CallLocks ==
    ASSUME TypeInv, LockInv, CallStep
    PROVE  LockInv'
<1>0. /\ own \in [1 .. Sessions -> Owners] /\ op \in Ops /\ call \in Callees
      /\ lock \in 0 .. Operator /\ Sessions \in Nat /\ Operator = Sessions + 1
      /\ NoCall \in Callees /\ NoCall.pc = "none" /\ NoCall.whole = FALSE
  BY ScriptTypes, Records DEF NoCall
<1>1. UNCHANGED <<own, op, lock>>
  BY DEF CallStep, BridgeStop, BridgeGone, BridgeSettled, BridgeStart, BridgeStarted, Route, Arm,
     Stage, Copy, Rename, Remove, CallFrame
<1>2. ASSUME NEW ok, call' = [NoCall EXCEPT !.pc = "done", !.ok = ok], call.pc \notin {"none", "done"}
      PROVE  LockInv'
  <2>1. call'.pc = "done" /\ call'.whole = FALSE
    BY <1>0, <1>2 DEF Callees
  <2>2. call.pc \in StopCall \cup StartCall \cup RouteCall \cup ArchiveCall
    BY <1>0, <1>2 DEF Callees, CallPcs, StopCall, StartCall, RouteCall, ArchiveCall
  <2>3. op.pc \in OpCalling \/ OwnerAt(Calling)
    BY <2>2 DEF LockInv, OwnerAt, OpCalling, Calling
  <2> QED BY <1>1, <2>1, <2>3 DEF LockInv, OwnerAt, StopCall, StartCall, RouteCall, ArchiveCall
<1>3. ASSUME NEW p, call'.pc = p, call'.whole = call.whole,
             \E kind \in {StopCall, StartCall, RouteCall, ArchiveCall} : p \in kind /\ call.pc \in kind
      PROVE  LockInv'
  BY <1>1, <1>3 DEF LockInv, OwnerAt, StopCall, StartCall, RouteCall, ArchiveCall
<1>4. CASE BridgeStop \/ BridgeGone \/ BridgeSettled
  <2>1. call.pc \in StopCall
        /\ ((\E ok : Return(ok)) \/ (call' = [call EXCEPT !.pc = "gone"]) \/ (call' = [call EXCEPT !.pc = "receipt"]))
    BY <1>4 DEF BridgeStop, BridgeGone, BridgeSettled, Step, StopCall
  <2>2. CASE \E ok : Return(ok)
    BY <1>2, <2>1, <2>2 DEF Return, StopCall
  <2>3. CASE call' = [call EXCEPT !.pc = "gone"] \/ call' = [call EXCEPT !.pc = "receipt"]
    <3>1. call'.pc \in StopCall /\ call'.whole = call.whole
      BY <1>0, <2>3 DEF Callees, StopCall
    <3> QED BY <1>3, <2>1, <3>1
  <2> QED BY <2>1, <2>2, <2>3
<1>5. CASE BridgeStart \/ BridgeStarted
  <2>1. call.pc \in StartCall /\ ((\E ok : Return(ok)) \/ (call' = [call EXCEPT !.pc = "starting"]))
    BY <1>5 DEF BridgeStart, BridgeStarted, Step, StartCall
  <2>2. CASE \E ok : Return(ok)
    BY <1>2, <2>1, <2>2 DEF Return, StartCall
  <2>3. CASE call' = [call EXCEPT !.pc = "starting"]
    <3>1. call'.pc \in StartCall /\ call'.whole = call.whole
      BY <1>0, <2>3 DEF Callees, StartCall
    <3> QED BY <1>3, <2>1, <3>1
  <2> QED BY <2>1, <2>2, <2>3
<1>6. CASE Route \/ Arm
  <2>1. call.pc \in RouteCall /\ ((\E ok : Return(ok)) \/ (call' = [call EXCEPT !.pc = "usr1"]))
    BY <1>6 DEF Route, Arm, Step, RouteCall
  <2>2. CASE \E ok : Return(ok)
    BY <1>2, <2>1, <2>2 DEF Return, RouteCall
  <2>3. CASE call' = [call EXCEPT !.pc = "usr1"]
    <3>1. call'.pc \in RouteCall /\ call'.whole = call.whole
      BY <1>0, <2>3 DEF Callees, RouteCall
    <3> QED BY <1>3, <2>1, <3>1
  <2> QED BY <2>1, <2>2, <2>3
<1>7. CASE Stage \/ Copy \/ Rename \/ Remove
  <2>1. call.pc \in ArchiveCall
        /\ ((\E ok : Return(ok)) \/ (\E p \in ArchiveCall : call' = [call EXCEPT !.pc = p])
            \/ (\E todo : call' = [call EXCEPT !.pc = "remove", !.todo = todo])
            \/ (call.pc = "remove" /\ \E todo : call' = [call EXCEPT !.todo = todo]))
    BY <1>7 DEF Stage, Copy, Rename, Remove, Step, Retire, Uncommitted, ArchiveCall
  <2>2. CASE \E ok : Return(ok)
    BY <1>2, <2>1, <2>2 DEF Return, ArchiveCall
  <2>3. CASE ~\E ok : Return(ok)
    <3>1. call'.pc \in ArchiveCall /\ call'.whole = call.whole
      BY <1>0, <2>1, <2>3 DEF Callees, ArchiveCall
    <3> QED BY <1>3, <2>1, <3>1
  <2> QED BY <2>2, <2>3
<1> QED BY <1>4, <1>5, <1>6, <1>7 DEF CallStep

\* A step of the operator's script.
LEMMA OperatorLocks ==
    ASSUME TypeInv, LockInv, OperatorStep
    PROVE  LockInv'
<1>0. /\ own \in [1 .. Sessions -> Owners] /\ op \in Ops /\ call \in Callees
      /\ lock \in 0 .. Operator /\ Sessions \in Nat /\ Operator = Sessions + 1
      /\ NoCall \in Callees /\ NoCall.pc = "none" /\ NoCall.whole = FALSE
      /\ Idle \in Ops /\ Idle.pc = "idle"
  BY ScriptTypes, Records DEF NoCall
<1>o. op.pc # "idle"
  BY DEF OperatorStep, StartEntry, StartPrior, StartStock, StartOld, StartRecord, StartOwner,
     StartLocator, StopRevoke, StopAdapterFirst, StopOwned, StopClose, StopClosing, StopKill, StopTerm,
     StopAwait, StopReceipt, StopRecover, StopReport, ExplicitEntry, ExplicitStopped, ExplicitStarted,
     ExplicitRouted, Stop, Explicit
<1>p. op.pc # "idle" /\ lock = Operator /\ op.cmd # "none" /\ ~OwnerAt(Held)
      /\ \A k \in 1 .. Sessions : own[k].pc \notin Held
  BY <1>0, <1>o DEF LockInv, OwnerAt
<1>1. CASE StartEntry
  <2>0. op.pc = "entry" /\ own' = own
    BY <1>1 DEF StartEntry, OpFrame, StopFrame, ExplicitFrame, Stop, Explicit
  <2>1. \/ op' = Idle /\ lock' = 0 /\ call' = call
        \/ op' = [op EXCEPT !.pc = "stock"] /\ lock' = lock /\ call' = call
        \/ op' = [op EXCEPT !.pc = "prior"] /\ lock' = lock
           /\ call = NoCall /\ call' = [NoCall EXCEPT !.pc = "stage", !.whole = TRUE]
    BY <1>0, <1>1 DEF StartEntry, GotoOp, Finish, Unlock, Calls, Archives, Returned, Stop, Explicit, Ops
  <2>2. CASE op' = Idle /\ lock' = 0 /\ call' = call
    BY <1>0, <1>p, <2>0, <2>2 DEF Ops, Callees, Owners, LockInv, OwnerAt, Held, Visiting, Closing, Calling, OpCalling, StopCall, StartCall,
     RouteCall, ArchiveCall
  <2>3. CASE op' = [op EXCEPT !.pc = "stock"] /\ lock' = lock /\ call' = call
    BY <1>0, <1>p, <2>0, <2>3 DEF Ops, Callees, Owners, LockInv, OwnerAt, Held, Visiting, Closing, Calling, OpCalling, StopCall, StartCall,
     RouteCall, ArchiveCall
  <2>4. CASE op' = [op EXCEPT !.pc = "prior"] /\ lock' = lock
           /\ call = NoCall /\ call' = [NoCall EXCEPT !.pc = "stage", !.whole = TRUE]
    BY <1>0, <1>p, <2>0, <2>4 DEF Ops, Callees, Owners, LockInv, OwnerAt, Held, Visiting, Closing, Calling, OpCalling, StopCall, StartCall,
     RouteCall, ArchiveCall
  <2> QED BY <2>1, <2>2, <2>3, <2>4
<1>2. CASE StartPrior
  BY <1>0, <1>2 DEF StartPrior, OpFrame, StopFrame, ExplicitFrame, Explicit, Stop, GotoOp, Finish, Unlock, Calls, Archives, Returned,
     Ops, Callees, Owners, LockInv, OwnerAt, Held, Visiting, Closing, Calling, OpCalling, StopCall, StartCall,
     RouteCall, ArchiveCall
<1>3. CASE StartStock
  <2>0. op.pc = "stock" /\ own' = own
    BY <1>3 DEF StartStock, OpFrame, StopFrame, ExplicitFrame, Stop, Explicit
  <2>1. \/ op' = Idle /\ lock' = 0 /\ call' = call
        \/ op' = [op EXCEPT !.pc = "old"] /\ lock' = lock
           /\ call = NoCall /\ call' = [NoCall EXCEPT !.pc = "stage", !.whole = TRUE]
        \/ op' = [op EXCEPT !.pc = "snapshot"] /\ lock' = lock /\ call' = call
    BY <1>0, <1>3 DEF StartStock, GotoOp, Finish, Unlock, Calls, Archives, Returned, Stop, Explicit, Ops
  <2>2. CASE op' = Idle /\ lock' = 0 /\ call' = call
    BY <1>0, <1>p, <2>0, <2>2 DEF Ops, Callees, Owners, LockInv, OwnerAt, Held, Visiting, Closing, Calling, OpCalling, StopCall, StartCall,
     RouteCall, ArchiveCall
  <2>3. CASE op' = [op EXCEPT !.pc = "old"] /\ lock' = lock
           /\ call = NoCall /\ call' = [NoCall EXCEPT !.pc = "stage", !.whole = TRUE]
    BY <1>0, <1>p, <2>0, <2>3 DEF Ops, Callees, Owners, LockInv, OwnerAt, Held, Visiting, Closing, Calling, OpCalling, StopCall, StartCall,
     RouteCall, ArchiveCall
  <2>4. CASE op' = [op EXCEPT !.pc = "snapshot"] /\ lock' = lock /\ call' = call
    BY <1>0, <1>p, <2>0, <2>4 DEF Ops, Callees, Owners, LockInv, OwnerAt, Held, Visiting, Closing, Calling, OpCalling, StopCall, StartCall,
     RouteCall, ArchiveCall
  <2> QED BY <2>1, <2>2, <2>3, <2>4
<1>4. CASE StartOld
  BY <1>0, <1>4 DEF StartOld, OpFrame, StopFrame, ExplicitFrame, Explicit, Stop, GotoOp, Finish, Unlock, Calls, Archives, Returned,
     Ops, Callees, Owners, LockInv, OwnerAt, Held, Visiting, Closing, Calling, OpCalling, StopCall, StartCall,
     RouteCall, ArchiveCall
<1>5. CASE StartRecord
  BY <1>0, <1>5 DEF StartRecord, OpFrame, StopFrame, ExplicitFrame, Explicit, Stop, GotoOp, Finish, Unlock, Calls, Archives, Returned,
     Ops, Callees, Owners, LockInv, OwnerAt, Held, Visiting, Closing, Calling, OpCalling, StopCall, StartCall,
     RouteCall, ArchiveCall
<1>6. CASE StartOwner
  BY <1>0, <1>6 DEF StartOwner, OpFrame, StopFrame, ExplicitFrame, Explicit, Stop, GotoOp, Finish, Unlock, Calls, Archives, Returned,
     Ops, Callees, Owners, LockInv, OwnerAt, Held, Visiting, Closing, Calling, OpCalling, StopCall, StartCall,
     RouteCall, ArchiveCall
<1>7. CASE StartLocator
  BY <1>0, <1>7 DEF StartLocator, OpFrame, StopFrame, ExplicitFrame, Explicit, Stop, GotoOp, Finish, Unlock, Calls, Archives, Returned,
     Ops, Callees, Owners, LockInv, OwnerAt, Held, Visiting, Closing, Calling, OpCalling, StopCall, StartCall,
     RouteCall, ArchiveCall
<1>8. CASE StopRevoke
  BY <1>0, <1>8 DEF StopRevoke, OpFrame, StopFrame, ExplicitFrame, Explicit, Stop, GotoOp, Finish, Unlock, Calls, Archives, Returned,
     Ops, Callees, Owners, LockInv, OwnerAt, Held, Visiting, Closing, Calling, OpCalling, StopCall, StartCall,
     RouteCall, ArchiveCall
<1>9. CASE StopAdapterFirst
  <2>0. op.pc = "adapter" /\ own' = own
    BY <1>9 DEF StopAdapterFirst, OpFrame, StopFrame, ExplicitFrame, Stop, Explicit
  <2>1. \/ op' = Idle /\ lock' = 0 /\ call' = call
        \/ op' = [op EXCEPT !.pc = "drained"] /\ lock' = lock
           /\ call = NoCall /\ call' = [NoCall EXCEPT !.pc = "stop"]
    BY <1>0, <1>9 DEF StopAdapterFirst, GotoOp, Finish, Unlock, Calls, Archives, Returned, Stop, Explicit, Ops
  <2>2. CASE op' = Idle /\ lock' = 0 /\ call' = call
    BY <1>0, <1>p, <2>0, <2>2 DEF Ops, Callees, Owners, LockInv, OwnerAt, Held, Visiting, Closing, Calling, OpCalling, StopCall, StartCall,
     RouteCall, ArchiveCall
  <2>3. CASE op' = [op EXCEPT !.pc = "drained"] /\ lock' = lock
           /\ call = NoCall /\ call' = [NoCall EXCEPT !.pc = "stop"]
    BY <1>0, <1>p, <2>0, <2>3 DEF Ops, Callees, Owners, LockInv, OwnerAt, Held, Visiting, Closing, Calling, OpCalling, StopCall, StartCall,
     RouteCall, ArchiveCall
  <2> QED BY <2>1, <2>2, <2>3
<1>10. CASE StopOwned
  <2>0. op.pc = "drained" /\ own' = own
    BY <1>10 DEF StopOwned, OpFrame, StopFrame, ExplicitFrame, Stop, Explicit
  <2>1. \/ op' = Idle /\ lock' = 0 /\ call' = NoCall
        \/ op'.pc \in {"close", "kill"} /\ op'.cmd = op.cmd /\ lock' = lock /\ call' = NoCall
    BY <1>0, <1>10 DEF StopOwned, GotoOp, Finish, Unlock, Calls, Archives, Returned, Stop, Explicit, Ops
  <2>2. CASE op' = Idle /\ lock' = 0 /\ call' = NoCall
    BY <1>0, <1>p, <2>0, <2>2 DEF Ops, Callees, Owners, LockInv, OwnerAt, Held, Visiting, Closing, Calling, OpCalling, StopCall, StartCall,
     RouteCall, ArchiveCall
  <2>3. CASE op'.pc \in {"close", "kill"} /\ op'.cmd = op.cmd /\ lock' = lock /\ call' = NoCall
    BY <1>0, <1>p, <2>0, <2>3 DEF Ops, Callees, Owners, LockInv, OwnerAt, Held, Visiting, Closing, Calling, OpCalling, StopCall, StartCall,
     RouteCall, ArchiveCall
  <2> QED BY <2>1, <2>2, <2>3
<1>11. CASE StopClose
  BY <1>0, <1>11 DEF StopClose, OpFrame, StopFrame, ExplicitFrame, Explicit, Stop, GotoOp, Finish, Unlock, Calls, Archives, Returned,
     Ops, Callees, Owners, LockInv, OwnerAt, Held, Visiting, Closing, Calling, OpCalling, StopCall, StartCall,
     RouteCall, ArchiveCall
<1>12. CASE StopClosing
  BY <1>0, <1>12 DEF StopClosing, OpFrame, StopFrame, ExplicitFrame, Explicit, Stop, GotoOp, Finish, Unlock, Calls, Archives, Returned,
     Ops, Callees, Owners, LockInv, OwnerAt, Held, Visiting, Closing, Calling, OpCalling, StopCall, StartCall,
     RouteCall, ArchiveCall
<1>13. CASE StopKill
  BY <1>0, <1>13 DEF StopKill, OpFrame, StopFrame, ExplicitFrame, Explicit, Stop, GotoOp, Finish, Unlock, Calls, Archives, Returned,
     Ops, Callees, Owners, LockInv, OwnerAt, Held, Visiting, Closing, Calling, OpCalling, StopCall, StartCall,
     RouteCall, ArchiveCall
<1>14. CASE StopTerm
  <2>0. op.pc = "term" /\ own' = own
    BY <1>14 DEF StopTerm, OpFrame, StopFrame, ExplicitFrame, Stop, Explicit
  <2>1. \/ op' = Idle /\ lock' = 0 /\ call' = call
        \/ op' = [op EXCEPT !.pc = "await"] /\ lock' = lock /\ call' = call
    BY <1>0, <1>14 DEF StopTerm, GotoOp, Finish, Unlock, Calls, Archives, Returned, Stop, Explicit, Ops
  <2>2. CASE op' = Idle /\ lock' = 0 /\ call' = call
    BY <1>0, <1>p, <2>0, <2>2 DEF Ops, Callees, Owners, LockInv, OwnerAt, Held, Visiting, Closing, Calling, OpCalling, StopCall, StartCall,
     RouteCall, ArchiveCall
  <2>3. CASE op' = [op EXCEPT !.pc = "await"] /\ lock' = lock /\ call' = call
    BY <1>0, <1>p, <2>0, <2>3 DEF Ops, Callees, Owners, LockInv, OwnerAt, Held, Visiting, Closing, Calling, OpCalling, StopCall, StartCall,
     RouteCall, ArchiveCall
  <2> QED BY <2>1, <2>2, <2>3
<1>15. CASE StopAwait
  BY <1>0, <1>15 DEF StopAwait, OpFrame, StopFrame, ExplicitFrame, Explicit, Stop, GotoOp, Finish, Unlock, Calls, Archives, Returned,
     Ops, Callees, Owners, LockInv, OwnerAt, Held, Visiting, Closing, Calling, OpCalling, StopCall, StartCall,
     RouteCall, ArchiveCall
<1>16. CASE StopReceipt
  BY <1>0, <1>16 DEF StopReceipt, OpFrame, StopFrame, ExplicitFrame, Explicit, Stop, GotoOp, Finish, Unlock, Calls, Archives, Returned,
     Ops, Callees, Owners, LockInv, OwnerAt, Held, Visiting, Closing, Calling, OpCalling, StopCall, StartCall,
     RouteCall, ArchiveCall
<1>17. CASE StopRecover
  BY <1>0, <1>17 DEF StopRecover, OpFrame, StopFrame, ExplicitFrame, Explicit, Stop, GotoOp, Finish, Unlock, Calls, Archives, Returned,
     Ops, Callees, Owners, LockInv, OwnerAt, Held, Visiting, Closing, Calling, OpCalling, StopCall, StartCall,
     RouteCall, ArchiveCall
<1>18. CASE StopReport
  BY <1>0, <1>18 DEF StopReport, OpFrame, StopFrame, ExplicitFrame, Explicit, Stop, GotoOp, Finish, Unlock, Calls, Archives, Returned,
     Ops, Callees, Owners, LockInv, OwnerAt, Held, Visiting, Closing, Calling, OpCalling, StopCall, StartCall,
     RouteCall, ArchiveCall
<1>19. CASE ExplicitEntry
  BY <1>0, <1>19 DEF ExplicitEntry, OpFrame, StopFrame, ExplicitFrame, Explicit, Stop, GotoOp, Finish, Unlock, Calls, Archives, Returned,
     Ops, Callees, Owners, LockInv, OwnerAt, Held, Visiting, Closing, Calling, OpCalling, StopCall, StartCall,
     RouteCall, ArchiveCall
<1>20. CASE ExplicitStopped
  <2>0. op.pc = "stopped" /\ own' = own
    BY <1>20 DEF ExplicitStopped, OpFrame, StopFrame, ExplicitFrame, Stop, Explicit
  <2>1. \/ op' = Idle /\ lock' = 0 /\ call' = NoCall
        \/ op' = [op EXCEPT !.pc = "started"] /\ lock' = lock
           /\ call' = [NoCall EXCEPT !.pc = "start"]
    BY <1>0, <1>20 DEF ExplicitStopped, GotoOp, Finish, Unlock, Calls, Archives, Returned, Stop, Explicit, Ops
  <2>2. CASE op' = Idle /\ lock' = 0 /\ call' = NoCall
    BY <1>0, <1>p, <2>0, <2>2 DEF Ops, Callees, Owners, LockInv, OwnerAt, Held, Visiting, Closing, Calling, OpCalling, StopCall, StartCall,
     RouteCall, ArchiveCall
  <2>3. CASE op' = [op EXCEPT !.pc = "started"] /\ lock' = lock
           /\ call' = [NoCall EXCEPT !.pc = "start"]
    BY <1>0, <1>p, <2>0, <2>3 DEF Ops, Callees, Owners, LockInv, OwnerAt, Held, Visiting, Closing, Calling, OpCalling, StopCall, StartCall,
     RouteCall, ArchiveCall
  <2> QED BY <2>1, <2>2, <2>3
<1>21. CASE ExplicitStarted
  <2>0. op.pc = "started" /\ own' = own
    BY <1>21 DEF ExplicitStarted, OpFrame, StopFrame, ExplicitFrame, Stop, Explicit
  <2>1. \/ op' = Idle /\ lock' = 0 /\ call' = NoCall
        \/ op' = [op EXCEPT !.pc = "routed"] /\ lock' = lock
           /\ call' = [NoCall EXCEPT !.pc = "route"]
    BY <1>0, <1>21 DEF ExplicitStarted, GotoOp, Finish, Unlock, Calls, Archives, Returned, Stop, Explicit, Ops
  <2>2. CASE op' = Idle /\ lock' = 0 /\ call' = NoCall
    BY <1>0, <1>p, <2>0, <2>2 DEF Ops, Callees, Owners, LockInv, OwnerAt, Held, Visiting, Closing, Calling, OpCalling, StopCall, StartCall,
     RouteCall, ArchiveCall
  <2>3. CASE op' = [op EXCEPT !.pc = "routed"] /\ lock' = lock
           /\ call' = [NoCall EXCEPT !.pc = "route"]
    BY <1>0, <1>p, <2>0, <2>3 DEF Ops, Callees, Owners, LockInv, OwnerAt, Held, Visiting, Closing, Calling, OpCalling, StopCall, StartCall,
     RouteCall, ArchiveCall
  <2> QED BY <2>1, <2>2, <2>3
<1>22. CASE ExplicitRouted
  BY <1>0, <1>22 DEF ExplicitRouted, OpFrame, StopFrame, ExplicitFrame, Explicit, Stop, GotoOp, Finish, Unlock, Calls, Archives, Returned,
     Ops, Callees, Owners, LockInv, OwnerAt, Held, Visiting, Closing, Calling, OpCalling, StopCall, StartCall,
     RouteCall, ArchiveCall
<1> QED BY <1>1, <1>2, <1>3, <1>4, <1>5, <1>6, <1>7, <1>8, <1>9, <1>10, <1>11, <1>12, <1>13, <1>14, <1>15, <1>16, <1>17, <1>18, <1>19, <1>20, <1>21, <1>22 DEF OperatorStep

\* What the processes do behind the scripts' backs leaves the scripts alone.
LEMMA ProcessesKeep ==
    ASSUME Processes
    PROVE  /\ UNCHANGED <<history, boot, lock, sessions, op, call, acvs, interrupts, pruned>>
           /\ \/ own' = own
              \/ /\ UNCHANGED <<dir, tmp, app, bridge, adapter>>
                 /\ \E k \in 1 .. Sessions : own' = [own EXCEPT ![k].pending = TRUE]
<1>1. CASE \E n \in 1 .. Apps : AppExec(n) \/ AppProgress(n) \/ AppIntent(n) \/ AppClose(n) \/ AppExit(n)
  BY <1>1 DEF AppExec, AppProgress, AppIntent, AppClose, AppExit, ScriptFrame
<1>2. CASE \E b \in 1 .. Bridges :
              BridgeBegins(b) \/ BridgeReady(b) \/ BridgeExit(b) \/ BridgeReceipt(b)
  BY <1>2 DEF BridgeBegins, BridgeReady, BridgeExit, BridgeReceipt, ScriptFrame
<1>3. CASE AdapterExit
  BY <1>3 DEF AdapterExit, ScriptFrame
<1>4. CASE \E k \in 1 .. Sessions : Wake(k)
  BY <1>4 DEF Wake
<1> QED BY <1>1, <1>2, <1>3, <1>4 DEF Processes

\* What a power-off leaves.
LEMMA PowerOffLeaves ==
    ASSUME TypeInv, PowerOff
    PROVE  /\ boot < Boots /\ boot' = boot + 1 /\ tmp' = NoState /\ lock' = 0 /\ op' = Idle
           /\ call' = NoCall /\ adapter' = NoAdapter /\ acvs' = TRUE
           /\ UNCHANGED <<dir, history, sessions, interrupts, pruned>>
           /\ \A k \in 1 .. Sessions :
                 own'[k] \in {own[k], Ended} /\ own'[k].pc \in {"unborn", "end"}
           /\ \A n \in 1 .. Apps : app'[n] \in {app[n], "bad"} /\ ~Alive(n)'
                 /\ (app'[n] = "ok" <=> app[n] = "ok") /\ (app'[n] = "unborn" <=> app[n] = "unborn")
           /\ \A b \in 1 .. Bridges : bridge'[b] \in {bridge[b], Gone} /\ bridge'[b].st \in {"unborn", "gone"}
<1>1. \A k \in 1 .. Sessions : own'[k] = IF own[k].pc = "unborn" THEN own[k] ELSE Ended
  BY DEF PowerOff
<1>2. \A n \in 1 .. Apps : app'[n] = IF Alive(n) THEN "bad" ELSE app[n]
  BY DEF PowerOff
<1>3. \A b \in 1 .. Bridges : bridge'[b] = IF bridge[b].st = "unborn" THEN bridge[b] ELSE Gone
  BY DEF PowerOff
<1>4. /\ UNCHANGED <<dir, history, sessions, interrupts, pruned>>
      /\ boot < Boots /\ boot' = boot + 1 /\ tmp' = NoState /\ lock' = 0 /\ op' = Idle
      /\ call' = NoCall /\ adapter' = NoAdapter /\ acvs' = TRUE
  BY DEF PowerOff
<1>5. \A k \in 1 .. Sessions : own'[k] \in {own[k], Ended} /\ own'[k].pc \in {"unborn", "end"}
  BY <1>1, Records
<1>6. \A n \in 1 .. Apps : app'[n] \in {app[n], "bad"} /\ ~Alive(n)'
         /\ (app'[n] = "ok" <=> app[n] = "ok") /\ (app'[n] = "unborn" <=> app[n] = "unborn")
  BY <1>2 DEF Alive, Running
<1>7. \A b \in 1 .. Bridges : bridge'[b] \in {bridge[b], Gone} /\ bridge'[b].st \in {"unborn", "gone"}
  <2>1. Gone.st = "gone"
    BY DEF Gone
  <2> QED BY <1>3, <2>1
<1> QED BY <1>4, <1>5, <1>6, <1>7

\* The lock excludes scripts, whatever happens.
LEMMA LocksHold == TypeInv /\ LockInv /\ [Next]_vars => LockInv'
<1> SUFFICES ASSUME TypeInv, LockInv, [Next]_vars PROVE LockInv'
  OBVIOUS
<1>0. /\ own \in [1 .. Sessions -> Owners] /\ op \in Ops /\ call \in Callees
      /\ lock \in 0 .. Operator /\ Sessions \in Nat /\ Operator = Sessions + 1
      /\ NoCall \in Callees /\ NoCall.pc = "none" /\ NoCall.whole = FALSE
      /\ Idle \in Ops /\ Idle.pc = "idle"
  BY ScriptTypes, Records DEF NoCall
<1>1. CASE UNCHANGED vars
  BY <1>1 DEF vars, LockInv, OwnerAt
<1>2. CASE Processes
  <2>1. UNCHANGED <<lock, op, call>> /\ \A k \in 1 .. Sessions : own'[k].pc = own[k].pc
    <3>1. ASSUME NEW k \in 1 .. Sessions, NEW j \in 1 .. Sessions
          PROVE  [own EXCEPT ![k].pending = TRUE][j].pc = own[j].pc
      BY <1>0 DEF Owners
    <3> QED BY <1>2, <3>1, ProcessesKeep
  <2> QED BY <2>1 DEF LockInv, OwnerAt
<1>3. CASE Scripts
  BY <1>3, OperatorLocks, CallLocks, OwnerLocks DEF Scripts
<1>4. CASE Interrupt
  <2>1. op # Idle /\ lock' = 0 /\ op' = Idle /\ call' = NoCall /\ own' = own
    BY <1>4 DEF Interrupt
  <2>2. \A k \in 1 .. Sessions : own[k].pc \notin Held
    BY <1>0, <2>1 DEF LockInv
  <2> QED BY <1>0, <2>1, <2>2 DEF LockInv, OwnerAt, StopCall, StartCall, RouteCall, ArchiveCall
<1>5. CASE PowerOff
  BY <1>0, <1>5, PowerOffLeaves DEF LockInv, OwnerAt, StopCall, StartCall, RouteCall, ArchiveCall,
     Held, Visiting, Closing
<1>6. ASSUME NEW c \in Commands, Command(c) PROVE LockInv'
  <2>1. /\ op = Idle /\ lock = 0 /\ lock' = Operator /\ UNCHANGED <<own, call>>
        /\ op'.cmd = c /\ op'.pc = "entry"
    BY <1>0, <1>6 DEF Command, OpFrame, Ops
  <2>2. c # "none"
    BY SessionAssumption DEF SessionAssumption
  <2>3. \A k \in 1 .. Sessions : own[k].pc \notin Held
    BY <1>0, <2>1 DEF LockInv
  <2> QED BY <1>0, <2>1, <2>2, <2>3 DEF LockInv, OwnerAt, OpCalling
<1> QED BY <1>1, <1>2, <1>3, <1>4, <1>5, <1>6 DEF Next

-----------------------------------------------------------------------------
(* What each step writes.                                                   *)

\* An owner's step changes its own record, and no other owner's; the application it
\* tends and the exit code it collected change only when one is launched or reaped.
LEMMA OwnerWrites ==
    ASSUME TypeInv, NEW k \in 1 .. Sessions, OwnerStep(k)
    PROVE  /\ own' \in [1 .. Sessions -> Owners]
           /\ \A j \in 1 .. Sessions : j # k => own'[j] = own[j]
           /\ own[k].pc \notin {"unborn", "end"} /\ own'[k].pc # "unborn"
           /\ \/ Spawn(k) \/ Reap(k) \/ own'[k] = Ended
              \/ own'[k].child = own[k].child /\ own'[k].code = own[k].code
<1> DEFINE Good(r) == /\ r \in Owners /\ r.pc # "unborn"
                      /\ \/ Spawn(k) \/ Reap(k) \/ r = Ended
                         \/ r.child = own[k].child /\ r.code = own[k].code
           Goal == /\ own' \in [1 .. Sessions -> Owners] /\ Good(own'[k])
                   /\ \A j \in 1 .. Sessions : j # k => own'[j] = own[j]
<1>0. own \in [1 .. Sessions -> Owners] /\ app \in [1 .. Apps -> AppStates]
      /\ Ended \in Owners /\ Ended.pc = "end" /\ Unborn \in Owners /\ own[k] \in Owners
  BY Types, Records
<1>p. {"admit", "launch", "spawn", "exec", "last", "poll", "tick", "status", "setup", "wired", "apply",
       "drained", "rewired", "offer", "offered", "leave", "reaped", "departed", "cleared",
       "consume", "archived"} = OwnPcs \ {"unborn", "end"}
  BY DEF OwnPcs
<1>1. own[k].pc \notin {"unborn", "end"}
  BY DEF OwnerStep, OwnerAdmit, Launch, Spawn, ExecWait, LastReceipt, Poll, Tick, Visit, Setup, Wired,
     Apply, Reapply, Reapplied, Offer, Offered, LeaveVisit, Reap, Departed, Clear, Consider, Consume,
     Archived
<1>g. SUFFICES Goal
  BY <1>1
<1>2. ASSUME NEW r, own' = [own EXCEPT ![k] = r], Good(r)
      PROVE  Goal
  BY <1>0, <1>2
<1>3. ASSUME NEW p \in OwnPcs \ {"unborn"}, own' = [own EXCEPT ![k].pc = p]
      PROVE  Goal
  BY <1>0, <1>3 DEF Owners
<1>4. CASE own' = [own EXCEPT ![k] = Ended]
  BY <1>0, <1>2, <1>4
<1> HIDE DEF Good, Goal
<1>6. CASE OwnerAdmit(k) \/ ExecWait(k) \/ Poll(k) \/ Departed(k) \/ Offered(k)
  <2>1. \E p \in OwnPcs \ {"unborn"} : Goto(k, p)
    BY <1>p, <1>6 DEF OwnerAdmit, ExecWait, Poll, Departed, Offered
  <2> QED BY <1>3, <2>1 DEF Goto
<1>7. CASE Launch(k) \/ LastReceipt(k) \/ Clear(k) \/ Consider(k) \/ Consume(k) \/ Archived(k)
  <2>1. Dismiss(k) \/ \E p \in OwnPcs \ {"unborn"} : Goto(k, p)
    BY <1>p, <1>7 DEF Launch, LastReceipt, Clear, Consider, Consume, Archived, Quit
  <2> QED BY <1>3, <1>4, <2>1 DEF Dismiss, Goto
<1>8. CASE Setup(k) \/ Wired(k) \/ Reapply(k) \/ Reapplied(k)
  <2>1. \/ \E p \in OwnPcs \ {"unborn"} : Goto(k, p)
        \/ \E p \in {"apply", "leave"} : \E s \in 1 .. 2 : own' = [own EXCEPT ![k].pc = p, ![k].setup = s]
    <3>1. CASE Setup(k)
      BY <1>p, <3>1 DEF Setup
    <3>2. CASE Wired(k)
      BY <1>p, <3>2 DEF Wired
    <3>3. CASE Reapply(k)
      BY <1>p, <3>3 DEF Reapply
    <3>4. CASE Reapplied(k)
      BY <1>p, <3>4 DEF Reapplied
    <3> QED BY <1>8, <3>1, <3>2, <3>3, <3>4
  <2>2. ASSUME NEW p \in {"apply", "leave"}, NEW s \in 1 .. 2, own' = [own EXCEPT ![k].pc = p, ![k].setup = s]
        PROVE  Goal
    <3>1. own' = [own EXCEPT ![k] = [own[k] EXCEPT !.pc = p, !.setup = s]]
      BY <1>0, <2>2
    <3>2. p \in OwnPcs \ {"unborn"} /\ s \in 0 .. 2
      BY <1>p
    <3>3. Good([own[k] EXCEPT !.pc = p, !.setup = s])
      BY <1>0, <3>2 DEF Owners, Good
    <3> QED BY <1>2, <3>1, <3>3
  <2> QED BY <1>3, <2>1, <2>2 DEF Goto
<1>9. CASE Tick(k)
  <2>1. Goto(k, "poll") \/ Goto(k, "status") \/ own' = [own EXCEPT ![k].pc = "poll", ![k].seen = TRUE]
    BY <1>9 DEF Tick
  <2>2. CASE own' = [own EXCEPT ![k].pc = "poll", ![k].seen = TRUE]
    <3>1. own' = [own EXCEPT ![k] = [own[k] EXCEPT !.pc = "poll", !.seen = TRUE]]
      BY <1>0, <2>2
    <3>2. Good([own[k] EXCEPT !.pc = "poll", !.seen = TRUE])
      BY <1>0, <1>p DEF Owners, Good
    <3> QED BY <1>2, <3>1, <3>2
  <2> QED BY <1>p, <1>3, <2>1, <2>2 DEF Goto
<1>10. CASE Apply(k)
  <2>1. PICK p \in {"drained", "offer"} : own' = [own EXCEPT ![k].pc = p, ![k].pending = FALSE]
    BY <1>10 DEF Apply
  <2>2. own' = [own EXCEPT ![k] = [own[k] EXCEPT !.pc = p, !.pending = FALSE]]
    BY <1>0, <2>1
  <2>3. Good([own[k] EXCEPT !.pc = p, !.pending = FALSE])
    BY <1>0, <1>p DEF Owners, Good
  <2> QED BY <1>2, <2>2, <2>3
<1>11. CASE Offer(k)
  <2>1. Goto(k, "leave") \/ own' = [own EXCEPT ![k].pc = "offered", ![k].tried = TRUE]
    BY <1>11 DEF Offer
  <2>2. CASE own' = [own EXCEPT ![k].pc = "offered", ![k].tried = TRUE]
    <3>1. own' = [own EXCEPT ![k] = [own[k] EXCEPT !.pc = "offered", !.tried = TRUE]]
      BY <1>0, <2>2
    <3>2. Good([own[k] EXCEPT !.pc = "offered", !.tried = TRUE])
      BY <1>0, <1>p DEF Owners, Good
    <3> QED BY <1>2, <3>1, <3>2
  <2> QED BY <1>p, <1>3, <2>1, <2>2 DEF Goto
<1>12. CASE LeaveVisit(k)
  <2>1. own' = [own EXCEPT ![k] = [own[k] EXCEPT !.pc = "poll", !.ready = FALSE]]
    BY <1>0, <1>12 DEF LeaveVisit
  <2>2. Good([own[k] EXCEPT !.pc = "poll", !.ready = FALSE])
    BY <1>0, <1>p DEF Owners, Good
  <2> QED BY <1>2, <2>1, <2>2
<1>13. CASE Visit(k)
  <2>1. PICK code \in Status :
          LET next == [own[k] EXCEPT !.seen = @ \/ code = 6, !.ready = code = 0] IN
             \/ own' = [own EXCEPT ![k] = [next EXCEPT !.pc = "apply"]]
             \/ own' = [own EXCEPT ![k] = [next EXCEPT !.pc = "setup"]]
             \/ own' = [own EXCEPT ![k] = [next EXCEPT !.pc = "leave"]]
             \/ own' = [own EXCEPT ![k] = [next EXCEPT !.pc = "leave", !.setup = 2]]
    BY <1>13 DEF Visit
  <2> DEFINE next == [own[k] EXCEPT !.seen = @ \/ code = 6, !.ready = code = 0]
  <2>2. next \in Owners /\ next.child = own[k].child /\ next.code = own[k].code
    BY <1>0 DEF Owners
  <2>3. \/ own' = [own EXCEPT ![k] = [next EXCEPT !.pc = "apply"]]
        \/ own' = [own EXCEPT ![k] = [next EXCEPT !.pc = "setup"]]
        \/ own' = [own EXCEPT ![k] = [next EXCEPT !.pc = "leave"]]
        \/ own' = [own EXCEPT ![k] = [next EXCEPT !.pc = "leave", !.setup = 2]]
    BY <2>1
  <2> HIDE DEF next
  <2>4. \A p \in {"apply", "setup", "leave"} :
           Good([next EXCEPT !.pc = p]) /\ Good([next EXCEPT !.pc = p, !.setup = 2])
    <3>1. ASSUME NEW p \in {"apply", "setup", "leave"} PROVE Good([next EXCEPT !.pc = p])
      BY <1>p, <2>2 DEF Owners, Good
    <3>2. ASSUME NEW p \in {"apply", "setup", "leave"} PROVE Good([next EXCEPT !.pc = p, !.setup = 2])
      <4>1. p \in OwnPcs \ {"unborn"} /\ 2 \in 0 .. 2
        BY <1>p
      <4> QED BY <2>2, <4>1 DEF Owners, Good
    <3> QED BY <3>1, <3>2
  <2> QED BY <1>2, <2>3, <2>4
<1>14. CASE Spawn(k)
  <2>1. PICK n \in 1 .. Apps : own' = [own EXCEPT ![k] = [Unborn EXCEPT !.pc = "exec", !.child = n,
                                                                 !.pending = own[k].pending]]
    BY <1>14 DEF Spawn
  <2>2. n \in 0 .. Apps /\ own[k].pending \in BOOLEAN /\ "exec" \in OwnPcs
    BY <1>0, <1>p, Sizes DEF Owners
  <2>3. ASSUME NEW u \in Owners, NEW m \in 0 .. Apps, NEW d \in BOOLEAN
        PROVE  Good([u EXCEPT !.pc = "exec", !.child = m, !.pending = d])
    BY <1>14, <2>2 DEF Owners, Good
  <2> QED BY <1>0, <1>2, <2>1, <2>2, <2>3
<1>15. CASE Reap(k)
  <2>1. own' = [own EXCEPT ![k] = [Unborn EXCEPT !.pc = "reaped", !.pending = own[k].pending,
                                                 !.code = app[own[k].child] = "ok"]]
    BY <1>15 DEF Reap
  <2>2. own[k].pending \in BOOLEAN /\ (app[own[k].child] = "ok") \in BOOLEAN /\ "reaped" \in OwnPcs
    BY <1>0, <1>p DEF Owners
  <2>3. ASSUME NEW u \in Owners, NEW m \in BOOLEAN, NEW d \in BOOLEAN
        PROVE  Good([u EXCEPT !.pc = "reaped", !.pending = d, !.code = m])
    BY <1>15, <2>2 DEF Owners, Good
  <2> QED BY <1>0, <1>2, <2>1, <2>2, <2>3
<1> QED BY <1>6, <1>7, <1>8, <1>9, <1>10, <1>11, <1>12, <1>13, <1>14, <1>15 DEF OwnerStep

\* The owner writes no locator but its application's, and removes no receipt.
LEMMA OwnerDirs ==
    ASSUME TypeInv, NEW k \in 1 .. Sessions, OwnerStep(k)
    PROVE  /\ dir' \in [Folder -> Places]
           /\ dir'.id = dir.id /\ dir'.boot = dir.boot /\ dir'.revoked = dir.revoked
           /\ dir'.bridge = dir.bridge /\ dir'.bexit = dir.bexit
           /\ dir'.exit # dir.exit => dir'.exit # 0
           /\ dir'.mpc = dir.mpc \/ (Spawn(k) /\ dir'.mpc \in 1 .. Apps)
<1>0. dir \in [Folder -> Places] /\ Folder = Files /\ {0, 1, 2} \subseteq Places
      /\ 0 .. Apps \subseteq Places /\ Apps \in Nat
  BY Types, FolderIs, PlaceSizes, Sizes
<1>1. CASE UNCHANGED dir
  BY <1>0, <1>1
<1>2. ASSUME NEW f \in {"pipe", "failed", "ready"}, NEW v \in {0, 1, 2}, dir' = [dir EXCEPT ![f] = v]
      PROVE  /\ dir' \in [Folder -> Places]
             /\ dir'.id = dir.id /\ dir'.boot = dir.boot /\ dir'.revoked = dir.revoked
             /\ dir'.bridge = dir.bridge /\ dir'.bexit = dir.bexit
             /\ dir'.exit = dir.exit /\ dir'.mpc = dir.mpc
  <2>1. v \in Places /\ f \in Folder
    BY <1>0 DEF Files
  <2> QED BY <1>0, <1>2, <2>1 DEF Files
<1>3. CASE OwnerAdmit(k) \/ ExecWait(k) \/ Poll(k) \/ Tick(k) \/ Apply(k) \/ Offer(k) \/ LeaveVisit(k)
           \/ Departed(k) \/ Clear(k) \/ Consider(k) \/ Consume(k) \/ Archived(k)
  BY <1>1, <1>3 DEF OwnerAdmit, ExecWait, Poll, Tick, Apply, Offer, LeaveVisit, Departed, Clear,
     Consider, Consume, Archived
<1>4. CASE Launch(k) \/ Visit(k) \/ Wired(k) \/ Reapply(k) \/ Reapplied(k) \/ Offered(k)
  <2>1. \/ UNCHANGED dir
        \/ dir' = [dir EXCEPT !.pipe = 1] \/ dir' = [dir EXCEPT !.ready = 1]
        \/ dir' = [dir EXCEPT !.failed = 2] \/ dir' = [dir EXCEPT !.failed = 1]
    BY <1>4 DEF Launch, Visit, Wired, Reapply, Reapplied, Offered
  <2>2. CASE UNCHANGED dir
    BY <1>1, <2>2
  <2>3. CASE ~UNCHANGED dir
    BY <1>2, <2>1, <2>3
  <2> QED BY <2>2, <2>3
<1>5. CASE Spawn(k)
  <2>1. PICK n \in 1 .. Apps : dir' = [dir EXCEPT !.mpc = n]
    BY <1>5 DEF Spawn
  <2>2. n \in Places
    BY <1>0
  <2> QED BY <1>0, <1>5, <2>1, <2>2 DEF Files
<1>6. CASE LastReceipt(k) \/ Reap(k)
  <2>1. PICK v \in {1, 2} : dir' = [dir EXCEPT !.exit = v, !.pipe = 0]
    BY <1>6 DEF LastReceipt, Reap
  <2>2. "exit" \in Folder /\ "pipe" \in Folder /\ v \in Places
    BY <1>0 DEF Files
  <2>3. dir' \in [Folder -> Places]
    BY <1>0, <2>1, <2>2
  <2>4. \A f \in Folder : f \notin {"exit", "pipe"} => dir'[f] = dir[f]
    BY <1>0, <2>1, <2>2
  <2>5. dir'.exit = v
    BY <1>0, <2>1, <2>2
  <2>6. {"id", "boot", "revoked", "bridge", "bexit", "mpc"} \subseteq Folder
    BY <1>0 DEF Files
  <2> QED BY <2>3, <2>4, <2>5, <2>6
<1>7. CASE Setup(k)
  <2>1. dir' = [dir EXCEPT !.unarmed = own[k].child] \/ dir' = [dir EXCEPT !.failed = 2]
    BY <1>7 DEF Setup
  <2>2. own[k].child \in Places
    BY <1>0, Types DEF Owners
  <2>3. CASE dir' = [dir EXCEPT !.unarmed = own[k].child]
    BY <1>0, <2>2, <2>3 DEF Files
  <2> QED BY <1>2, <2>1, <2>3
<1> QED BY <1>3, <1>4, <1>5, <1>6, <1>7 DEF OwnerStep

\* Of the operator's commands, start writes the session's name, its boot and the end
\* of its revocation, stop the revocation.
LEMMA OperatorDirs ==
    ASSUME TypeInv, OperatorStep
    PROVE  /\ dir' \in [Folder -> Places]
           /\ dir'.mpc = dir.mpc /\ dir'.bridge = dir.bridge /\ dir'.bexit = dir.bexit
           /\ dir'.exit = dir.exit
           /\ dir'.id = dir.id \/ (op.pc = "id" /\ dir'.id = sessions + 1)
           /\ dir'.boot = dir.boot \/ (op.pc = "boot" /\ dir'.boot = boot)
           /\ \/ dir'.revoked = dir.revoked
              \/ op.pc = "fresh" /\ dir'.revoked = 0
              \/ op.cmd = "stop" /\ op.pc = "entry" /\ dir'.revoked = 1
<1>0. dir \in [Folder -> Places] /\ Folder = Files /\ {0, 1, 2} \subseteq Places
      /\ sessions + 1 \in Places /\ boot \in Places /\ sessions \in Places
  <2>1. sessions \in 0 .. Sessions /\ boot \in 1 .. Boots /\ dir \in [Folder -> Places]
    BY Types
  <2>2. Sessions \in Nat /\ Boots \in Nat
    BY Sizes
  <2>3. sessions + 1 \in 0 .. Sessions + 1 /\ boot \in 0 .. Boots /\ sessions \in 0 .. Sessions + 1
    BY <2>1, <2>2
  <2> QED BY <2>1, <2>3, FolderIs, PlaceSizes
<1>1. CASE UNCHANGED dir
  BY <1>0, <1>1
<1>2. CASE StartEntry \/ StartPrior \/ StartStock \/ StartOld \/ StartOwner \/ StopAdapterFirst \/ StopOwned
           \/ StopClose \/ StopClosing \/ StopKill \/ StopTerm \/ StopAwait \/ StopReceipt \/ StopRecover
           \/ StopReport \/ ExplicitEntry \/ ExplicitStopped \/ ExplicitStarted
  BY <1>1, <1>2 DEF StartEntry, StartPrior, StartStock, StartOld, StartOwner, StopAdapterFirst, StopOwned,
     StopClose, StopClosing, StopKill, StopTerm, StopAwait, StopReceipt, StopRecover, StopReport,
     ExplicitEntry, ExplicitStopped, ExplicitStarted
<1>3. CASE StartRecord
  <2>1. \/ UNCHANGED dir
        \/ op.pc = "id" /\ dir' = [dir EXCEPT !.id = sessions + 1]
        \/ op.pc = "boot" /\ dir' = [dir EXCEPT !.boot = boot]
        \/ op.pc = "fresh" /\ dir' = [dir EXCEPT !.revoked = 0]
    BY <1>3 DEF StartRecord
  <2> QED BY <1>0, <1>1, <2>1 DEF Files
<1>4. CASE StartLocator
  <2>1. dir' = [dir EXCEPT !.owner = sessions]
    BY <1>4 DEF StartLocator
  <2> QED BY <1>0, <2>1 DEF Files
<1>5. CASE StopRevoke
  <2>1. UNCHANGED dir \/ (op.cmd = "stop" /\ op.pc = "entry" /\ dir' = [dir EXCEPT !.revoked = 1])
    BY <1>5 DEF StopRevoke, Stop
  <2> QED BY <1>0, <1>1, <2>1 DEF Files
<1>6. CASE ExplicitRouted
  <2>1. UNCHANGED dir \/ dir' = [dir EXCEPT !.failed = 0]
    BY <1>6 DEF ExplicitRouted
  <2> QED BY <1>0, <1>1, <2>1 DEF Files
<1> QED BY <1>2, <1>3, <1>4, <1>5, <1>6 DEF OperatorStep

\* Of the functions, bridge_start takes the exit of the bridge before it off the
\* record, and archive_entry removes one file at a time.
LEMMA CallDirs ==
    ASSUME TypeInv, CallStep
    PROVE  /\ dir' \in [Folder -> Places]
           /\ \/ /\ UNCHANGED <<dir.mpc, dir.id, dir.boot, dir.revoked, dir.bridge, dir.exit>>
                 /\ dir'.bexit = dir.bexit \/ (BridgeStart /\ dir'.bexit = 0)
              \/ /\ Remove /\ call.todo # <<>>
                 /\ \E f \in Folder : f = Head(call.todo) /\ dir' = [dir EXCEPT ![f] = 0]
<1>0. dir \in [Folder -> Places] /\ Folder = Files /\ {0, 1, 2} \subseteq Places
  BY Types, FolderIs, PlaceSizes
<1>1. CASE UNCHANGED dir
  BY <1>0, <1>1
<1>2. CASE BridgeStop \/ BridgeGone \/ BridgeSettled \/ BridgeStarted \/ Route \/ Stage \/ Copy \/ Rename
  BY <1>1, <1>2 DEF BridgeStop, BridgeGone, BridgeSettled, BridgeStarted, Route, Stage, Copy, Rename
<1>3. CASE BridgeStart
  <2>1. UNCHANGED dir \/ dir' = [dir EXCEPT !.bexit = 0]
    BY <1>3 DEF BridgeStart
  <2> QED BY <1>0, <1>1, <1>3, <2>1 DEF Files
<1>4. CASE Arm
  <2>1. UNCHANGED dir \/ dir' = [dir EXCEPT !.unarmed = 0]
    BY <1>4 DEF Arm
  <2> QED BY <1>0, <1>1, <2>1 DEF Files
<1>5. CASE Remove
  <2>1. UNCHANGED dir \/ (call.todo # <<>> /\ Head(call.todo) \in Folder /\ dir' = [dir EXCEPT ![Head(call.todo)] = 0])
    BY <1>5 DEF Remove
  <2>2. CASE call.todo # <<>> /\ Head(call.todo) \in Folder /\ dir' = [dir EXCEPT ![Head(call.todo)] = 0]
    <3>1. dir' \in [Folder -> Places]
      BY <1>0, <2>2
    <3> QED BY <1>5, <2>2, <3>1
  <2> QED BY <1>1, <2>1, <2>2
<1> QED BY <1>2, <1>3, <1>4, <1>5 DEF CallStep

\* The bridge records itself and, through the process that waits for it, its exit.
LEMMA ProcessDirs ==
    ASSUME TypeInv, Processes
    PROVE  /\ dir' \in [Folder -> Places]
           /\ UNCHANGED <<dir.mpc, dir.id, dir.boot, dir.revoked, dir.exit>>
           /\ dir'.bridge = dir.bridge \/ \E b \in 1 .. Bridges : BridgeBegins(b) /\ dir'.bridge = b
           /\ dir'.bexit = dir.bexit \/ \E b \in 1 .. Bridges : BridgeReceipt(b)
<1>0. dir \in [Folder -> Places] /\ Folder = Files /\ {0, 1, 2} \subseteq Places
      /\ 0 .. Bridges \subseteq Places /\ Bridges \in Nat
  BY Types, FolderIs, PlaceSizes, Sizes
<1>1. CASE UNCHANGED dir
  BY <1>0, <1>1
<1>2. CASE \E b \in 1 .. Bridges : BridgeBegins(b)
  <2>1. PICK b \in 1 .. Bridges : BridgeBegins(b)
    BY <1>2
  <2>2. dir' = [dir EXCEPT !.bridge = b] /\ b \in Places
    BY <1>0, <2>1 DEF BridgeBegins
  <2> QED BY <1>0, <2>1, <2>2 DEF Files
<1>3. CASE \E b \in 1 .. Bridges : BridgeReceipt(b)
  <2>1. \E v \in {1, 2} : dir' = [dir EXCEPT !.bexit = v]
    BY <1>3 DEF BridgeReceipt
  <2> QED BY <1>0, <1>3, <2>1 DEF Files
<1>4. CASE AdapterExit \/ (\E k \in 1 .. Sessions : Wake(k))
  BY <1>1, <1>4 DEF AdapterExit, Wake
<1>5. CASE \E n \in 1 .. Apps : AppExec(n) \/ AppProgress(n) \/ AppIntent(n) \/ AppClose(n) \/ AppExit(n)
  BY <1>1, <1>5 DEF AppExec, AppProgress, AppIntent, AppClose, AppExit
<1>6. CASE \E b \in 1 .. Bridges : BridgeReady(b) \/ BridgeExit(b)
  BY <1>1, <1>6 DEF BridgeReady, BridgeExit
<1> QED BY <1>2, <1>3, <1>4, <1>5, <1>6 DEF Processes

\* Functions are entered with these records.
LEMMA CallRecords ==
    /\ \A p \in CallPcs : [NoCall EXCEPT !.pc = p] \in Callees
    /\ \A p \in CallPcs, b \in BOOLEAN : [NoCall EXCEPT !.pc = p, !.whole = b] \in Callees
    /\ \A p \in CallPcs, b \in BOOLEAN : [NoCall EXCEPT !.pc = p, !.ok = b] \in Callees
<1>1. NoCall \in Callees
  BY Records
<1>2. ASSUME NEW u \in Callees, NEW p \in CallPcs, NEW b \in BOOLEAN
      PROVE  /\ [u EXCEPT !.pc = p] \in Callees /\ [u EXCEPT !.pc = p, !.whole = b] \in Callees
             /\ [u EXCEPT !.pc = p, !.ok = b] \in Callees
  BY DEF Callees
<1> QED BY <1>1, <1>2

\* Which variables an owner's step writes, besides its own record and the folder: an
\* application is launched, an intent consumed, an adapter started or stopped.
LEMMA OwnerKeeps ==
    ASSUME TypeInv, NEW k \in 1 .. Sessions, OwnerStep(k)
    PROVE  /\ UNCHANGED OwnerFrame
           /\ app' = app \/ Spawn(k)
           /\ tmp' = tmp \/ (Consume(k) /\ Accepted /\ tmp' = [tmp EXCEPT !.intent = 2])
           /\ \/ adapter' = adapter \/ adapter' = NoAdapter
              \/ Setup(k) /\ adapter.st = "none" /\ adapter' = [st |-> "idle", app |-> own[k].child]
           /\ lock' \in {lock, 0, k}
           /\ \/ call' = call \/ call' = NoCall
              \/ Archives(FALSE) \/ \E p \in {"stop", "start", "route"} : Calls(p)
              \/ call.pc = "done" /\ call' = [NoCall EXCEPT !.pc = "start"]
<1>1. CASE OwnerAdmit(k) \/ Launch(k) \/ Spawn(k) \/ ExecWait(k) \/ LastReceipt(k) \/ Poll(k) \/ Tick(k)
           \/ Visit(k) \/ LeaveVisit(k) \/ Reap(k) \/ Departed(k) \/ Archived(k)
  BY <1>1 DEF OwnerAdmit, Launch, Spawn, ExecWait, LastReceipt, Poll, Tick, Visit, LeaveVisit, Reap,
     Departed, Archived, Lock, Unlock, Quit, Returned, StopAdapter
<1>2. CASE Setup(k) \/ Apply(k) \/ Offer(k)
  BY <1>2 DEF Setup, Apply, Offer
<1>3. CASE Wired(k) \/ Reapply(k) \/ Reapplied(k) \/ Offered(k)
  BY <1>3 DEF Wired, Reapply, Reapplied, Offered, Returned
<1>4. CASE Clear(k) \/ Consider(k) \/ Consume(k)
  BY <1>4 DEF Clear, Consider, Consume, Quit, Unlock, Returned, StopAdapter
<1> QED BY <1>1, <1>2, <1>3, <1>4 DEF OwnerStep

\* An owner's step keeps the types.
LEMMA OwnerTypes ==
    ASSUME TypeInv, NEW k \in 1 .. Sessions, OwnerStep(k)
    PROVE  TypeInv'
<1>0. /\ own \in [1 .. Sessions -> Owners] /\ dir \in [Folder -> Places] /\ tmp \in Memory
      /\ app \in [1 .. Apps -> AppStates] /\ adapter \in Adapters /\ call \in Callees
      /\ lock \in 0 .. Operator /\ own[k].child \in 0 .. Apps /\ Apps \in Nat
      /\ {lock, 0, k} \subseteq 0 .. Operator
  <2>1. /\ own \in [1 .. Sessions -> Owners] /\ dir \in [Folder -> Places] /\ tmp \in Memory
        /\ app \in [1 .. Apps -> AppStates] /\ adapter \in Adapters /\ call \in Callees
        /\ lock \in 0 .. Operator
    BY Types
  <2>2. own[k].child \in 0 .. Apps
    BY <2>1 DEF Owners
  <2>3. Sessions \in Nat /\ Apps \in Nat
    BY Sizes
  <2>4. {lock, 0, k} \subseteq 0 .. Operator
    BY <2>1, <2>3 DEF Operator
  <2> QED BY <2>1, <2>2, <2>3, <2>4
<1>1. UNCHANGED <<history, boot, sessions, op, bridge, acvs, interrupts, pruned>>
  BY OwnerKeeps DEF OwnerFrame
<1>2. app' \in [1 .. Apps -> AppStates]
  <2>1. CASE Spawn(k)
    BY <1>0, <2>1 DEF Spawn, AppStates
  <2> QED BY <1>0, <2>1, OwnerKeeps
<1>3. tmp' \in Memory
  <2>1. [tmp EXCEPT !.intent = 2] \in Memory
    BY <1>0 DEF Memory
  <2> QED BY <1>0, <2>1, OwnerKeeps
<1>4. adapter' \in Adapters
  <2>1. NoAdapter \in Adapters /\ [st |-> "idle", app |-> own[k].child] \in Adapters
    BY <1>0, Records DEF Adapters
  <2> QED BY <1>0, <2>1, OwnerKeeps
<1>5. call' \in Callees /\ (call'.pc \notin {"copy", "rename"} \/ call' = call)
  <2>1. {"stop", "start", "route", "stage"} \subseteq CallPcs
    BY DEF CallPcs
  <2>2. NoCall \in Callees /\ NoCall.pc = "none"
    BY Records
  <2>3. ASSUME NEW u \in Callees, NEW p \in CallPcs \ {"copy", "rename"}, NEW b \in BOOLEAN
        PROVE  [u EXCEPT !.pc = p].pc \notin {"copy", "rename"}
               /\ [u EXCEPT !.pc = p, !.whole = b].pc \notin {"copy", "rename"}
    BY DEF Callees
  <2>4. ASSUME NEW p \in {"stop", "start", "route", "stage"}, call' = [NoCall EXCEPT !.pc = p]
        PROVE  call' \in Callees /\ call'.pc \notin {"copy", "rename"}
    BY <2>1, <2>2, <2>3, <2>4, CallRecords
  <2>5. ASSUME Archives(FALSE)
        PROVE  call' \in Callees /\ call'.pc \notin {"copy", "rename"}
    BY <2>1, <2>2, <2>3, <2>5, CallRecords DEF Archives
  <2> QED BY <1>0, <2>2, <2>4, <2>5, OwnerKeeps DEF Calls
<1>6. lock' \in 0 .. Operator
  BY <1>0, OwnerKeeps
<1>7. \A j \in 1 .. Sessions : j > sessions => own'[j] = Unborn
  <2>1. own[k].pc # "unborn" /\ \A j \in 1 .. Sessions : j # k => own'[j] = own[j]
    BY OwnerWrites
  <2> QED BY <2>1, Types, Records
<1>8. own' \in [1 .. Sessions -> Owners]
  BY OwnerWrites
<1>9. dir' \in [Folder -> Places] /\ dir'.id = dir.id /\ dir'.bridge = dir.bridge
      /\ dir'.mpc \in 0 .. Apps
  <2>1. dir.mpc \in 0 .. Apps /\ 1 .. Apps \subseteq 0 .. Apps
    BY Types, Sizes
  <2> QED BY <2>1, OwnerDirs
<1> QED BY <1>1, <1>2, <1>3, <1>4, <1>5, <1>6, <1>7, <1>8, <1>9, Types, TypesNext

\* Which variables the functions write: bridge_start forks a bridge's child, arm_adapter
\* arms, archive_entry writes history and removes.
LEMMA CallKeeps ==
    ASSUME TypeInv, CallStep
    PROVE  /\ UNCHANGED <<boot, lock, sessions, op, own, interrupts, acvs, app>>
           /\ \/ bridge' = bridge
              \/ /\ BridgeStart
                 /\ \E b \in 1 .. Bridges : bridge[b].st = "unborn" /\ bridge' = [bridge EXCEPT ![b].st = "fork"]
           /\ \/ adapter' = adapter
              \/ Arm /\ adapter.st # "none" /\ adapter' = [adapter EXCEPT !.st = "armed"]
           /\ tmp' = tmp \/ Remove
           /\ UNCHANGED <<history, pruned>> \/ Stage \/ Copy \/ Rename
<1>1. CASE BridgeStop \/ BridgeGone \/ BridgeSettled \/ BridgeStarted \/ Route
  BY <1>1 DEF BridgeStop, BridgeGone, BridgeSettled, BridgeStarted, Route, CallFrame
<1>2. CASE BridgeStart
  BY <1>2 DEF BridgeStart, CallFrame
<1>3. CASE Arm
  BY <1>3 DEF Arm, CallFrame
<1>4. CASE Stage \/ Copy \/ Rename \/ Remove
  BY <1>4 DEF Stage, Copy, Rename, Remove, CallFrame
<1> QED BY <1>1, <1>2, <1>3, <1>4 DEF CallStep

\* history_commit keeps the folder within its bound.
LEMMA CutBounds ==
    ASSUME NEW n \in Nat, n <= HistoryEntries
    PROVE  Cut(n) \in 0 .. n /\ n - Cut(n) < HistoryEntries
BY Sizes DEF Cut

\* What is kept of the history, and what is dropped from it.
LEMMA CutParts ==
    ASSUME NEW S, NEW s \in Seq(S), NEW c \in 0 .. Len(s)
    PROVE  /\ SubSeq(s, c + 1, Len(s)) \in Seq(S) /\ SubSeq(s, 1, c) \in Seq(S)
           /\ Len(SubSeq(s, c + 1, Len(s))) = Len(s) - c /\ Len(SubSeq(s, 1, c)) = c
           /\ \A i \in 1 .. Len(s) - c : SubSeq(s, c + 1, Len(s))[i] = s[c + i]
           /\ \A i \in 1 .. c : SubSeq(s, 1, c)[i] = s[i]
<1>1. Len(s) \in Nat /\ c \in Nat /\ c <= Len(s)
  OBVIOUS
<1>2. \A i \in c + 1 .. Len(s) : s[i] \in S
  BY <1>1
<1>3. \A i \in 1 .. c : s[i] \in S
  BY <1>1
<1>4. /\ SubSeq(s, c + 1, Len(s)) \in Seq(S)
      /\ Len(SubSeq(s, c + 1, Len(s))) = Len(s) - c
      /\ \A i \in 1 .. Len(s) - c : SubSeq(s, c + 1, Len(s))[i] = s[c + i]
  BY <1>1, <1>2
<1>5. /\ SubSeq(s, 1, c) \in Seq(S) /\ Len(SubSeq(s, 1, c)) = c
      /\ \A i \in 1 .. c : SubSeq(s, 1, c)[i] = s[i]
  BY <1>1, <1>3
<1> QED BY <1>4, <1>5

\* What archive_entry has to remove is a sequence of files.
LEMMA TodoTypes ==
    /\ GenerationFiles \in Seq(Folder \cup {"state", "snapshot"})
    /\ SessionFiles \in Seq(Folder \cup {"state", "snapshot"})
    /\ \A b, c \in BOOLEAN :
          (IF b THEN GenerationFiles ELSE <<>>) \o (IF c THEN SessionFiles ELSE <<>>)
             \in Seq(Folder \cup {"state", "snapshot"})
<1>1. GenerationFiles \in Seq(Folder \cup {"state", "snapshot"})
  BY FolderIs DEF GenerationFiles, Files
<1>2. SessionFiles \in Seq(Folder \cup {"state", "snapshot"})
  BY FolderIs DEF SessionFiles, Files
<1>3. \A s, t \in Seq(Folder \cup {"state", "snapshot"}) : s \o t \in Seq(Folder \cup {"state", "snapshot"})
  OBVIOUS
<1>4. <<>> \in Seq(Folder \cup {"state", "snapshot"})
  OBVIOUS
<1> QED BY <1>1, <1>2, <1>3, <1>4

\* A function's step keeps the types.
LEMMA CallTypes ==
    ASSUME TypeInv, CallStep
    PROVE  TypeInv'
<1>0. /\ dir \in [Folder -> Places] /\ tmp \in Memory /\ own \in [1 .. Sessions -> Owners]
      /\ op \in Ops /\ call \in Callees /\ app \in [1 .. Apps -> AppStates]
      /\ bridge \in [1 .. Bridges -> BridgeStates] /\ adapter \in Adapters
      /\ history \in [entries : Seq(0 .. Apps), new : BOOLEAN] /\ pruned \subseteq 0 .. Apps
      /\ Len(history.entries) <= HistoryEntries
      /\ call.pc \in {"copy", "rename"} => Len(history.entries) < HistoryEntries
      /\ dir.mpc \in 0 .. Apps /\ dir.bridge \in 0 .. Bridges /\ dir.id \in 0 .. sessions + 1
  BY Types
<1>00. Apps \in Nat /\ Bridges \in Nat /\ sessions \in Nat /\ HistoryEntries \in Nat /\ HistoryEntries >= 1
  <2>1. sessions \in 0 .. Sessions
    BY Types
  <2> QED BY <2>1, Sizes
<1>1. UNCHANGED <<boot, lock, sessions, op, own, interrupts, acvs, app>>
  BY CallKeeps
<1>2. bridge' \in [1 .. Bridges -> BridgeStates]
  <2>1. ASSUME NEW b \in 1 .. Bridges PROVE [bridge EXCEPT ![b].st = "fork"] \in [1 .. Bridges -> BridgeStates]
    BY <1>0 DEF BridgeStates
  <2> QED BY <1>0, <2>1, CallKeeps
<1>3. adapter' \in Adapters
  BY <1>0, CallKeeps DEF Adapters
<1>4. tmp' \in Memory
  <2>1. [tmp EXCEPT !.snapshot = 0] \in Memory
    BY <1>0 DEF Memory
  <2>2. [NoState EXCEPT !.snapshot = tmp.snapshot] \in Memory
    <3>1. tmp.snapshot \in 0 .. 2 /\ NoState \in Memory
      BY <1>0, Records DEF Memory
    <3>2. ASSUME NEW u \in Memory, NEW v \in 0 .. 2 PROVE [u EXCEPT !.snapshot = v] \in Memory
      BY DEF Memory
    <3> QED BY <3>1, <3>2
  <2> QED BY <1>0, <2>1, <2>2, CallKeeps DEF Remove
<1>5. /\ dir' \in [Folder -> Places] /\ dir'.mpc \in 0 .. Apps /\ dir'.bridge \in 0 .. Bridges
      /\ dir'.id \in 0 .. sessions + 1
  <2>1. ASSUME NEW f \in Folder, dir' = [dir EXCEPT ![f] = 0]
        PROVE  /\ dir' \in [Folder -> Places] /\ dir'.mpc \in 0 .. Apps /\ dir'.bridge \in 0 .. Bridges
               /\ dir'.id \in 0 .. sessions + 1
    BY <1>0, <1>00, <2>1, FolderIs, PlaceSizes DEF Files
  <2> QED BY <1>0, <2>1, CallDirs
<1> DEFINE Within == call'.pc \in {"copy", "rename"} => Len(history'.entries) < HistoryEntries
<1>6. ASSUME NEW p \in CallPcs, Step(p), p \in {"copy", "rename"} => Len(history'.entries) < HistoryEntries
      PROVE  call' \in Callees /\ Within
  BY <1>0, <1>6 DEF Step, Callees
<1>7. ASSUME NEW b \in BOOLEAN, Return(b)
      PROVE  call' \in Callees /\ Within
  <2>1. "done" \in CallPcs
    BY DEF CallPcs
  <2>2. call' \in Callees
    BY <1>7, <2>1, CallRecords DEF Return
  <2>3. ASSUME NEW u \in Callees PROVE [u EXCEPT !.pc = "done", !.ok = b].pc = "done"
    BY DEF Callees
  <2> QED BY <1>7, <2>2, <2>3, Records DEF Return
<1>p. {"gone", "receipt", "starting", "usr1", "copy", "rename", "remove"} \subseteq CallPcs
  BY DEF CallPcs
<1>8. CASE UNCHANGED <<history, pruned>> /\ ~Stage /\ ~Rename
  <2>1. CASE ~Copy /\ ~Remove
    <3>1. (\E p \in {"gone", "receipt", "starting", "usr1"} : Step(p)) \/ \E b \in BOOLEAN : Return(b)
      <4>1. (dir.bridge = 0 \/ CleanReceipt) \in BOOLEAN
        BY DEF CleanReceipt
      <4> QED BY <1>8, <2>1, <4>1 DEF CallStep, BridgeStop, BridgeGone, BridgeSettled, BridgeStarted, Route,
                Arm, BridgeStart
    <3>2. call' \in Callees /\ Within
      BY <1>6, <1>7, <1>p, <3>1
    <3> QED BY <1>0, <1>1, <1>2, <1>3, <1>4, <1>5, <1>8, <3>2, Types, TypesNext
  <2>2. CASE Copy
    <3>1. call' \in Callees /\ Within
      BY <1>0, <1>6, <1>7, <1>8, <1>p, <2>2 DEF Copy, Uncommitted
    <3> QED BY <1>0, <1>1, <1>2, <1>3, <1>4, <1>5, <1>8, <3>1, Types, TypesNext
  <2>3. CASE Remove
    <3>1. CASE call.todo = <<>>
      <4>1. call' \in Callees /\ Within
        BY <1>7, <2>3, <3>1 DEF Remove
      <4> QED BY <1>0, <1>1, <1>2, <1>3, <1>4, <1>5, <1>8, <4>1, Types, TypesNext
    <3>2. CASE call.todo # <<>>
      <4>1. call' = [call EXCEPT !.todo = Tail(call.todo)] /\ call.pc = "remove"
        BY <2>3, <3>2 DEF Remove
      <4>2. Tail(call.todo) \in Seq(Folder \cup {"state", "snapshot"})
        BY <1>0, <3>2 DEF Callees
      <4>3. call' \in Callees /\ Within
        BY <1>0, <4>1, <4>2 DEF Callees
      <4> QED BY <1>0, <1>1, <1>2, <1>3, <1>4, <1>5, <1>8, <4>3, Types, TypesNext
    <3> QED BY <3>1, <3>2
  <2> QED BY <2>1, <2>2, <2>3
<1>h. history.entries \in Seq(0 .. Apps) /\ Len(history.entries) \in Nat
  BY <1>0
<1>9. CASE Copy /\ ~UNCHANGED history
  <2>1. history' = [history EXCEPT !.new = TRUE] /\ UNCHANGED pruned /\ call.pc = "copy"
        /\ (Uncommitted \/ Step("rename"))
    BY <1>9 DEF Copy
  <2>2. history' \in [entries : Seq(0 .. Apps), new : BOOLEAN] /\ history'.entries = history.entries
    BY <1>0, <2>1
  <2>3. call' \in Callees /\ Within
    BY <1>0, <1>6, <1>7, <1>p, <2>1, <2>2 DEF Uncommitted
  <2> QED BY <1>0, <1>1, <1>2, <1>3, <1>4, <1>5, <2>1, <2>2, <2>3, Types, TypesNext
<1>10. CASE Stage
  <2>1. CASE Uncommitted /\ UNCHANGED <<history, pruned>>
    <3>1. call' \in Callees /\ Within
      BY <1>7, <2>1 DEF Uncommitted
    <3> QED BY <1>0, <1>1, <1>2, <1>3, <1>4, <1>5, <2>1, <3>1, Types, TypesNext
  <2>2. CASE ~(Uncommitted /\ UNCHANGED <<history, pruned>>)
    <3> DEFINE old == history.entries
               cut == Cut(Len(old))
    <3>1. /\ history' = [entries |-> SubSeq(old, cut + 1, Len(old)), new |-> FALSE]
          /\ pruned' = pruned \cup Range(SubSeq(old, 1, cut)) /\ Step("copy")
      BY <1>10, <2>2 DEF Stage
    <3>2. cut \in 0 .. Len(old) /\ Len(old) - cut < HistoryEntries
      BY <1>0, <1>h, CutBounds
    <3>3. SubSeq(old, cut + 1, Len(old)) \in Seq(0 .. Apps) /\ SubSeq(old, 1, cut) \in Seq(0 .. Apps)
          /\ Len(SubSeq(old, cut + 1, Len(old))) = Len(old) - cut
      <4>1. old \in Seq(0 .. Apps)
        BY <1>h
      <4> HIDE DEF cut, old
      <4> QED BY <3>2, <4>1, CutParts
    <3>4. Range(SubSeq(old, 1, cut)) \subseteq 0 .. Apps
      BY <3>3 DEF Range
    <3> HIDE DEF cut, old
    <3>5. /\ history' \in [entries : Seq(0 .. Apps), new : BOOLEAN] /\ pruned' \subseteq 0 .. Apps
          /\ Len(history'.entries) < HistoryEntries
      BY <1>0, <3>1, <3>2, <3>3, <3>4
    <3>6. call' \in Callees /\ Within
      BY <1>6, <1>p, <3>1, <3>5
    <3>7. Len(history'.entries) <= HistoryEntries
      BY <1>00, <3>5
    <3> QED BY <1>0, <1>1, <1>2, <1>3, <1>4, <1>5, <3>5, <3>6, <3>7, Types, TypesNext
  <2> QED BY <2>1, <2>2
<1>11. CASE Rename
  <2>1. CASE Uncommitted /\ UNCHANGED <<history, pruned>>
    <3>1. call' \in Callees /\ Within
      BY <1>7, <2>1 DEF Uncommitted
    <3> QED BY <1>0, <1>1, <1>2, <1>3, <1>4, <1>5, <2>1, <3>1, Types, TypesNext
  <2>2. CASE ~(Uncommitted /\ UNCHANGED <<history, pruned>>)
    <3>1. /\ Retire /\ history' = [entries |-> Append(history.entries, dir.mpc), new |-> FALSE]
          /\ UNCHANGED pruned /\ call.pc = "rename"
      BY <1>11, <2>2 DEF Rename
    <3>2. Append(history.entries, dir.mpc) \in Seq(0 .. Apps)
          /\ Len(Append(history.entries, dir.mpc)) = Len(history.entries) + 1
      BY <1>0, <1>h
    <3>3. history' \in [entries : Seq(0 .. Apps), new : BOOLEAN] /\ Len(history'.entries) <= HistoryEntries
      BY <1>0, <1>00, <1>h, <3>1, <3>2
    <3>4. call' \in Callees /\ call'.pc = "remove"
      <4>1. \E s \in Seq(Folder \cup {"state", "snapshot"}) : call' = [call EXCEPT !.pc = "remove", !.todo = s]
        BY <3>1, TodoTypes DEF Retire
      <4>2. "remove" \in CallPcs
        BY DEF CallPcs
      <4> QED BY <1>0, <4>1, <4>2 DEF Callees
    <3> QED BY <1>0, <1>1, <1>2, <1>3, <1>4, <1>5, <3>1, <3>3, <3>4, Types, TypesNext
  <2> QED BY <2>1, <2>2
<1> QED BY <1>8, <1>9, <1>10, <1>11, CallKeeps DEF Copy

\* Which variables the operator's script writes.
LEMMA OperatorKeeps ==
    ASSUME TypeInv, OperatorStep
    PROVE  /\ UNCHANGED <<history, boot, interrupts, pruned>>
           /\ own' = own \/ StartOwner
           /\ sessions' = sessions \/ StartOwner
           /\ app' = app \/ (StopAwait /\ IdApp /\ app' = [app EXCEPT ![dir.mpc] = "bad"])
           /\ \/ bridge' = bridge
              \/ StopKill /\ IdBridge /\ bridge' = [bridge EXCEPT ![dir.bridge].st = "bad"]
           /\ adapter' = adapter \/ adapter' = NoAdapter
           /\ \/ tmp' = tmp
              \/ op.pc = "snapshot" /\ tmp' = [tmp EXCEPT !.snapshot = 1]
              \/ op.pc = "seal" /\ tmp' = [tmp EXCEPT !.snapshot = 2]
              \/ StopClose /\ tmp' = [tmp EXCEPT !.stop = TRUE]
           /\ acvs' = acvs \/ (StartStock /\ acvs' = FALSE) \/ (StopRecover /\ ~MpcRunning /\ acvs' = TRUE)
           /\ lock' \in {lock, 0}
           /\ op' = Idle \/ \E p \in OpPcs, c, o \in BOOLEAN : op' = [op EXCEPT !.pc = p, !.clean = c, !.owned = o]
           /\ \/ call' = call \/ call' = NoCall
              \/ Archives(TRUE) \/ \E p \in {"stop", "start", "route"} : call' = [NoCall EXCEPT !.pc = p]
<1>0. op \in Ops /\ op.clean \in BOOLEAN /\ op.owned \in BOOLEAN /\ tmp.closed \in BOOLEAN
      /\ call.ok \in BOOLEAN
  BY Types DEF Ops, Memory, Callees
<1>p. {"entry", "prior", "stock", "old", "snapshot", "seal", "id", "boot", "fresh",
       "fork", "locator", "adapter", "drained", "close", "closing", "kill", "term", "await",
       "receipt", "recover", "recovered", "stopped", "started", "routed"} \subseteq OpPcs
  BY DEF OpPcs
<1> DEFINE Goes == op' = Idle \/ \E p \in OpPcs, c, o \in BOOLEAN :
                                    op' = [op EXCEPT !.pc = p, !.clean = c, !.owned = o]
<1>1. ASSUME NEW p \in OpPcs, NEW c \in BOOLEAN,
             op' = [op EXCEPT !.pc = p] \/ op' = [op EXCEPT !.pc = p, !.clean = c]
      PROVE  Goes
  <2>1. [op EXCEPT !.pc = p] = [op EXCEPT !.pc = p, !.clean = op.clean, !.owned = op.owned]
    BY <1>0 DEF Ops
  <2>2. [op EXCEPT !.pc = p, !.clean = c] = [op EXCEPT !.pc = p, !.clean = c, !.owned = op.owned]
    BY <1>0 DEF Ops
  <2> QED BY <1>0, <1>1, <2>1, <2>2
<1> HIDE DEF Goes
<1>2. CASE StartEntry \/ StartPrior \/ StartStock \/ StartOld
  <2>1. Goes
    BY <1>0, <1>1, <1>2, <1>p DEF StartEntry, StartPrior, StartStock, StartOld, Finish, GotoOp, Goes
  <2>2. UNCHANGED <<history, boot, interrupts, pruned, own, sessions, app, bridge, tmp>>
    BY <1>2 DEF StartEntry, StartPrior, StartStock, StartOld, OpFrame
  <2>3. /\ adapter' = adapter \/ adapter' = NoAdapter
        /\ acvs' = acvs \/ (StartStock /\ acvs' = FALSE)
        /\ lock' \in {lock, 0}
        /\ call' = call \/ call' = NoCall \/ Archives(TRUE)
    BY <1>2 DEF StartEntry, StartPrior, StartStock, StartOld, Finish, Unlock, GotoOp, Returned, StopAdapter
  <2> QED BY <2>1, <2>2, <2>3 DEF Goes
<1>3. CASE StartRecord \/ StartOwner \/ StartLocator
  <2>1. Goes
    BY <1>0, <1>1, <1>3, <1>p DEF StartRecord, StartOwner, StartLocator, Finish, GotoOp, Goes
  <2> QED BY <1>3, <2>1 DEF StartRecord, StartOwner, StartLocator, OpFrame, Finish, Unlock, GotoOp, Goes
<1>4. CASE StopRevoke \/ StopAdapterFirst \/ StopTerm \/ StopRecover \/ StopReport
  <2>1. Goes
    BY <1>0, <1>1, <1>4, <1>p DEF StopRevoke, StopAdapterFirst, StopTerm, StopRecover, StopReport,
       Finish, GotoOp, Goes
  <2> QED BY <1>4, <2>1 DEF StopRevoke, StopAdapterFirst, StopTerm, StopRecover, StopReport, StopFrame,
         Finish, Unlock, GotoOp, Goes, Calls, StopAdapter
<1>5. CASE StopOwned
  <2>1. Goes
    <3>1. IdApp \in BOOLEAN /\ (call.ok /\ IdApp) \in BOOLEAN
      BY <1>0 DEF IdApp, SameBoot
    <3>2. op' = Idle \/ \E p \in {"close", "kill"}, c, o \in BOOLEAN :
                           op' = [op EXCEPT !.pc = p, !.owned = o, !.clean = c]
      BY <1>5, <3>1 DEF StopOwned, Finish
    <3>3. ASSUME NEW p \in {"close", "kill"}, NEW c \in BOOLEAN, NEW o \in BOOLEAN
          PROVE  [op EXCEPT !.pc = p, !.owned = o, !.clean = c] = [op EXCEPT !.pc = p, !.clean = c, !.owned = o]
      BY <1>0 DEF Ops
    <3>4. CASE op' # Idle
      <4>1. PICK p \in {"close", "kill"}, c \in BOOLEAN, o \in BOOLEAN :
                    op' = [op EXCEPT !.pc = p, !.owned = o, !.clean = c]
        BY <3>2, <3>4
      <4>2. op' = [op EXCEPT !.pc = p, !.clean = c, !.owned = o] /\ p \in OpPcs
        BY <1>p, <3>3, <4>1
      <4> QED BY <4>2 DEF Goes
    <3> QED BY <3>4 DEF Goes
  <2> QED BY <1>5, <2>1 DEF StopOwned, StopFrame, Finish, Unlock, Goes, Returned
<1>6. CASE StopClose \/ StopClosing \/ StopKill \/ StopAwait \/ StopReceipt
  <2>1. (op.clean /\ Receipted) \in BOOLEAN
    BY <1>0 DEF Receipted
  <2>2. Goes
    BY <1>0, <1>1, <1>6, <1>p, <2>1 DEF StopClose, StopClosing, StopKill, StopAwait, StopReceipt, Goes
  <2> QED BY <1>6, <2>2 DEF StopClose, StopClosing, StopKill, StopAwait, StopReceipt, StopFrame, Goes
<1>7. CASE ExplicitEntry \/ ExplicitStopped \/ ExplicitStarted \/ ExplicitRouted
  <2>1. Goes
    BY <1>0, <1>1, <1>7, <1>p DEF ExplicitEntry, ExplicitStopped, ExplicitStarted, ExplicitRouted,
       Finish, GotoOp, Goes
  <2>2. UNCHANGED <<history, boot, interrupts, pruned, own, sessions, app, bridge, tmp, adapter, acvs>>
    BY <1>7 DEF ExplicitEntry, ExplicitStopped, ExplicitStarted, ExplicitRouted, ExplicitFrame, OpFrame
  <2>3. lock' \in {lock, 0}
    BY <1>7 DEF ExplicitEntry, ExplicitStopped, ExplicitStarted, ExplicitRouted, Finish, Unlock, GotoOp
  <2>4. \/ call' = call \/ call' = NoCall
        \/ \E p \in {"stop", "start", "route"} : call' = [NoCall EXCEPT !.pc = p]
    BY <1>7 DEF ExplicitEntry, ExplicitStopped, ExplicitStarted, ExplicitRouted, Calls, Returned
  <2> QED BY <2>1, <2>2, <2>3, <2>4 DEF Goes
<1> QED BY <1>2, <1>3, <1>4, <1>5, <1>6, <1>7 DEF OperatorStep

\* A step of the operator's script keeps the types.
LEMMA OperatorTypes ==
    ASSUME TypeInv, OperatorStep
    PROVE  TypeInv'
<1>0. /\ tmp \in Memory /\ own \in [1 .. Sessions -> Owners] /\ lock \in 0 .. Operator
      /\ op \in Ops /\ call \in Callees /\ app \in [1 .. Apps -> AppStates]
      /\ bridge \in [1 .. Bridges -> BridgeStates] /\ adapter \in Adapters
      /\ dir.mpc \in 0 .. Apps /\ dir.bridge \in 0 .. Bridges /\ dir.id \in 0 .. sessions + 1
      /\ sessions \in 0 .. Sessions /\ acvs \in BOOLEAN
      /\ \A k \in 1 .. Sessions : k > sessions => own[k] = Unborn
  BY Types
<1>00. /\ Apps \in Nat /\ Bridges \in Nat /\ sessions \in Nat /\ Sessions \in Nat
       /\ 0 \in 0 .. Operator /\ NoAdapter \in Adapters /\ Idle \in Ops /\ NoCall \in Callees
       /\ NoCall.pc = "none" /\ Unborn \in Owners
  BY <1>0, Sizes, Records DEF Operator
<1>1. UNCHANGED <<history, boot, interrupts, pruned>>
  BY OperatorKeeps
<1>2. app' \in [1 .. Apps -> AppStates] /\ bridge' \in [1 .. Bridges -> BridgeStates]
  <2>1. [app EXCEPT ![dir.mpc] = "bad"] \in [1 .. Apps -> AppStates]
    BY <1>0 DEF AppStates
  <2>2. [bridge EXCEPT ![dir.bridge].st = "bad"] \in [1 .. Bridges -> BridgeStates]
    BY <1>0 DEF BridgeStates
  <2> QED BY <1>0, <2>1, <2>2, OperatorKeeps
<1>3. adapter' \in Adapters /\ lock' \in 0 .. Operator /\ acvs' \in BOOLEAN
  BY <1>0, <1>00, OperatorKeeps
<1>4. tmp' \in Memory
  <2>1. \A v \in 0 .. 2 : [tmp EXCEPT !.snapshot = v] \in Memory
    BY <1>0 DEF Memory
  <2>2. ASSUME NEW u \in Memory PROVE [u EXCEPT !.stop = TRUE] \in Memory
    BY DEF Memory
  <2>3. \/ tmp' = tmp \/ tmp' = [tmp EXCEPT !.stop = TRUE]
        \/ \E v \in {1, 2} : tmp' = [tmp EXCEPT !.snapshot = v]
    BY OperatorKeeps
  <2>4. {1, 2} \subseteq 0 .. 2
    OBVIOUS
  <2> QED BY <1>0, <2>1, <2>2, <2>3, <2>4
<1>5. op' \in Ops
  BY <1>0, <1>00, OperatorKeeps DEF Ops
<1>6. call' \in Callees /\ (call'.pc \notin {"copy", "rename"} \/ call' = call)
  <2>1. {"stop", "start", "route", "stage"} \subseteq CallPcs
    BY DEF CallPcs
  <2>2. ASSUME NEW u \in Callees, NEW p \in CallPcs \ {"copy", "rename"}, NEW b \in BOOLEAN
        PROVE  [u EXCEPT !.pc = p].pc \notin {"copy", "rename"}
               /\ [u EXCEPT !.pc = p, !.whole = b].pc \notin {"copy", "rename"}
    BY DEF Callees
  <2>3. ASSUME NEW p \in {"stop", "start", "route"}, call' = [NoCall EXCEPT !.pc = p]
        PROVE  call' \in Callees /\ call'.pc \notin {"copy", "rename"}
    BY <1>00, <2>1, <2>2, <2>3, CallRecords
  <2>4. ASSUME Archives(TRUE)
        PROVE  call' \in Callees /\ call'.pc \notin {"copy", "rename"}
    BY <1>00, <2>1, <2>2, <2>4, CallRecords DEF Archives
  <2> QED BY <1>0, <1>00, <2>3, <2>4, OperatorKeeps
<1>7. /\ sessions' \in 0 .. Sessions /\ sessions' >= sessions /\ own' \in [1 .. Sessions -> Owners]
      /\ \A k \in 1 .. Sessions : k > sessions' => own'[k] = Unborn
  <2>1. CASE StartOwner
    <3>1. sessions < Sessions /\ sessions' = sessions + 1
          /\ own' = [own EXCEPT ![sessions + 1] = [Unborn EXCEPT !.pc = "admit"]]
      BY <2>1 DEF StartOwner
    <3>2. [Unborn EXCEPT !.pc = "admit"] \in Owners
      <4>1. "admit" \in OwnPcs
        BY DEF OwnPcs
      <4>2. ASSUME NEW u \in Owners PROVE [u EXCEPT !.pc = "admit"] \in Owners
        BY <4>1 DEF Owners
      <4> QED BY <1>00, <4>2
    <3> QED BY <1>0, <1>00, <3>1, <3>2
  <2>2. CASE UNCHANGED <<own, sessions>>
    BY <1>0, <1>00, <2>2
  <2> QED BY <2>1, <2>2, OperatorKeeps
<1>8. dir' \in [Folder -> Places] /\ dir'.mpc \in 0 .. Apps /\ dir'.bridge \in 0 .. Bridges
      /\ dir'.id \in 0 .. sessions' + 1
  BY <1>0, <1>00, <1>7, OperatorDirs
<1> QED BY <1>1, <1>2, <1>3, <1>4, <1>5, <1>6, <1>7, <1>8, Types, TypesNext

\* A step of a process keeps the types.
LEMMA ProcessTypes ==
    ASSUME TypeInv, Processes
    PROVE  TypeInv'
<1>0. /\ tmp \in Memory /\ own \in [1 .. Sessions -> Owners] /\ app \in [1 .. Apps -> AppStates]
      /\ bridge \in [1 .. Bridges -> BridgeStates] /\ adapter \in Adapters
      /\ dir.mpc \in 0 .. Apps /\ dir.bridge \in 0 .. Bridges /\ dir.id \in 0 .. sessions + 1
      /\ \A k \in 1 .. Sessions : k > sessions => own[k] = Unborn
      /\ Apps \in Nat /\ NoState \in Memory /\ NoAdapter \in Adapters /\ Gone \in BridgeStates
  BY Types, Sizes, Records
<1>1. UNCHANGED <<history, boot, lock, sessions, op, call, acvs, interrupts, pruned>>
  BY ProcessesKeep
<1>2. dir' \in [Folder -> Places] /\ UNCHANGED <<dir.mpc, dir.id>> /\ dir'.bridge \in 0 .. Bridges
  BY <1>0, ProcessDirs, Sizes
<1>3. own' \in [1 .. Sessions -> Owners] /\ \A k \in 1 .. Sessions : k > sessions => own'[k] = Unborn
  <2>1. CASE \E k \in 1 .. Sessions : Wake(k)
    <3>1. PICK k \in 1 .. Sessions : Wake(k)
      BY <2>1
    <3>2. own' = [own EXCEPT ![k].pending = TRUE] /\ own[k].setup = 1 /\ Unborn.setup = 0
      BY <3>1 DEF Wake, Unborn
    <3>3. ~(k > sessions)
      BY <1>0, <3>2
    <3>4. own' \in [1 .. Sessions -> Owners]
      <4>1. own' = [own EXCEPT ![k] = [own[k] EXCEPT !.pending = TRUE]]
        BY <1>0, <3>2
      <4>2. [own[k] EXCEPT !.pending = TRUE] \in Owners
        BY <1>0 DEF Owners
      <4> QED BY <1>0, <4>1, <4>2
    <3>5. \A j \in 1 .. Sessions : j # k => own'[j] = own[j]
      BY <1>0, <3>2
    <3> QED BY <1>0, <3>3, <3>4, <3>5
  <2>2. CASE UNCHANGED own
    BY <1>0, <2>2
  <2> QED BY <2>1, <2>2 DEF Processes, AppExec, AppProgress, AppIntent, AppClose, AppExit, BridgeBegins,
          BridgeReady, BridgeExit, BridgeReceipt, AdapterExit, ScriptFrame
<1>4. app' \in [1 .. Apps -> AppStates] /\ tmp' \in Memory /\ bridge' \in [1 .. Bridges -> BridgeStates]
      /\ adapter' \in Adapters
  <2>1. CASE \E n \in 1 .. Apps : AppExec(n)
    <3>1. PICK n \in 1 .. Apps : AppExec(n)
      BY <2>1
    <3>2. tmp' = [NoState EXCEPT !.cmd = n, !.snapshot = tmp.snapshot] /\ app' = [app EXCEPT ![n] = "init"]
          /\ UNCHANGED <<bridge, adapter>>
      BY <3>1 DEF AppExec
    <3>3. tmp.snapshot \in 0 .. 2 /\ n \in 0 .. Apps
      BY <1>0 DEF Memory
    <3>4. ASSUME NEW u \in Memory, NEW m \in 0 .. Apps, NEW v \in 0 .. 2
          PROVE  [u EXCEPT !.cmd = m, !.snapshot = v] \in Memory
      BY DEF Memory
    <3> QED BY <1>0, <3>2, <3>3, <3>4 DEF AppStates
  <2>2. CASE \E n \in 1 .. Apps : AppProgress(n) \/ AppIntent(n) \/ AppClose(n) \/ AppExit(n)
    <3>1. PICK n \in 1 .. Apps : AppProgress(n) \/ AppIntent(n) \/ AppClose(n) \/ AppExit(n)
      BY <2>2
    <3>2. UNCHANGED <<bridge, adapter>>
      BY <3>1 DEF AppProgress, AppIntent, AppClose, AppExit
    <3>3. app' = app \/ \E v \in {"chooser", "ready", "ok", "bad"} : app' = [app EXCEPT ![n] = v]
      BY <3>1 DEF AppProgress, AppIntent, AppClose, AppExit
    <3>4. app' \in [1 .. Apps -> AppStates]
      BY <1>0, <3>3 DEF AppStates
    <3>5. \/ tmp' = tmp \/ tmp' = [tmp EXCEPT !.closed = TRUE]
          \/ \E v \in {1, 3} : tmp' = [tmp EXCEPT !.intent = v]
      BY <3>1 DEF AppProgress, AppIntent, AppClose, AppExit
    <3>6. [tmp EXCEPT !.closed = TRUE] \in Memory
          /\ \A v \in {1, 3} : [tmp EXCEPT !.intent = v] \in Memory
      <4>1. \A v \in {1, 3} : v \in 0 .. 3
        OBVIOUS
      <4> QED BY <1>0, <4>1 DEF Memory
    <3> QED BY <1>0, <3>2, <3>4, <3>5, <3>6
  <2>3. CASE \E b \in 1 .. Bridges : BridgeBegins(b) \/ BridgeReady(b) \/ BridgeExit(b) \/ BridgeReceipt(b)
    <3>1. PICK b \in 1 .. Bridges : BridgeBegins(b) \/ BridgeReady(b) \/ BridgeExit(b) \/ BridgeReceipt(b)
      BY <2>3
    <3>2. UNCHANGED <<app, tmp, adapter>>
      BY <3>1 DEF BridgeBegins, BridgeReady, BridgeExit, BridgeReceipt
    <3>3. CASE BridgeBegins(b)
      <4>1. bridge' = [bridge EXCEPT ![b] = [bridge[b] EXCEPT !.st = "up", !.app = tmp.cmd]]
        BY <1>0, <3>3 DEF BridgeBegins
      <4>2. [bridge[b] EXCEPT !.st = "up", !.app = tmp.cmd] \in BridgeStates
        BY <1>0 DEF BridgeStates, Memory
      <4> QED BY <1>0, <3>2, <4>1, <4>2
    <3>4. CASE BridgeReady(b) \/ BridgeExit(b)
      <4>1. \E v \in {"ready", "ok", "bad"} : bridge' = [bridge EXCEPT ![b].st = v]
        BY <3>4 DEF BridgeReady, BridgeExit
      <4>2. bridge' \in [1 .. Bridges -> BridgeStates]
        BY <1>0, <4>1 DEF BridgeStates
      <4> QED BY <1>0, <3>2, <4>2
    <3>5. CASE BridgeReceipt(b)
      BY <1>0, <3>2, <3>5 DEF BridgeReceipt
    <3> QED BY <3>1, <3>3, <3>4, <3>5
  <2>4. CASE AdapterExit
    BY <1>0, <2>4 DEF AdapterExit
  <2>5. CASE \E k \in 1 .. Sessions : Wake(k)
    BY <1>0, <2>5 DEF Wake
  <2> QED BY <2>1, <2>2, <2>3, <2>4, <2>5 DEF Processes
<1> QED BY <1>1, <1>2, <1>3, <1>4, Types, TypesNext

\* Every step keeps the types.
LEMMA TypesHold == TypeInv /\ [Next]_vars => TypeInv'
<1> SUFFICES ASSUME TypeInv, [Next]_vars PROVE TypeInv'
  OBVIOUS
<1>0. /\ own \in [1 .. Sessions -> Owners] /\ app \in [1 .. Apps -> AppStates]
      /\ bridge \in [1 .. Bridges -> BridgeStates]
      /\ NoState \in Memory /\ NoAdapter \in Adapters /\ Gone \in BridgeStates /\ Ended \in Owners
      /\ Idle \in Ops /\ NoCall \in Callees /\ NoCall.pc = "none" /\ Operator \in Nat /\ Operator >= 1
      /\ \A k \in 1 .. Sessions : k > sessions => own[k] = Unborn
  <2>1. Operator \in Nat /\ Operator >= 1
    BY Sizes DEF Operator
  <2> QED BY <2>1, Types, Records
<1>1. CASE UNCHANGED vars
  BY <1>1, Types, TypesNext DEF vars
<1>2. CASE Processes
  BY <1>2, ProcessTypes
<1>3. CASE Scripts
  BY <1>3, OperatorTypes, CallTypes, OwnerTypes DEF Scripts
<1>4. CASE Interrupt
  <2>1. interrupts' \in 0 .. Interrupts
    <3>1. interrupts \in 0 .. Interrupts /\ Interrupts \in Nat
      BY Types, Sizes
    <3> QED BY <1>4, <3>1 DEF Interrupt
  <2>2. op' = Idle /\ lock' = 0 /\ call' = NoCall
        /\ UNCHANGED <<dir, tmp, history, boot, own, app, bridge, adapter, acvs, sessions, pruned>>
    BY <1>4 DEF Interrupt
  <2>3. 0 \in 0 .. Operator
    BY <1>0
  <2> QED BY <1>0, <2>1, <2>2, <2>3, Types, TypesNext
<1>5. CASE PowerOff
  <2>1. boot' \in 1 .. Boots
    <3>1. boot \in 1 .. Boots /\ Boots \in Nat
      BY Types, Sizes
    <3> QED BY <1>5, <3>1, PowerOffLeaves
  <2>2. own' \in [1 .. Sessions -> Owners] /\ \A k \in 1 .. Sessions : k > sessions => own'[k] = Unborn
    <3>1. own' = [k \in 1 .. Sessions |-> IF own[k].pc = "unborn" THEN own[k] ELSE Ended]
      BY <1>5 DEF PowerOff
    <3> QED BY <1>0, <3>1, Records
  <2>3. app' \in [1 .. Apps -> AppStates]
    <3>1. app' = [n \in 1 .. Apps |-> IF Alive(n) THEN "bad" ELSE app[n]]
      BY <1>5 DEF PowerOff
    <3> QED BY <1>0, <3>1 DEF AppStates
  <2>4. bridge' \in [1 .. Bridges -> BridgeStates]
    <3>1. bridge' = [b \in 1 .. Bridges |-> IF bridge[b].st = "unborn" THEN bridge[b] ELSE Gone]
      BY <1>5 DEF PowerOff
    <3> QED BY <1>0, <3>1
  <2>5. 0 \in 0 .. Operator
    BY <1>0
  <2>6. /\ tmp' = NoState /\ lock' = 0 /\ op' = Idle /\ call' = NoCall /\ adapter' = NoAdapter
        /\ acvs' = TRUE /\ UNCHANGED <<dir, history, sessions, interrupts, pruned>>
    BY <1>5, PowerOffLeaves
  <2> QED BY <1>0, <2>1, <2>2, <2>3, <2>4, <2>5, <2>6, Types, TypesNext
<1>6. ASSUME NEW c \in Commands, Command(c) PROVE TypeInv'
  <2>1. UNCHANGED <<history, boot, own, app, bridge, interrupts, pruned, dir, tmp, call, sessions, adapter, acvs>>
    BY <1>6 DEF Command, OpFrame
  <2>2. lock' \in 0 .. Operator
    BY <1>0, <1>6 DEF Command
  <2>3. op' \in Ops
    <3>1. "entry" \in OpPcs /\ op' = [Idle EXCEPT !.cmd = c, !.pc = "entry", !.clean = TRUE]
      BY <1>6 DEF OpPcs, Command
    <3>2. ASSUME NEW u \in Ops PROVE [u EXCEPT !.cmd = c, !.pc = "entry", !.clean = TRUE] \in Ops
      BY <3>1 DEF Ops
    <3> QED BY <1>0, <3>1, <3>2
  <2> QED BY <2>1, <2>2, <2>3, Types, TypesNext
<1> QED BY <1>1, <1>2, <1>3, <1>4, <1>5, <1>6 DEF Next

\* The lock of mcu-session.sh: whatever starts, is killed or loses power, every file,
\* process and phase keeps its type, one script at a time is in the lock, and every
\* function has the caller that it was written for.
THEOREM LockExcludes == Spec => [](TypeInv /\ LockInv)
<1>1. Init => TypeInv /\ LockInv
  <2> SUFFICES ASSUME Init PROVE TypeInv /\ LockInv
    OBVIOUS
  <2>1. /\ dir = [f \in Folder |-> 0] /\ tmp = NoState
        /\ history = [entries |-> <<>>, new |-> FALSE] /\ pruned = {}
        /\ boot = 1 /\ lock = 0 /\ sessions = 0 /\ interrupts = 0 /\ acvs = TRUE
        /\ op = Idle /\ own = [k \in 1 .. Sessions |-> Unborn] /\ call = NoCall
        /\ app = [n \in 1 .. Apps |-> "unborn"]
        /\ bridge = [b \in 1 .. Bridges |-> [st |-> "unborn", app |-> 0]] /\ adapter = NoAdapter
    BY DEF Init
  <2>2. dir \in [Folder -> Places] /\ dir.mpc = 0 /\ dir.bridge = 0 /\ dir.id = 0
    BY <2>1, FolderIs, PlaceSizes DEF Files
  <2>3. history \in [entries : Seq(0 .. Apps), new : BOOLEAN] /\ Len(history.entries) = 0
        /\ 0 <= HistoryEntries
    BY <2>1, Sizes
  <2>4. app \in [1 .. Apps -> AppStates] /\ bridge \in [1 .. Bridges -> BridgeStates]
    BY <2>1, Sizes DEF AppStates, BridgeStates
  <2>5. boot \in 1 .. Boots /\ lock \in 0 .. Operator /\ sessions \in 0 .. Sessions
        /\ interrupts \in 0 .. Interrupts /\ {0} \subseteq 0 .. Apps /\ {0} \subseteq 0 .. Bridges
        /\ 0 \in 0 .. sessions + 1
    BY <2>1, Sizes DEF Operator
  <2>6. TypeInv
    BY <2>1, <2>2, <2>3, <2>4, <2>5, Types, Records
  <2>7. LockInv
    BY <2>1, Records DEF LockInv, Held, Visiting, Closing, StopCall, StartCall, RouteCall, ArchiveCall,
       NoCall
  <2> QED BY <2>6, <2>7
<1>2. TypeInv /\ LockInv /\ [Next]_vars => (TypeInv /\ LockInv)'
  BY TypesHold, LocksHold
<1> QED BY <1>1, <1>2, PTL DEF Spec

\* The phases and counts of every process and file stay within their types.
THEOREM SessionTypes == Spec => []TypeOK
<1>1. TypeInv /\ LockInv => TypeOK
  BY DEF TypeInv
<1> QED BY <1>1, LockExcludes, PTL

-----------------------------------------------------------------------------
(***************************************************************************)
(* Two applications never run together, no bridge or adapter of one is     *)
(* left when the next is launched, every application's evidence is kept,   *)
(* and a revoked session starts nothing: for any number of sessions,       *)
(* applications, boots and killed scripts.                                 *)
(*                                                                         *)
(* The lock keeps what its holder has checked, and its holder has checked  *)
(* enough: the application that runs is the one on record, tended by the   *)
(* session on record, and whoever archives or launches does it on bare     *)
(* ground.                                                                 *)
(*                                                                         *)
(* What "Session recovered; clean=1" stands on: stop takes the session     *)
(* apart piece by piece, and nothing it has taken down comes back before   *)
(* it reports.  The bridge's receipt needs PromptReceipts; the rest does   *)
(* not.                                                                    *)
(*                                                                         *)
(* "Only an exact consumed native New Project intent permits one next app":*)
(* SessionOwner implements LaunchPermit.                                   *)
(***************************************************************************)

\* From the launch of an application to its last sign of life.
Tending   == Visiting \cup {"exec", "poll", "tick"}

\* What start does between clearing the ground and leaving an owner.
Preparing == {"snapshot", "seal", "id", "boot", "fresh", "fork"}

\* stop does not run between an admission, or the check of bridge-start and of
\* configure, and what it admits.
AdmittedInv ==
    /\ \A k \in 1 .. Sessions : own[k].pc \in Visiting \cup {"spawn", "cleared", "consume"} =>
          Authorized(k)
    /\ \A k \in 1 .. Sessions : own[k].pc = "archived" => Authorized(k)
    /\ op.cmd \in {"bridge-start", "configure"} /\ op.pc # "entry" => dir.revoked = 0
    /\ call.pc \in StartCall \cup RouteCall => dir.revoked = 0

\* What archive_entry has still to remove: the session's files only for the
\* operator, the application's first, the session's name before the rest.
TodoInv ==
    call.pc = "remove" =>
        /\ \A i \in DOMAIN call.todo : call.todo[i] \in Range(SessionFiles) => call.whole
        /\ \A i \in DOMAIN call.todo : call.todo[i] \in {"boot", "revoked"} /\ dir.id # 0 =>
              \E j \in 1 .. i - 1 : call.todo[j] = "id"
        /\ dir.mpc # 0 =>
              /\ call.todo # <<>> /\ Head(call.todo) = "mpc"
              /\ dir.mpc \in Range(history.entries) \cup pruned

\* An application, its locator and the owner that tends it belong together.
Tended(n) == \E k \in 1 .. Sessions : dir.id = k /\ own[k].child = n /\ own[k].pc \in Tending
AppInv ==
    /\ \A n \in 1 .. Apps : Alive(n) => dir.mpc = n /\ SameBoot /\ ~acvs /\ Tended(n)
    /\ \A n \in 1 .. Apps : Running(n) => tmp.cmd = n
    /\ \A n \in 1 .. Apps : app[n] = "exec" =>
          tmp.cmd = 0 /\ \E k \in 1 .. Sessions : own[k].pc = "exec" /\ own[k].child = n
    /\ \A k \in 1 .. Sessions : dir.id = k /\ own[k].pc \in Tending \cup {"last"} =>
          own[k].child # 0 /\ dir.mpc \in {0, own[k].child}
    /\ \A k \in 1 .. Sessions : own[k].pc = "exec" => dir.id = k /\ dir.mpc = own[k].child /\ SameBoot
    /\ \A k \in 1 .. Sessions :
          dir.id = k /\ dir.mpc # 0 /\ own[k].pc \in Closing \cup {"reaped"} =>
             own[k].code = (app[dir.mpc] = "ok")

\* A bridge that is up is the one on record, and serves the application that runs.
BridgeInv ==
    /\ \A b \in 1 .. Bridges : Up(b) => dir.bridge = b /\ SameBoot
    /\ \A b \in 1 .. Bridges : bridge[b].st = "fork" =>
          /\ call.pc = "starting" /\ SameBoot
          /\ \A c \in 1 .. Bridges : c # b => bridge[c].st # "fork" /\ ~Up(c)

\* Before a launch nothing is left of an earlier application.
NoApp    == \A n \in 1 .. Apps : ~Alive(n)
NoBridge == \A b \in 1 .. Bridges : bridge[b].st # "fork" /\ ~Up(b)
Bare     == NoApp /\ NoBridge /\ adapter.st = "none"
GroundInv ==
    /\ op.pc \in {"prior", "stock"} => NoApp /\ NoBridge
    /\ op.pc \in {"old"} \cup Preparing => Bare
    /\ op.pc \in Preparing => dir.mpc = 0
    /\ op.pc \in {"boot", "fresh", "fork"} => dir.id = sessions + 1
    /\ op.pc \in {"fresh", "fork"} => SameBoot
    /\ op.pc = "fork" => dir.revoked = 0
    /\ \A k \in 1 .. Sessions : dir.id = k /\ own[k].pc \in {"admit", "launch", "spawn"} =>
          Bare /\ dir.mpc = 0 /\ SameBoot
    /\ \A k \in 1 .. Sessions : dir.id = k /\ OwnerBusy(k) => SameBoot
    /\ \A k \in 1 .. Sessions : own[k].pc = "spawn" => tmp.cmd = 0 /\ ~acvs
    /\ \A k \in 1 .. Sessions : own[k].pc = "cleared" => adapter.st = "none"
    /\ \A k \in 1 .. Sessions : own[k].pc \in {"consume", "archived"} => Bare /\ SameBoot
    /\ dir.id = 0 => dir.mpc = 0
    /\ call.pc = "done" /\ call.ok /\ (op.pc \in {"prior", "old"} \/ OwnerAt({"archived"})) =>
          dir.mpc = 0

SafetyInv == /\ AdmittedInv /\ TodoInv /\ AppInv /\ BridgeInv /\ GroundInv
             /\ GenerationsDoNotMix /\ EvidenceIsKept

\* What an owner has found before it lets a successor be launched.
Considered(k) == /\ own[k].code /\ Accepted /\ ~MpcRunning /\ ~acvs /\ ~BridgeLeft /\ call.pc = "done"
                 /\ adapter' = adapter

\* How an owner's phase moves, and what it has seen when it does.
LEMMA OwnerMoves ==
    ASSUME TypeInv, NEW k \in 1 .. Sessions, OwnerStep(k)
    PROVE  /\ own'[k].pc = "launch" => own[k].pc = "admit" \/ (own[k].pc = "archived" /\ call.pc = "done" /\ call.ok)
           /\ own'[k].pc = "spawn" => own[k].pc = "launch" /\ Authorized(k) /\ tmp.cmd = 0 /\ ~MpcRunning /\ ~acvs
           /\ own'[k].pc \in Visiting => own[k].pc \in Visiting \/ (own[k].pc = "tick" /\ Authorized(k))
           /\ own'[k].pc = "cleared" => own[k].pc = "departed" /\ Authorized(k) /\ adapter'.st = "none"
           /\ own'[k].pc = "consume" => own[k].pc = "cleared" /\ Considered(k)
           /\ own'[k].pc = "archived" => own[k].pc = "consume" /\ Authorized(k) /\ Accepted /\ Archives(FALSE)
           /\ own'[k].pc \in Tending => own[k].pc \in Tending \/ Spawn(k)
           /\ own'[k].pc = "last" => own[k].pc = "exec" /\ ~IdApp
           /\ own'[k].pc \in Closing \cup {"reaped"} => own[k].pc \in Closing \cup {"reaped"} \/ Reap(k)
           /\ own[k].pc \in Tending => own'[k].pc \in Tending \cup {"last"} \/ Reap(k)
           /\ own'[k].pc = "exec" => Spawn(k)
           /\ own[k].pc = "exec" => own'[k].pc \in {"poll", "last"} /\ Crossed(k)
           /\ own'[k].pc # "admit"
<1>0. own \in [1 .. Sessions -> Owners] /\ Ended.pc = "end" /\ own[k] \in Owners
      /\ Ended \in Owners /\ NoAdapter.st = "none" /\ Unborn \in Owners
  BY Types, Records
<1>g. \A p : Goto(k, p) => own'[k].pc = p
  BY <1>0 DEF Goto, Owners
<1>d. Dismiss(k) => own'[k].pc = "end"
  BY <1>0 DEF Dismiss
<1>w1. ASSUME NEW p, NEW v, own' = [own EXCEPT ![k].pc = p, ![k].setup = v]
      PROVE  own'[k].pc = p
  <2>1. own' = [own EXCEPT ![k] = [own[k] EXCEPT !.pc = p, !.setup = v]]
    BY <1>0, <1>w1
  <2>2. [own[k] EXCEPT !.pc = p, !.setup = v].pc = p
    BY <1>0 DEF Owners
  <2> QED BY <1>0, <2>1, <2>2
<1>w2. ASSUME NEW p, NEW v, own' = [own EXCEPT ![k].pc = p, ![k].seen = v]
      PROVE  own'[k].pc = p
  <2>1. own' = [own EXCEPT ![k] = [own[k] EXCEPT !.pc = p, !.seen = v]]
    BY <1>0, <1>w2
  <2>2. [own[k] EXCEPT !.pc = p, !.seen = v].pc = p
    BY <1>0 DEF Owners
  <2> QED BY <1>0, <2>1, <2>2
<1>w3. ASSUME NEW p, NEW v, own' = [own EXCEPT ![k].pc = p, ![k].pending = v]
      PROVE  own'[k].pc = p
  <2>1. own' = [own EXCEPT ![k] = [own[k] EXCEPT !.pc = p, !.pending = v]]
    BY <1>0, <1>w3
  <2>2. [own[k] EXCEPT !.pc = p, !.pending = v].pc = p
    BY <1>0 DEF Owners
  <2> QED BY <1>0, <2>1, <2>2
<1>w4. ASSUME NEW p, NEW v, own' = [own EXCEPT ![k].pc = p, ![k].tried = v]
      PROVE  own'[k].pc = p
  <2>1. own' = [own EXCEPT ![k] = [own[k] EXCEPT !.pc = p, !.tried = v]]
    BY <1>0, <1>w4
  <2>2. [own[k] EXCEPT !.pc = p, !.tried = v].pc = p
    BY <1>0 DEF Owners
  <2> QED BY <1>0, <2>1, <2>2
<1>w5. ASSUME NEW p, NEW v, own' = [own EXCEPT ![k].pc = p, ![k].ready = v]
      PROVE  own'[k].pc = p
  <2>1. own' = [own EXCEPT ![k] = [own[k] EXCEPT !.pc = p, !.ready = v]]
    BY <1>0, <1>w5
  <2>2. [own[k] EXCEPT !.pc = p, !.ready = v].pc = p
    BY <1>0 DEF Owners
  <2> QED BY <1>0, <2>1, <2>2
<1>1. CASE OwnerAdmit(k)
  <2>0. /\ own[k].pc = "admit"
        /\ \/ Goto(k, "launch")
    BY <1>1 DEF OwnerAdmit
  <2>1. /\ own[k].pc = "admit"
        /\ own'[k].pc = "launch"
    BY <2>0, <1>g, <1>d
  <2> QED BY <1>1, <2>1 DEF Visiting, Closing, Tending
<1>2. CASE Launch(k)
  <2>0. /\ own[k].pc = "launch"
        /\ \/ Dismiss(k)
           \/ Goto(k, "spawn") /\ Authorized(k) /\ tmp.cmd = 0 /\ ~MpcRunning /\ ~acvs
    BY <1>2 DEF Launch, Quit
  <2>1. /\ own[k].pc = "launch"
        /\ \/ own'[k].pc = "end"
           \/ own'[k].pc = "spawn" /\ Authorized(k) /\ tmp.cmd = 0 /\ ~MpcRunning /\ ~acvs
    BY <2>0, <1>g, <1>d
  <2> QED BY <1>2, <2>1 DEF Visiting, Closing, Tending
<1>3. CASE Spawn(k)
  <2>1. /\ own[k].pc = "spawn"
        /\ own'[k].pc = "exec"
    <3>1. PICK n \in 1 .. Apps : own' = [own EXCEPT ![k] = [Unborn EXCEPT !.pc = "exec", !.child = n,
                                                                   !.pending = own[k].pending]]
      BY <1>3 DEF Spawn
    <3>2. ASSUME NEW u \in Owners, NEW m, NEW d PROVE [u EXCEPT !.pc = "exec", !.child = m, !.pending = d].pc = "exec"
      BY DEF Owners
    <3> QED BY <1>0, <1>3, <3>1, <3>2 DEF Spawn
  <2> QED BY <1>3, <2>1 DEF Visiting, Closing, Tending
<1>4. CASE ExecWait(k)
  <2>0. /\ own[k].pc = "exec"
        /\ \/ Goto(k, "poll")
           \/ Goto(k, "last") /\ ~IdApp
    BY <1>4 DEF ExecWait
  <2>1. /\ own[k].pc = "exec"
        /\ (own'[k].pc = "poll" \/ (own'[k].pc = "last" /\ ~IdApp))
    BY <2>0, <1>g, <1>d
  <2> QED BY <1>4, <2>1 DEF Visiting, Closing, Tending, Crossed, ExecWait
<1>5. CASE LastReceipt(k)
  <2>0. /\ own[k].pc = "last"
        /\ \/ Dismiss(k)
    BY <1>5 DEF LastReceipt
  <2>1. /\ own[k].pc = "last"
        /\ own'[k].pc = "end"
    BY <2>0, <1>g, <1>d
  <2> QED BY <1>5, <2>1 DEF Visiting, Closing, Tending
<1>6. CASE Poll(k)
  <2>0. /\ own[k].pc = "poll"
        /\ \/ Goto(k, "tick")
    BY <1>6 DEF Poll
  <2>1. /\ own[k].pc = "poll"
        /\ own'[k].pc = "tick"
    BY <2>0, <1>g, <1>d
  <2> QED BY <1>6, <2>1 DEF Visiting, Closing, Tending
<1>7. CASE Tick(k)
  <2>0. /\ own[k].pc = "tick"
        /\ \/ Goto(k, "poll")
           \/ own' = [own EXCEPT ![k].pc = "poll", ![k].seen = TRUE]
           \/ Goto(k, "status") /\ Authorized(k)
    BY <1>7 DEF Tick
  <2>1. /\ own[k].pc = "tick"
        /\ \/ own'[k].pc = "poll"
           \/ own'[k].pc = "status" /\ Authorized(k)
    BY <2>0, <1>g, <1>d, <1>w2
  <2> QED BY <1>7, <2>1 DEF Visiting, Closing, Tending
<1>8. CASE Visit(k)
  <2>1. /\ own[k].pc = "status"
        /\ \/ own'[k].pc = "apply"
           \/ own'[k].pc = "setup"
           \/ own'[k].pc = "leave"
    <3> DEFINE Seen(code) == [own[k] EXCEPT !.seen = @ \/ code = 6, !.ready = code = 0]
    <3>1. \E code \in Status :
             \/ \E p \in {"apply", "setup", "leave"} : own' = [own EXCEPT ![k] = [Seen(code) EXCEPT !.pc = p]]
             \/ own' = [own EXCEPT ![k] = [Seen(code) EXCEPT !.pc = "leave", !.setup = 2]]
      BY <1>8 DEF Visit
    <3>2. \A code : Seen(code) \in Owners
      BY <1>0 DEF Owners
    <3> HIDE DEF Seen
    <3>3. ASSUME NEW u \in Owners, NEW p, own' = [own EXCEPT ![k] = [u EXCEPT !.pc = p]]
          PROVE  own'[k].pc = p
      BY <1>0, <3>3 DEF Owners
    <3>4. ASSUME NEW u \in Owners, own' = [own EXCEPT ![k] = [u EXCEPT !.pc = "leave", !.setup = 2]]
          PROVE  own'[k].pc = "leave"
      BY <1>0, <3>4 DEF Owners
    <3>5. own'[k].pc \in {"apply", "setup", "leave"}
      <4>1. PICK code \in Status :
               \/ \E p \in {"apply", "setup", "leave"} : own' = [own EXCEPT ![k] = [Seen(code) EXCEPT !.pc = p]]
               \/ own' = [own EXCEPT ![k] = [Seen(code) EXCEPT !.pc = "leave", !.setup = 2]]
        BY <3>1
      <4> QED BY <3>2, <3>3, <3>4, <4>1
    <3>6. own[k].pc = "status"
      BY <1>8 DEF Visit
    <3> QED BY <3>5, <3>6
  <2> QED BY <1>8, <2>1 DEF Visiting, Closing, Tending
<1>9. CASE Setup(k)
  <2>0. /\ own[k].pc = "setup"
        /\ \/ Goto(k, "wired")
           \/ Goto(k, "leave")
           \/ own' = [own EXCEPT ![k].pc = "leave", ![k].setup = 2]
    BY <1>9 DEF Setup
  <2>1. /\ own[k].pc = "setup"
        /\ (own'[k].pc = "wired" \/ own'[k].pc = "leave")
    BY <2>0, <1>g, <1>d, <1>w1
  <2> QED BY <1>9, <2>1 DEF Visiting, Closing, Tending
<1>10. CASE Wired(k)
  <2>0. /\ own[k].pc = "wired"
        /\ \/ Goto(k, "apply")
           \/ own' = [own EXCEPT ![k].pc = "apply", ![k].setup = 1]
           \/ Goto(k, "leave")
           \/ own' = [own EXCEPT ![k].pc = "leave", ![k].setup = 2]
    BY <1>10 DEF Wired
  <2>1. /\ own[k].pc = "wired"
        /\ (own'[k].pc = "apply" \/ own'[k].pc = "leave")
    BY <2>0, <1>g, <1>d, <1>w1
  <2> QED BY <1>10, <2>1 DEF Visiting, Closing, Tending
<1>11. CASE Apply(k)
  <2>0. /\ own[k].pc = "apply"
        /\ \/ Goto(k, "drained")
           \/ own' = [own EXCEPT ![k].pc = "drained", ![k].pending = FALSE]
           \/ Goto(k, "offer")
           \/ own' = [own EXCEPT ![k].pc = "offer", ![k].pending = FALSE]
    BY <1>11 DEF Apply
  <2>1. /\ own[k].pc = "apply"
        /\ (own'[k].pc = "drained" \/ own'[k].pc = "offer")
    BY <2>0, <1>g, <1>d, <1>w3
  <2> QED BY <1>11, <2>1 DEF Visiting, Closing, Tending
<1>12. CASE Reapply(k)
  <2>0. /\ own[k].pc = "drained"
        /\ \/ Goto(k, "rewired")
           \/ Goto(k, "leave")
           \/ own' = [own EXCEPT ![k].pc = "leave", ![k].setup = 2]
    BY <1>12 DEF Reapply
  <2>1. /\ own[k].pc = "drained"
        /\ (own'[k].pc = "rewired" \/ own'[k].pc = "leave")
    BY <2>0, <1>g, <1>d, <1>w1
  <2> QED BY <1>12, <2>1 DEF Visiting, Closing, Tending
<1>13. CASE Reapplied(k)
  <2>0. /\ own[k].pc = "rewired"
        /\ \/ Goto(k, "offer")
           \/ Goto(k, "leave")
           \/ own' = [own EXCEPT ![k].pc = "leave", ![k].setup = 2]
    BY <1>13 DEF Reapplied
  <2>1. /\ own[k].pc = "rewired"
        /\ (own'[k].pc = "offer" \/ own'[k].pc = "leave")
    BY <2>0, <1>g, <1>d, <1>w1
  <2> QED BY <1>13, <2>1 DEF Visiting, Closing, Tending
<1>14. CASE Offer(k)
  <2>0. /\ own[k].pc = "offer"
        /\ \/ Goto(k, "offered")
           \/ own' = [own EXCEPT ![k].pc = "offered", ![k].tried = TRUE]
           \/ Goto(k, "leave")
    BY <1>14 DEF Offer
  <2>1. /\ own[k].pc = "offer"
        /\ (own'[k].pc = "offered" \/ own'[k].pc = "leave")
    BY <2>0, <1>g, <1>d, <1>w4
  <2> QED BY <1>14, <2>1 DEF Visiting, Closing, Tending
<1>15. CASE Offered(k)
  <2>0. /\ own[k].pc = "offered"
        /\ \/ Goto(k, "leave")
    BY <1>15 DEF Offered
  <2>1. /\ own[k].pc = "offered"
        /\ own'[k].pc = "leave"
    BY <2>0, <1>g, <1>d
  <2> QED BY <1>15, <2>1 DEF Visiting, Closing, Tending
<1>16. CASE LeaveVisit(k)
  <2>0. /\ own[k].pc = "leave"
        /\ \/ Goto(k, "poll")
           \/ own' = [own EXCEPT ![k].pc = "poll", ![k].ready = FALSE]
    BY <1>16 DEF LeaveVisit, Goto
  <2>1. /\ own[k].pc = "leave"
        /\ own'[k].pc = "poll"
    BY <2>0, <1>g, <1>d, <1>w5
  <2> QED BY <1>16, <2>1 DEF Visiting, Closing, Tending
<1>17. CASE Reap(k)
  <2>1. /\ own[k].pc = "poll"
        /\ own'[k].pc = "reaped"
    <3>1. own' = [own EXCEPT ![k] = [Unborn EXCEPT !.pc = "reaped", !.pending = own[k].pending,
                                                   !.code = app[own[k].child] = "ok"]]
      BY <1>17 DEF Reap
    <3>2. ASSUME NEW u \in Owners, NEW m, NEW d PROVE [u EXCEPT !.pc = "reaped", !.pending = d, !.code = m].pc = "reaped"
      BY DEF Owners
    <3> QED BY <1>0, <1>17, <3>1, <3>2 DEF Reap
  <2> QED BY <1>17, <2>1 DEF Visiting, Closing, Tending
<1>18. CASE Departed(k)
  <2>0. /\ own[k].pc = "reaped"
        /\ \/ Goto(k, "departed")
    BY <1>18 DEF Departed
  <2>1. /\ own[k].pc = "reaped"
        /\ own'[k].pc = "departed"
    BY <2>0, <1>g, <1>d
  <2> QED BY <1>18, <2>1 DEF Visiting, Closing, Tending
<1>19. CASE Clear(k)
  <2>0. /\ own[k].pc = "departed"
        /\ \/ Dismiss(k)
           \/ Goto(k, "cleared") /\ Authorized(k) /\ adapter'.st = "none"
    BY <1>0, <1>19 DEF Clear, Quit, StopAdapter
  <2>1. /\ own[k].pc = "departed"
        /\ \/ own'[k].pc = "end"
           \/ own'[k].pc = "cleared" /\ Authorized(k) /\ adapter'.st = "none"
    BY <2>0, <1>g, <1>d
  <2> QED BY <1>19, <2>1 DEF Visiting, Closing, Tending
<1>20. CASE Consider(k)
  <2>0. /\ own[k].pc = "cleared"
        /\ \/ Dismiss(k)
           \/ Goto(k, "consume") /\ Considered(k)
    BY <1>20 DEF Consider, Quit, Considered, Earned, Returned
  <2>1. /\ own[k].pc = "cleared"
        /\ \/ own'[k].pc = "end"
           \/ own'[k].pc = "consume" /\ Considered(k)
    BY <2>0, <1>g, <1>d
  <2> QED BY <1>20, <2>1 DEF Visiting, Closing, Tending
<1>21. CASE Consume(k)
  <2>0. /\ own[k].pc = "consume"
        /\ \/ Dismiss(k)
           \/ Goto(k, "archived") /\ Authorized(k) /\ Accepted /\ Archives(FALSE)
    BY <1>21 DEF Consume, Quit
  <2>1. /\ own[k].pc = "consume"
        /\ \/ own'[k].pc = "end"
           \/ own'[k].pc = "archived" /\ Authorized(k) /\ Accepted /\ Archives(FALSE)
    BY <2>0, <1>g, <1>d
  <2> QED BY <1>21, <2>1 DEF Visiting, Closing, Tending
<1>22. CASE Archived(k)
  <2>0. /\ own[k].pc = "archived"
        /\ \/ Dismiss(k)
           \/ Goto(k, "launch") /\ call.pc = "done" /\ call.ok
    BY <1>22 DEF Archived, Quit, Returned
  <2>1. /\ own[k].pc = "archived"
        /\ \/ own'[k].pc = "end"
           \/ own'[k].pc = "launch" /\ call.pc = "done" /\ call.ok
    BY <2>0, <1>g, <1>d
  <2> QED BY <1>22, <2>1 DEF Visiting, Closing, Tending
<1> QED BY <1>1, <1>2, <1>3, <1>4, <1>5, <1>6, <1>7, <1>8, <1>9, <1>10, <1>11, <1>12, <1>13, <1>14, <1>15, <1>16, <1>17, <1>18, <1>19, <1>20, <1>21, <1>22 DEF OwnerStep

\* An owner enters a function only when none is entered or the last has returned, and
\* what starts or arms only on a visit.
LEMMA OwnerCalls ==
    ASSUME TypeInv, NEW k \in 1 .. Sessions, OwnerStep(k)
    PROVE  \/ call' = call
           \/ /\ call.pc \in {"none", "done"} /\ call'.pc \in {"none", "stop", "start", "route", "stage"}
              /\ call'.whole = FALSE
              /\ call'.pc \in {"start", "route"} => own[k].pc \in Visiting
              /\ call'.pc = "stage" => own[k].pc = "consume"
<1>0. NoCall \in Callees /\ NoCall.pc = "none" /\ NoCall.whole = FALSE
  BY Records DEF NoCall
<1>1. ASSUME NEW p PROVE /\ [NoCall EXCEPT !.pc = p].pc = p /\ [NoCall EXCEPT !.pc = p].whole = FALSE
                         /\ [NoCall EXCEPT !.pc = p, !.whole = FALSE].pc = p
                         /\ [NoCall EXCEPT !.pc = p, !.whole = FALSE].whole = FALSE
  BY DEF NoCall
<1>c. \A p : Calls(p) => call.pc = "none" /\ call'.pc = p /\ call'.whole = FALSE
  BY <1>0, <1>1 DEF Calls
<1>a. Archives(FALSE) => call.pc = "none" /\ call'.pc = "stage" /\ call'.whole = FALSE
  BY <1>0, <1>1 DEF Archives
<1>r. Returned => call.pc = "done" /\ call'.pc = "none" /\ call'.whole = FALSE
  BY <1>0 DEF Returned
<1>2. CASE OwnerAdmit(k) \/ Launch(k) \/ Spawn(k) \/ ExecWait(k) \/ LastReceipt(k) \/ Poll(k) \/ Tick(k)
           \/ Visit(k) \/ LeaveVisit(k) \/ Reap(k) \/ Departed(k)
  BY <1>2 DEF OwnerAdmit, Launch, Spawn, ExecWait, LastReceipt, Poll, Tick, Visit, LeaveVisit, Reap,
     Departed
<1>3. CASE Archived(k) \/ Wired(k) \/ Reapplied(k) \/ Offered(k) \/ Consider(k)
  BY <1>r, <1>3 DEF Archived, Wired, Reapplied, Offered, Consider
<1>4. CASE Setup(k)
  <2>1. call' = call \/ Calls("start")
    BY <1>4 DEF Setup
  <2> QED BY <1>c, <1>4, <2>1 DEF Setup, Visiting
<1>5. CASE Apply(k) \/ Clear(k)
  <2>1. call' = call \/ Calls("stop")
    BY <1>5 DEF Apply, Clear
  <2> QED BY <1>c, <2>1
<1>6. CASE Reapply(k)
  <2>1. Returned \/ (call.pc = "done" /\ call' = [NoCall EXCEPT !.pc = "start"])
    BY <1>6 DEF Reapply
  <2>2. call' = [NoCall EXCEPT !.pc = "start"] => call'.pc = "start" /\ call'.whole = FALSE
    BY <1>1
  <2>3. own[k].pc \in Visiting
    BY <1>6 DEF Reapply, Visiting
  <2> QED BY <1>r, <2>1, <2>2, <2>3
<1>7. CASE Offer(k)
  <2>1. call' = call \/ Calls("route")
    BY <1>7 DEF Offer
  <2> QED BY <1>c, <1>7, <2>1 DEF Offer, Visiting
<1>8. CASE Consume(k)
  <2>1. call' = call \/ Archives(FALSE)
    BY <1>8 DEF Consume
  <2> QED BY <1>a, <1>8, <2>1 DEF Consume
<1> QED BY <1>2, <1>3, <1>4, <1>5, <1>6, <1>7, <1>8 DEF OwnerStep

\* What the start command has found when it moves on.
LEMMA StartMoves ==
    ASSUME TypeInv, OperatorStep
    PROVE  /\ op'.pc = "prior" => op.pc = "entry" /\ ~IdApp /\ ~Refused /\ ~SameBoot /\ call'.pc = "stage"
           /\ op'.pc = "stock" => \/ op.pc = "entry" /\ ~IdApp /\ ~Refused /\ SameBoot
                                  \/ op.pc = "prior"
           /\ op'.pc = "old" => op.pc = "stock" /\ adapter'.st = "none" /\ call'.pc = "stage"
           /\ op'.pc = "snapshot" => \/ op.pc = "stock" /\ dir.id = 0 /\ adapter'.st = "none"
                                     \/ op.pc = "old" /\ call.pc = "done" /\ call.ok
           /\ op'.pc = "seal" => op.pc = "snapshot"
           /\ op'.pc = "id" => op.pc = "seal"
           /\ op'.pc = "boot" => op.pc = "id" /\ dir'.id = sessions + 1
           /\ op'.pc = "fresh" => op.pc = "boot" /\ dir'.boot = boot
           /\ op'.pc = "fork" => op.pc = "fresh" /\ dir'.revoked = 0
<1>0. op \in Ops /\ Idle.pc = "idle" /\ NoAdapter.st = "none" /\ NoCall \in Callees
      /\ dir \in [Folder -> Places] /\ Folder = Files
  BY Types, Records, FolderIs
<1>g. \A p : GotoOp(p) => op'.pc = p
  BY <1>0 DEF GotoOp, Ops
<1>f. Finish => op'.pc = "idle"
  BY <1>0 DEF Finish
<1>a. \A b : Archives(b) => call'.pc = "stage"
  <2>1. ASSUME NEW u \in Callees, NEW b PROVE [u EXCEPT !.pc = "stage", !.whole = b].pc = "stage"
    BY DEF Callees
  <2> QED BY <1>0, <2>1 DEF Archives
<1>1. CASE StartEntry
  <2>1. \/ Finish
        \/ op.pc = "entry" /\ ~IdApp /\ ~Refused /\ SameBoot /\ GotoOp("stock")
        \/ op.pc = "entry" /\ ~IdApp /\ ~Refused /\ ~SameBoot /\ GotoOp("prior") /\ Archives(TRUE)
    BY <1>1 DEF StartEntry
  <2> QED BY <1>g, <1>f, <1>a, <2>1
<1>2. CASE StartPrior
  <2>1. Finish \/ (op.pc = "prior" /\ GotoOp("stock"))
    BY <1>2 DEF StartPrior
  <2> QED BY <1>g, <1>f, <2>1
<1>3. CASE StartStock
  <2>1. \/ Finish
        \/ op.pc = "stock" /\ adapter' = NoAdapter /\ GotoOp("old") /\ Archives(TRUE)
        \/ op.pc = "stock" /\ adapter' = NoAdapter /\ dir.id = 0 /\ GotoOp("snapshot")
    BY <1>3 DEF StartStock, StopAdapter
  <2> QED BY <1>0, <1>g, <1>f, <1>a, <2>1
<1>4. CASE StartOld
  <2>1. Finish \/ (op.pc = "old" /\ call.pc = "done" /\ call.ok /\ GotoOp("snapshot"))
    BY <1>4 DEF StartOld, Returned
  <2> QED BY <1>g, <1>f, <2>1
<1>5. CASE StartRecord
  <2>1. \/ op.pc = "snapshot" /\ GotoOp("seal")
        \/ op.pc = "seal" /\ GotoOp("id")
        \/ op.pc = "id" /\ GotoOp("boot") /\ dir' = [dir EXCEPT !.id = sessions + 1]
        \/ op.pc = "boot" /\ GotoOp("fresh") /\ dir' = [dir EXCEPT !.boot = boot]
        \/ op.pc = "fresh" /\ GotoOp("fork") /\ dir' = [dir EXCEPT !.revoked = 0]
    BY <1>5 DEF StartRecord
  <2> QED BY <1>0, <1>g, <2>1 DEF Files
<1>7. CASE StartOwner \/ StartLocator \/ StopRevoke \/ StopAdapterFirst \/ StopTerm \/ StopRecover \/ StopReport
  <2>1. Finish \/ \E p \in {"locator", "adapter", "drained", "await", "recovered"} : GotoOp(p)
    BY <1>7 DEF StartOwner, StartLocator, StopRevoke, StopAdapterFirst, StopTerm, StopRecover, StopReport
  <2> QED BY <1>g, <1>f, <2>1
<1>8. CASE ExplicitEntry \/ ExplicitStopped \/ ExplicitStarted \/ ExplicitRouted
  <2>1. Finish \/ \E p \in {"stopped", "started", "routed"} : GotoOp(p)
    BY <1>8 DEF ExplicitEntry, ExplicitStopped, ExplicitStarted, ExplicitRouted
  <2> QED BY <1>g, <1>f, <2>1
<1>9. CASE StopOwned \/ StopClose \/ StopClosing \/ StopKill \/ StopAwait \/ StopReceipt
  <2>1. op'.pc \in {"idle", "close", "closing", "kill", "term", "receipt", "recover"}
    <3>1. CASE StopOwned
      <4>1. Finish \/ \E p \in {"close", "kill"} : \E o, c : op' = [op EXCEPT !.pc = p, !.owned = o, !.clean = c]
        BY <3>1 DEF StopOwned
      <4> QED BY <1>0, <1>f, <4>1 DEF Ops
    <3>2. CASE StopClose \/ StopClosing \/ StopKill
      <4>1. \E p \in {"closing", "kill", "term"} : \E c : op' = [op EXCEPT !.pc = p] \/ op' = [op EXCEPT !.pc = p, !.clean = c]
        BY <3>2 DEF StopClose, StopClosing, StopKill
      <4> QED BY <1>0, <4>1 DEF Ops
    <3>3. CASE StopAwait \/ StopReceipt
      <4>1. \E p \in {"receipt", "recover"} : \E c : op' = [op EXCEPT !.pc = p] \/ op' = [op EXCEPT !.pc = p, !.clean = c]
        BY <3>3 DEF StopAwait, StopReceipt
      <4> QED BY <1>0, <4>1 DEF Ops
    <3> QED BY <1>9, <3>1, <3>2, <3>3
  <2> QED BY <2>1
<1> QED BY <1>1, <1>2, <1>3, <1>4, <1>5, <1>7, <1>8, <1>9 DEF OperatorStep

\* The operator's script enters a function only when none is entered or the last has
\* returned; bridge-start and configure go on only while the session is authorized.
LEMMA OperatorCalls ==
    ASSUME TypeInv, OperatorStep
    PROVE  /\ op.pc # "idle"
           /\ \/ call' = call
              \/ /\ call.pc \in {"none", "done"} /\ call'.pc \in {"none", "stop", "start", "route", "stage"}
                 /\ call'.pc \in {"start", "route"} =>
                       /\ op.cmd \in {"bridge-start", "configure"} /\ op.pc \in {"entry", "stopped", "started"}
                       /\ op.pc = "entry" => dir.revoked = 0
                 /\ call'.pc = "stage" => op'.pc \in {"prior", "old"}
           /\ op'.cmd \in {"bridge-start", "configure"} =>
                 /\ op'.cmd = op.cmd /\ op'.pc # "entry"
                 /\ op.pc = "entry" => dir.revoked = 0
<1>0. op \in Ops /\ Idle.pc = "idle" /\ Idle.cmd = "none" /\ NoCall \in Callees /\ NoCall.pc = "none"
      /\ call \in Callees
  BY Types, Records DEF Idle
<1>g. \A p : GotoOp(p) => op'.pc = p /\ op'.cmd = op.cmd
  BY <1>0 DEF GotoOp, Ops
<1>f. Finish => op'.pc = "idle" /\ op'.cmd = "none"
  BY <1>0 DEF Finish
<1>n. ASSUME NEW p PROVE [NoCall EXCEPT !.pc = p].pc = p
  BY <1>0 DEF Callees
<1>c. \A p : Calls(p) => call.pc = "none" /\ call'.pc = p
  BY <1>0, <1>n DEF Calls
<1>a. \A b : Archives(b) => call.pc = "none" /\ call'.pc = "stage"
  <2>1. ASSUME NEW u \in Callees, NEW b PROVE [u EXCEPT !.pc = "stage", !.whole = b].pc = "stage"
    BY DEF Callees
  <2> QED BY <1>0, <2>1 DEF Archives
<1>r. Returned => call.pc = "done" /\ call'.pc = "none"
  BY <1>0 DEF Returned
<1>1. CASE op.cmd = "start" /\ (StartEntry \/ StartPrior \/ StartStock \/ StartOld \/ StartRecord
                                \/ StartOwner \/ StartLocator)
  <2>1. op.pc # "idle"
    BY <1>1 DEF StartEntry, StartPrior, StartStock, StartOld, StartRecord, StartOwner, StartLocator
  <2>2. Finish \/ \E p \in {"prior", "stock", "old", "snapshot", "seal", "id", "boot", "fresh", "fork", "locator"} :
                     GotoOp(p)
    BY <1>1 DEF StartEntry, StartPrior, StartStock, StartOld, StartRecord, StartOwner, StartLocator
  <2>3. call' = call \/ Returned \/ (Archives(TRUE) /\ (GotoOp("prior") \/ GotoOp("old")))
    BY <1>1 DEF StartEntry, StartPrior, StartStock, StartOld, StartRecord, StartOwner, StartLocator
  <2> QED BY <1>0, <1>1, <1>g, <1>f, <1>a, <1>r, <2>1, <2>2, <2>3
<1>2. CASE op.cmd = "stop" /\ (StopRevoke \/ StopAdapterFirst \/ StopTerm \/ StopRecover \/ StopReport)
  <2>1. op.pc # "idle"
    BY <1>2 DEF StopRevoke, StopAdapterFirst, StopTerm, StopRecover, StopReport, Stop
  <2>2. Finish \/ \E p \in {"adapter", "drained", "await", "recovered"} : GotoOp(p)
    BY <1>2 DEF StopRevoke, StopAdapterFirst, StopTerm, StopRecover, StopReport
  <2>3. call' = call \/ Calls("stop")
    BY <1>2 DEF StopRevoke, StopAdapterFirst, StopTerm, StopRecover, StopReport
  <2> QED BY <1>2, <1>g, <1>f, <1>c, <2>1, <2>2, <2>3
<1>3. CASE op.cmd = "stop" /\ (StopOwned \/ StopClose \/ StopClosing \/ StopKill \/ StopAwait \/ StopReceipt)
  <2>1. op.pc # "idle"
    BY <1>3 DEF StopOwned, StopClose, StopClosing, StopKill, StopAwait, StopReceipt, Stop
  <2>2. op'.cmd \in {"none", "stop"}
    <3>1. CASE StopOwned
      <4>1. Finish \/ \E p \in {"close", "kill"} : \E o, c : op' = [op EXCEPT !.pc = p, !.owned = o, !.clean = c]
        BY <3>1 DEF StopOwned
      <4> QED BY <1>0, <1>3, <1>f, <4>1 DEF Ops
    <3>2. CASE StopClose \/ StopClosing \/ StopKill \/ StopAwait \/ StopReceipt
      <4>1. \E p, c : op' = [op EXCEPT !.pc = p] \/ op' = [op EXCEPT !.pc = p, !.clean = c]
        BY <3>2 DEF StopClose, StopClosing, StopKill, StopAwait, StopReceipt
      <4> QED BY <1>0, <1>3, <4>1 DEF Ops
    <3> QED BY <1>3, <3>1, <3>2
  <2>3. call' = call \/ Returned
    BY <1>3 DEF StopOwned, StopClose, StopClosing, StopKill, StopAwait, StopReceipt
  <2> QED BY <1>r, <2>1, <2>2, <2>3
<1>4. CASE ExplicitEntry
  <2>1. op.pc = "entry"
    BY <1>4 DEF ExplicitEntry, Explicit
  <2>2. \/ op.cmd = "bridge-stop" /\ Calls("stop") /\ GotoOp("stopped")
        \/ op.cmd = "bridge-start" /\ dir.revoked = 0 /\ Calls("start") /\ GotoOp("started")
        \/ op.cmd = "configure" /\ dir.revoked = 0 /\ Calls("stop") /\ GotoOp("stopped")
        \/ Finish /\ call' = call
    BY <1>4 DEF ExplicitEntry, Authorized
  <2> QED BY <1>g, <1>f, <1>c, <2>1, <2>2
<1>5. CASE ExplicitStopped
  <2>1. op.pc = "stopped" /\ call.pc = "done"
    BY <1>5 DEF ExplicitStopped, Explicit
  <2>2. \/ op.cmd = "configure" /\ call' = [NoCall EXCEPT !.pc = "start"] /\ GotoOp("started")
        \/ Returned /\ Finish
    BY <1>5 DEF ExplicitStopped
  <2>3. call' = [NoCall EXCEPT !.pc = "start"] => call'.pc = "start"
    BY <1>n
  <2> QED BY <1>g, <1>f, <1>r, <2>1, <2>2, <2>3
<1>6. CASE ExplicitStarted
  <2>1. op.pc = "started" /\ call.pc = "done" /\ op.cmd \in {"bridge-start", "configure"}
    BY <1>6 DEF ExplicitStarted, Explicit
  <2>2. \/ call' = [NoCall EXCEPT !.pc = "route"] /\ GotoOp("routed")
        \/ Returned /\ Finish
    BY <1>6 DEF ExplicitStarted
  <2>3. call' = [NoCall EXCEPT !.pc = "route"] => call'.pc = "route"
    BY <1>n
  <2> QED BY <1>g, <1>f, <1>r, <2>1, <2>2, <2>3
<1>7. CASE ExplicitRouted
  <2>1. op.pc = "routed" /\ Returned /\ Finish
    BY <1>7 DEF ExplicitRouted, Explicit
  <2> QED BY <1>f, <1>r, <2>1
<1> QED BY <1>1, <1>2, <1>3, <1>4, <1>5, <1>6, <1>7 DEF OperatorStep, StartEntry, StartPrior, StartStock,
        StartOld, StartRecord, StartOwner, StartLocator, StopRevoke, StopAdapterFirst, StopOwned, StopClose,
        StopClosing, StopKill, StopTerm, StopAwait, StopReceipt, StopRecover, StopReport, Stop

\* How a function goes on.
LEMMA CallMoves ==
    ASSUME TypeInv, CallStep
    PROVE  /\ call.pc \notin {"none", "done"} /\ call'.pc # "none"
           /\ call'.pc = "done" /\ call'.ok => call.pc \notin ArchiveCall \/ (Remove /\ call.todo = <<>>)
           /\ call'.pc \in StartCall \cup RouteCall => call.pc \in StartCall \cup RouteCall
           /\ call'.pc = "starting" => BridgeStart
           /\ call.pc = "starting" => BridgeStarted /\ Recorded /\ UNCHANGED <<bridge, dir>>
           /\ call'.pc = "remove" => (Rename /\ Retire) \/ (Remove /\ call.todo # <<>>)
           /\ call.pc \notin ArchiveCall => UNCHANGED <<dir.mpc, dir.id, dir.boot, dir.revoked, tmp, history, pruned>>
<1>0. call \in Callees /\ NoCall \in Callees
  BY Types, Records
<1>s. \A p : Step(p) => call'.pc = p
  BY <1>0 DEF Step, Callees
<1>r. \A b : Return(b) => call'.pc = "done" /\ call'.ok = b
  <2>1. ASSUME NEW b, NEW u \in Callees PROVE /\ [u EXCEPT !.pc = "done", !.ok = b].pc = "done"
                                              /\ [u EXCEPT !.pc = "done", !.ok = b].ok = b
    BY DEF Callees
  <2> QED BY <1>0, <2>1 DEF Return
<1>1. CASE BridgeStop \/ BridgeGone \/ BridgeSettled \/ Route \/ Arm
  <2>1. call.pc \in StopCall \cup RouteCall
    BY <1>1 DEF BridgeStop, BridgeGone, BridgeSettled, Route, Arm, StopCall, RouteCall
  <2>2. UNCHANGED <<tmp, history, pruned>>
    BY <1>1 DEF BridgeStop, BridgeGone, BridgeSettled, Route, Arm
  <2>3. UNCHANGED <<dir.mpc, dir.id, dir.boot, dir.revoked>>
    BY <1>1, CallDirs DEF BridgeStop, BridgeGone, BridgeSettled, Route, Arm, Remove
  <2>4. CASE BridgeStop \/ BridgeGone \/ BridgeSettled
    <3>1. (\E p \in {"gone", "receipt"} : Step(p)) \/ \E b : Return(b)
      BY <2>4 DEF BridgeStop, BridgeGone, BridgeSettled
    <3> QED BY <1>s, <1>r, <2>1, <2>2, <2>3, <3>1 DEF StopCall, RouteCall, StartCall, ArchiveCall
  <2>5. CASE Route \/ Arm
    <3>1. Step("usr1") \/ \E b : Return(b)
      BY <2>5 DEF Route, Arm
    <3>2. call.pc \in RouteCall
      BY <2>5 DEF Route, Arm, RouteCall
    <3> QED BY <1>s, <1>r, <2>1, <2>2, <2>3, <3>1, <3>2 DEF StopCall, RouteCall, StartCall, ArchiveCall
  <2> QED BY <1>1, <2>4, <2>5
<1>2. CASE BridgeStart
  <2>1. Step("starting") \/ Return(FALSE)
    BY <1>2 DEF BridgeStart
  <2>2. call.pc = "start" /\ UNCHANGED <<tmp, history, pruned>>
    BY <1>2 DEF BridgeStart
  <2>3. UNCHANGED <<dir.mpc, dir.id, dir.boot, dir.revoked>>
    BY <1>2, CallDirs DEF BridgeStart, Remove
  <2> QED BY <1>s, <1>r, <1>2, <2>1, <2>2, <2>3 DEF StartCall, RouteCall, ArchiveCall
<1>3. CASE BridgeStarted
  <2>1. \E b : Return(b)
    BY <1>3 DEF BridgeStarted
  <2>2. call.pc = "starting" /\ UNCHANGED <<tmp, history, pruned, dir, bridge>> /\ Recorded
    BY <1>3 DEF BridgeStarted
  <2> QED BY <1>r, <1>3, <2>1, <2>2 DEF StartCall, RouteCall, ArchiveCall
<1>4. CASE Stage \/ Copy \/ Rename
  <2>1. call.pc \in {"stage", "copy", "rename"}
    BY <1>4 DEF Stage, Copy, Rename
  <2>2. Return(FALSE) \/ Step("copy") \/ Step("rename") \/ (Rename /\ Retire)
    BY <1>4 DEF Stage, Copy, Rename, Uncommitted
  <2>3. Retire => call'.pc = "remove"
    BY <1>0 DEF Retire, Callees
  <2> QED BY <1>s, <1>r, <2>1, <2>2, <2>3 DEF StartCall, RouteCall, ArchiveCall
<1>5. CASE Remove
  <2>1. call.pc = "remove"
    BY <1>5 DEF Remove
  <2>2. \/ call.todo = <<>> /\ Return(TRUE)
        \/ call.todo # <<>> /\ call' = [call EXCEPT !.todo = Tail(@)]
    BY <1>5 DEF Remove
  <2>3. call' = [call EXCEPT !.todo = Tail(@)] => call'.pc = "remove"
    BY <1>0, <2>1 DEF Callees
  <2> QED BY <1>r, <1>5, <2>1, <2>2, <2>3 DEF StartCall, RouteCall, ArchiveCall
<1> QED BY <1>1, <1>2, <1>3, <1>4, <1>5 DEF CallStep

-----------------------------------------------------------------------------
(* Who holds the lock, and who is in which function.                        *)

\* The lock names its holder, and there is one.
LEMMA Holder ==
    ASSUME TypeInv, LockInv
    PROVE  /\ op.pc # "idle" => lock = Operator /\ \A k \in 1 .. Sessions : own[k].pc \notin Held
           /\ \A k \in 1 .. Sessions : own[k].pc \in Held => op.pc = "idle" /\ lock = k
           /\ \A j, k \in 1 .. Sessions : own[j].pc \in Held /\ own[k].pc \in Held => j = k
<1>0. Sessions \in Nat /\ Operator = Sessions + 1
  BY ScriptTypes
<1> QED BY <1>0 DEF LockInv

\* Which caller a function that starts, arms or archives has.
LEMMA Callers ==
    ASSUME TypeInv, LockInv
    PROVE  /\ call.pc \in StartCall \cup RouteCall =>
                 \/ op.pc \in {"started", "routed"}
                 \/ op.pc = "idle" /\ \E k \in 1 .. Sessions : lock = k /\ own[k].pc \in Visiting
           /\ call.pc \in ArchiveCall =>
                 \/ op.pc \in {"prior", "old"}
                 \/ op.pc = "idle" /\ \E k \in 1 .. Sessions : lock = k /\ own[k].pc = "archived"
           /\ call.whole => op.pc \in {"prior", "old"} /\ call.pc \in ArchiveCall
<1>1. OwnerAt({"wired", "rewired"}) \/ OwnerAt({"offered"}) =>
          \E k \in 1 .. Sessions : lock = k /\ own[k].pc \in Visiting /\ own[k].pc \in Held
  BY DEF OwnerAt, Visiting, Held
<1>2. OwnerAt({"archived"}) => \E k \in 1 .. Sessions : lock = k /\ own[k].pc = "archived" /\ own[k].pc \in Held
  BY DEF OwnerAt, Held, Closing
<1> QED BY <1>1, <1>2, Holder DEF LockInv

-----------------------------------------------------------------------------
(* Admission.                                                               *)

\* What the lock's holder was admitted for stays admitted.
LEMMA AdmittedHolds == TypeInv /\ LockInv /\ AdmittedInv /\ TodoInv /\ [Next]_vars => AdmittedInv'
<1> SUFFICES ASSUME TypeInv, LockInv, AdmittedInv, TodoInv, [Next]_vars PROVE AdmittedInv'
  OBVIOUS
<1> DEFINE Set == Visiting \cup {"spawn", "cleared", "consume", "archived"}
           Auth == \A k \in 1 .. Sessions : own[k].pc \in Set => Authorized(k)
<1>0. Auth <=> /\ \A k \in 1 .. Sessions : own[k].pc \in Visiting \cup {"spawn", "cleared", "consume"} =>
                     Authorized(k)
               /\ \A k \in 1 .. Sessions : own[k].pc = "archived" => Authorized(k)
  OBVIOUS
<1>00. Auth
  BY <1>0 DEF AdmittedInv
<1>s. Set \subseteq Held /\ "tick" \in Held /\ "launch" \in Held /\ {"admit", "unborn", "end", "entry"} \cap Set = {}
      /\ "idle" \notin {"started", "routed", "entry", "prior", "old", "id", "boot", "fresh"}
  BY DEF Held, Visiting, Closing
<1>q. ASSUME Auth',
             op'.cmd \in {"bridge-start", "configure"} /\ op'.pc # "entry" => dir'.revoked = 0,
             call'.pc \in StartCall \cup RouteCall => dir'.revoked = 0
      PROVE  AdmittedInv'
  BY <1>q DEF AdmittedInv
<1> HIDE DEF Set
<1>1. ASSUME UNCHANGED <<op, call, dir.id, dir.revoked>>, \A k \in 1 .. Sessions : own'[k].pc = own[k].pc
      PROVE  AdmittedInv'
  BY <1>00, <1>1, <1>q DEF AdmittedInv, Authorized
<1>2. CASE UNCHANGED vars
  BY <1>1, <1>2 DEF vars
<1>3. CASE Processes
  <2>1. UNCHANGED <<op, call>> /\ \A k \in 1 .. Sessions : own'[k].pc = own[k].pc
    <3>1. own \in [1 .. Sessions -> Owners]
      BY ScriptTypes
    <3>2. ASSUME NEW k \in 1 .. Sessions, NEW j \in 1 .. Sessions
          PROVE  [own EXCEPT ![k].pending = TRUE][j].pc = own[j].pc
      BY <3>1 DEF Owners
    <3> QED BY <1>3, <3>2, ProcessesKeep
  <2>2. UNCHANGED <<dir.id, dir.revoked>>
    BY <1>3, ProcessDirs
  <2> QED BY <1>1, <2>1, <2>2
<1>4. ASSUME NEW k \in 1 .. Sessions, OwnerStep(k) PROVE AdmittedInv'
  <2>1. op' = op /\ UNCHANGED <<dir.id, dir.revoked>>
    BY <1>4, OwnerKeeps, OwnerDirs DEF OwnerFrame
  <2>2. \A j \in 1 .. Sessions : j # k => own'[j] = own[j]
    BY <1>4, OwnerWrites
  <2>3. own'[k].pc \in Set => Authorized(k)
    <3>1. own'[k].pc \in Visiting => Authorized(k)
      BY <1>00, <1>4, OwnerMoves DEF Set
    <3>2. own'[k].pc \in {"spawn", "cleared", "archived"} => Authorized(k)
      BY <1>4, OwnerMoves
    <3>3. own'[k].pc = "consume" => Authorized(k)
      BY <1>00, <1>4, OwnerMoves DEF Set
    <3> QED BY <3>1, <3>2, <3>3 DEF Set
  <2>4. Auth'
    BY <1>00, <2>1, <2>2, <2>3 DEF Authorized
  <2>5. call'.pc \in StartCall \cup RouteCall => dir.revoked = 0
    <3>1. call' = call \/ (call'.pc \in {"start", "route"} => own[k].pc \in Visiting)
          \/ call'.pc \notin StartCall \cup RouteCall
      BY <1>4, OwnerCalls
    <3>2. own[k].pc \in Visiting => dir.revoked = 0
      BY <1>00 DEF Set, Authorized
    <3>3. call' = call \/ call'.pc \in {"none", "stop", "start", "route", "stage"}
      BY <1>4, OwnerCalls
    <3> QED BY <3>1, <3>2, <3>3 DEF AdmittedInv, StartCall, RouteCall
  <2> QED BY <1>q, <2>1, <2>4, <2>5 DEF AdmittedInv
<1>5. CASE OperatorStep
  <2>1. op.pc # "idle" /\ \A k \in 1 .. Sessions : own[k].pc \notin Held
    BY <1>5, OperatorCalls, Holder
  <2>2. \A k \in 1 .. Sessions : own'[k].pc \notin Set
    <3>1. CASE UNCHANGED own
      BY <1>s, <2>1, <3>1
    <3>2. CASE StartOwner
      <4>1. own' = [own EXCEPT ![sessions + 1] = [Unborn EXCEPT !.pc = "admit"]]
        BY <3>2 DEF StartOwner
      <4>2. [Unborn EXCEPT !.pc = "admit"].pc = "admit"
        BY DEF Unborn
      <4>3. \A k \in 1 .. Sessions : own'[k] = own[k] \/ own'[k].pc = "admit"
        BY <4>1, <4>2, ScriptTypes
      <4> QED BY <1>s, <2>1, <4>3
    <3> QED BY <1>5, <3>1, <3>2, OperatorKeeps
  <2>3. op'.cmd \in {"bridge-start", "configure"} => dir.revoked = 0 /\ op.cmd = op'.cmd
    BY <1>5, OperatorCalls DEF AdmittedInv
  <2>4. call'.pc \in StartCall \cup RouteCall => dir.revoked = 0 /\ (call' = call \/ op.cmd \in {"bridge-start", "configure"})
    BY <1>5, OperatorCalls DEF AdmittedInv, StartCall, RouteCall
  <2>5. call' = call /\ call.pc \in StartCall \cup RouteCall => op.pc \in {"started", "routed"}
    BY <2>1, Callers
  <2>6. dir'.revoked = dir.revoked \/ dir'.revoked = 0 \/ (op.cmd = "stop" /\ op.pc = "entry")
    BY <1>5, OperatorDirs
  <2> QED BY <1>q, <2>2, <2>3, <2>4, <2>5, <2>6
<1>6. CASE CallStep
  <2>1. UNCHANGED <<op, own>>
    BY <1>6, CallKeeps
  <2>2. CASE UNCHANGED <<dir.id, dir.revoked>>
    BY <1>00, <1>6, <1>q, <2>1, <2>2, CallMoves DEF AdmittedInv, Authorized
  <2>3. CASE ~UNCHANGED <<dir.id, dir.revoked>>
    <3>1. PICK f \in Folder : Remove /\ call.todo # <<>> /\ f = Head(call.todo) /\ dir' = [dir EXCEPT ![f] = 0]
      BY <1>6, <2>3, CallDirs
    <3>2. f \in {"id", "revoked"}
      <4>1. dir \in [Folder -> Places] /\ "id" \in Folder /\ "revoked" \in Folder
        BY Types, FolderIs DEF Files
      <4> QED BY <2>3, <3>1, <4>1
    <3>3. call.whole
      <4>1. call.todo \in Seq(Folder \cup {"state", "snapshot"}) /\ call.pc = "remove"
        BY <3>1, Types DEF Callees, Remove
      <4>2. 1 \in DOMAIN call.todo /\ call.todo[1] = f
        BY <3>1, <4>1
      <4>3. f \in Range(SessionFiles)
        BY <3>2 DEF SessionFiles, Range
      <4> QED BY <4>1, <4>2, <4>3 DEF TodoInv
    <3>4. op.pc \in {"prior", "old"} /\ \A k \in 1 .. Sessions : own[k].pc \notin Held
      BY <1>s, <3>3, Callers, Holder
    <3>5. dir'.revoked = dir.revoked \/ dir'.revoked = 0
      <4>1. dir \in [Folder -> Places] /\ "id" \in Folder /\ "revoked" \in Folder
        BY Types, FolderIs DEF Files
      <4> QED BY <3>1, <4>1
    <3>6. Auth'
      BY <1>s, <2>1, <3>4
    <3>7. op'.cmd \in {"bridge-start", "configure"} /\ op'.pc # "entry" => dir'.revoked = 0
      BY <2>1, <3>5 DEF AdmittedInv
    <3>8. call'.pc \in StartCall \cup RouteCall => dir'.revoked = 0
      <4>1. call'.pc \in StartCall \cup RouteCall => dir.revoked = 0
        BY <1>6, CallMoves DEF AdmittedInv
      <4> QED BY <3>5, <4>1
    <3> QED BY <1>q, <3>6, <3>7, <3>8
  <2> QED BY <2>2, <2>3
<1>7. CASE Interrupt
  <2>1. UNCHANGED <<own, dir>> /\ op' = Idle /\ call' = NoCall
    BY <1>7 DEF Interrupt
  <2>2. Idle.cmd = "none" /\ NoCall.pc = "none" /\ "none" \notin StartCall \cup RouteCall
    BY DEF Idle, NoCall, StartCall, RouteCall
  <2>3. Auth'
    BY <1>00, <2>1 DEF Authorized
  <2> QED BY <1>q, <2>1, <2>2, <2>3
<1>8. CASE PowerOff
  <2>1. op' = Idle /\ call' = NoCall /\ \A k \in 1 .. Sessions : own'[k].pc \in {"unborn", "end"}
    BY <1>8, PowerOffLeaves
  <2>2. Idle.cmd = "none" /\ NoCall.pc = "none" /\ "none" \notin StartCall \cup RouteCall
    BY DEF Idle, NoCall, StartCall, RouteCall
  <2>3. Auth'
    BY <1>s, <2>1
  <2> QED BY <1>q, <2>1, <2>2, <2>3
<1>9. ASSUME NEW c \in Commands, Command(c) PROVE AdmittedInv'
  <2>1. UNCHANGED <<own, dir, call>> /\ op' = [Idle EXCEPT !.cmd = c, !.pc = "entry", !.clean = TRUE]
    BY <1>9 DEF Command, OpFrame
  <2>2. op'.pc = "entry"
    BY <2>1 DEF Idle
  <2>3. Auth'
    BY <1>00, <2>1 DEF Authorized
  <2> QED BY <1>q, <2>1, <2>2, <2>3 DEF AdmittedInv
<1> QED BY <1>2, <1>3, <1>4, <1>5, <1>6, <1>7, <1>8, <1>9 DEF Next, Scripts

-----------------------------------------------------------------------------
(* What archive_entry removes, and in which order.                          *)

Removable == Folder \cup {"state", "snapshot"}

\* The two lists, by their places.
LEMMA TodoLists ==
    /\ Len(GenerationFiles) = 9 /\ GenerationFiles[1] = "mpc" /\ GenerationFiles \in Seq(Removable)
    /\ Len(SessionFiles) = 5 /\ SessionFiles \in Seq(Removable)
    /\ SessionFiles[1] = "id" /\ SessionFiles[2] = "boot" /\ SessionFiles[3] = "revoked"
    /\ SessionFiles[4] = "owner" /\ SessionFiles[5] = "snapshot"
    /\ \A i \in 1 .. 9 : GenerationFiles[i] \notin {"id", "boot", "revoked", "owner", "snapshot"}
    /\ Range(SessionFiles) = {"id", "boot", "revoked", "owner", "snapshot"}
<1>1. \A i \in 1 .. 9 : i \in {1, 2, 3, 4, 5, 6, 7, 8, 9}
  OBVIOUS
<1>2. \A i \in 1 .. 9 : GenerationFiles[i] \notin {"id", "boot", "revoked", "owner", "snapshot"}
  BY <1>1 DEF GenerationFiles
<1>3. Range(SessionFiles) = {"id", "boot", "revoked", "owner", "snapshot"}
  BY DEF SessionFiles, Range
<1>4. Len(GenerationFiles) = 9 /\ GenerationFiles[1] = "mpc"
  BY DEF GenerationFiles
<1>5. /\ Len(SessionFiles) = 5
      /\ SessionFiles[1] = "id" /\ SessionFiles[2] = "boot" /\ SessionFiles[3] = "revoked"
      /\ SessionFiles[4] = "owner" /\ SessionFiles[5] = "snapshot"
  BY DEF SessionFiles
<1>6. GenerationFiles \in Seq(Removable) /\ SessionFiles \in Seq(Removable)
  BY TodoTypes DEF Removable
<1> QED BY <1>2, <1>3, <1>4, <1>5, <1>6

\* What archive_entry sets out to remove.
LEMMA RetireOrders ==
    ASSUME TypeInv, Retire, dir.mpc # 0 => dir.mpc \in Range(history'.entries), UNCHANGED dir
    PROVE  TodoInv'
<1> DEFINE gen  == IF dir.mpc # 0 THEN GenerationFiles ELSE <<>>
           rest == IF call.whole THEN SessionFiles ELSE <<>>
           todo == gen \o rest
<1>0. call \in Callees
  BY Types
<1>1. call'.todo = todo /\ call'.whole = call.whole
  BY <1>0 DEF Retire, Callees
<1>2. gen \in Seq(Removable) /\ rest \in Seq(Removable)
  BY TodoLists
<1>4. /\ \A i \in 1 .. Len(gen) : gen[i] \notin Range(SessionFiles)
      /\ Len(gen) \in Nat /\ Len(rest) \in Nat
      /\ ~call.whole => Len(rest) = 0
      /\ call.whole => rest = SessionFiles /\ Len(rest) = 5
      /\ dir.mpc # 0 => Len(gen) = 9 /\ gen[1] = "mpc"
  <2>1. Len(gen) \in Nat /\ Len(rest) \in Nat
    BY <1>2
  <2>2. CASE dir.mpc # 0
    BY <2>1, <2>2, TodoLists
  <2>3. CASE dir.mpc = 0
    <3>1. gen = <<>> /\ Len(gen) = 0
      BY <2>3
    <3> QED BY <2>1, <2>3, <3>1, TodoLists
  <2> QED BY <2>2, <2>3
<1> HIDE DEF gen, rest
<1>3. /\ todo \in Seq(Removable) /\ DOMAIN todo = 1 .. Len(gen) + Len(rest)
      /\ \A i \in 1 .. Len(gen) : todo[i] = gen[i]
      /\ \A i \in Len(gen) + 1 .. Len(gen) + Len(rest) : todo[i] = rest[i - Len(gen)]
  BY <1>2
<1> HIDE DEF todo
<1>5. \A i \in DOMAIN todo : i \in 1 .. Len(gen) \/ (i - Len(gen) \in 1 .. Len(rest) /\ todo[i] = rest[i - Len(gen)])
  BY <1>3, <1>4
<1>6. \A i \in DOMAIN todo : todo[i] \in Range(SessionFiles) => call.whole
  BY <1>3, <1>4, <1>5
<1>7. ASSUME NEW i \in DOMAIN todo, todo[i] \in {"boot", "revoked"}
      PROVE  \E j \in 1 .. i - 1 : todo[j] = "id"
  <2>1. {"boot", "revoked"} \subseteq Range(SessionFiles)
    BY TodoLists
  <2>2. i - Len(gen) \in 1 .. Len(rest) /\ todo[i] = rest[i - Len(gen)] /\ call.whole
    BY <1>3, <1>4, <1>5, <1>6, <1>7, <2>1
  <2>3. rest[1] = "id" /\ Len(rest) = 5 /\ i - Len(gen) # 1
    BY <1>4, <1>7, <2>2, TodoLists
  <2>4. Len(gen) + 1 \in Len(gen) + 1 .. Len(gen) + Len(rest) /\ (Len(gen) + 1) - Len(gen) = 1
    BY <1>4, <2>3
  <2>5. todo[Len(gen) + 1] = "id"
    BY <1>3, <2>3, <2>4
  <2>6. i \in Int /\ Len(gen) + 1 \in 1 .. i - 1
    BY <1>3, <1>4, <2>2, <2>3
  <2> QED BY <2>5, <2>6
<1>8. dir.mpc # 0 => todo # <<>> /\ Head(todo) = "mpc"
  BY <1>3, <1>4
<1> QED BY <1>1, <1>6, <1>7, <1>8 DEF TodoInv

\* The list is worked off from its head.
LEMMA RemoveOrders ==
    ASSUME TypeInv, TodoInv, Remove
    PROVE  TodoInv'
<1>0. call \in Callees /\ call.todo \in Seq(Folder \cup {"state", "snapshot"}) /\ call.pc = "remove"
      /\ dir \in [Folder -> Places] /\ Folder = Files /\ NoCall \in Callees
  BY Types, FolderIs, Records DEF Callees, Remove
<1>1. CASE call.todo = <<>>
  <2>1. call' = [NoCall EXCEPT !.pc = "done", !.ok = TRUE]
    BY <1>1 DEF Remove, Return
  <2>2. call'.pc = "done"
    BY <1>0, <2>1 DEF Callees
  <2> QED BY <2>2 DEF TodoInv
<1>2. CASE call.todo # <<>>
  <2> DEFINE s == call.todo
             t == Tail(call.todo)
             f == Head(call.todo)
  <2>1. call' = [call EXCEPT !.todo = t] /\ UNCHANGED <<history, pruned>>
        /\ (dir' = dir \/ (f \in Folder /\ dir' = [dir EXCEPT ![f] = 0]))
        /\ (f \in Folder => dir' = [dir EXCEPT ![f] = 0])
    BY <1>2 DEF Remove
  <2>2. call'.todo = t /\ call'.whole = call.whole
    BY <1>0, <2>1 DEF Callees
  <2>3. /\ t \in Seq(Folder \cup {"state", "snapshot"}) /\ Len(t) = Len(s) - 1 /\ Len(s) \in Nat
        /\ DOMAIN t = 1 .. Len(s) - 1 /\ DOMAIN s = 1 .. Len(s) /\ f = s[1]
        /\ \A i \in 1 .. Len(s) - 1 : t[i] = s[i + 1]
    BY <1>0, <1>2
  <2>4. /\ \A i \in DOMAIN s : s[i] \in Range(SessionFiles) => call.whole
        /\ \A i \in DOMAIN s : s[i] \in {"boot", "revoked"} /\ dir.id # 0 => \E j \in 1 .. i - 1 : s[j] = "id"
        /\ dir.mpc # 0 => f = "mpc"
    BY <1>0 DEF TodoInv
  <2>5. dir'.mpc = 0
    <3>1. CASE f = "mpc"
      BY <1>0, <2>1, <3>1 DEF Files
    <3>2. CASE f # "mpc"
      BY <1>0, <2>1, <2>4, <3>2 DEF Files
    <3> QED BY <3>1, <3>2
  <2>6. dir'.id = IF f = "id" THEN 0 ELSE dir.id
    <3>1. CASE f = "id"
      BY <1>0, <2>1, <3>1 DEF Files
    <3>2. CASE f # "id"
      BY <1>0, <2>1, <3>2 DEF Files
    <3> QED BY <3>1, <3>2
  <2> HIDE DEF s, t, f
  <2>7. \A i \in DOMAIN t : t[i] \in Range(SessionFiles) => call.whole
    BY <2>3, <2>4
  <2>8. ASSUME NEW i \in DOMAIN t, t[i] \in {"boot", "revoked"}, dir'.id # 0
        PROVE  \E j \in 1 .. i - 1 : t[j] = "id"
    <3>1. i \in 1 .. Len(s) - 1 /\ t[i] = s[i + 1] /\ i + 1 \in DOMAIN s
      BY <2>3
    <3>2. dir.id # 0 /\ f # "id"
      BY <2>6, <2>8
    <3>3. PICK j \in 1 .. (i + 1) - 1 : s[j] = "id"
      BY <2>4, <2>8, <3>1, <3>2
    <3>4. j # 1 /\ j - 1 \in 1 .. i - 1 /\ j - 1 \in 1 .. Len(s) - 1 /\ (j - 1) + 1 = j
      BY <2>3, <3>1, <3>2, <3>3
    <3>5. t[j - 1] = "id"
      BY <2>3, <3>3, <3>4
    <3> QED BY <3>4, <3>5
  <2> QED BY <2>2, <2>5, <2>7, <2>8 DEF TodoInv
<1> QED BY <1>1, <1>2

\* The session's name goes before its boot, and the application's before both.
LEMMA TodoHolds == TypeInv /\ LockInv /\ TodoInv /\ [Next]_vars => TodoInv'
<1> SUFFICES ASSUME TypeInv, LockInv, TodoInv, [Next]_vars PROVE TodoInv'
  OBVIOUS
<1>0. "remove" \in ArchiveCall /\ "idle" \notin {"prior", "old", "id"} /\ "spawn" # "archived"
      /\ {"spawn", "archived"} \subseteq Held /\ NoCall.pc = "none"
  BY Records DEF ArchiveCall, Held, Closing
<1>1. ASSUME UNCHANGED <<call, dir.mpc, dir.id, history, pruned>> PROVE TodoInv'
  BY <1>1 DEF TodoInv
<1>2. ASSUME call'.pc # "remove" PROVE TodoInv'
  BY <1>2 DEF TodoInv
<1>3. CASE UNCHANGED vars
  BY <1>1, <1>3 DEF vars
<1>4. CASE Processes
  BY <1>1, <1>4, ProcessesKeep, ProcessDirs
<1>5. ASSUME NEW k \in 1 .. Sessions, OwnerStep(k) PROVE TodoInv'
  <2>1. CASE call' = call /\ call.pc = "remove"
    <3>1. ~Spawn(k)
      <4>1. own[k].pc # "spawn"
        BY <1>0, <2>1, Callers, Holder
      <4> QED BY <4>1 DEF Spawn
    <3> QED BY <1>1, <1>5, <2>1, <3>1, OwnerKeeps, OwnerDirs DEF OwnerFrame
  <2>2. CASE call' # call \/ call.pc # "remove"
    BY <1>2, <1>5, <2>2, OwnerCalls
  <2> QED BY <2>1, <2>2
<1>6. CASE OperatorStep
  <2>1. CASE call' = call /\ call.pc = "remove"
    <3>1. op.pc \in {"prior", "old"}
      BY <1>0, <1>6, <2>1, Callers, OperatorCalls
    <3> QED BY <1>0, <1>1, <1>6, <2>1, <3>1, OperatorKeeps, OperatorDirs
  <2>2. CASE call' # call \/ call.pc # "remove"
    BY <1>2, <1>6, <2>2, OperatorCalls
  <2> QED BY <2>1, <2>2
<1>7. CASE CallStep
  <2>1. CASE call'.pc # "remove"
    BY <1>2, <2>1
  <2>2. CASE Remove
    BY <2>2, RemoveOrders
  <2>3. CASE Rename /\ Retire
    <3>1. UNCHANGED dir
      BY <2>3 DEF Rename
    <3>2. UNCHANGED history \/ history'.entries = Append(history.entries, dir.mpc)
      BY <2>3 DEF Rename
    <3>3. ~Uncommitted
      <4>1. call'.pc = "remove"
        BY <2>3, Types DEF Retire, Callees
      <4>2. Uncommitted => call'.pc = "done"
        <5>1. ASSUME NEW u \in Callees, NEW b PROVE [u EXCEPT !.pc = "done", !.ok = b].pc = "done"
          BY DEF Callees
        <5> QED BY <5>1, Records DEF Uncommitted, Return
      <4> QED BY <4>1, <4>2
    <3>4. history'.entries = Append(history.entries, dir.mpc)
      BY <2>3, <3>3 DEF Rename
    <3>5. history.entries \in Seq(0 .. Apps) /\ Len(history.entries) \in Nat
      BY Types
    <3>6. dir.mpc \in Range(history'.entries)
      <4>1. Len(history.entries) + 1 \in DOMAIN history'.entries
            /\ history'.entries[Len(history.entries) + 1] = dir.mpc
        BY <3>4, <3>5
      <4> QED BY <4>1 DEF Range
    <3> QED BY <2>3, <3>1, <3>6, RetireOrders
  <2> QED BY <1>7, <2>1, <2>2, <2>3, CallMoves
<1>8. CASE Interrupt \/ PowerOff
  BY <1>0, <1>2, <1>8 DEF Interrupt, PowerOff
<1>9. ASSUME NEW c \in Commands, Command(c) PROVE TodoInv'
  BY <1>1, <1>9 DEF Command, OpFrame
<1> QED BY <1>3, <1>4, <1>5, <1>6, <1>7, <1>8, <1>9 DEF Next, Scripts

-----------------------------------------------------------------------------
(* Applications, bridges and bare ground: the owner's steps.                *)

\* Whoever archives does it on bare ground.
LEMMA ArchivesBare ==
    ASSUME TypeInv, LockInv, GroundInv, call.pc \in ArchiveCall
    PROVE  NoApp /\ NoBridge
BY Callers DEF GroundInv, Bare

\* A step that launches, reaps or sets up, in full.
LEMMA OwnerActs ==
    ASSUME TypeInv, NEW k \in 1 .. Sessions
    PROVE  /\ Spawn(k) => own[k].pc = "spawn" /\ \E n \in 1 .. Apps :
                 /\ app[n] = "unborn" /\ app' = [app EXCEPT ![n] = "exec"] /\ dir' = [dir EXCEPT !.mpc = n]
                 /\ own'[k].pc = "exec" /\ own'[k].child = n
                 /\ UNCHANGED <<OwnerFrame, tmp, call, lock, adapter>>
           /\ Reap(k) => /\ own[k].pc = "poll" /\ own'[k].pc = "reaped" /\ ~Alive(own[k].child)
                         /\ own'[k].code = (app[own[k].child] = "ok")
           /\ Setup(k) => own[k].pc = "setup" /\ own'[k].pc \in {"wired", "leave"}
<1>0. own \in [1 .. Sessions -> Owners] /\ Unborn \in Owners /\ own[k] \in Owners
  BY Types, Records
<1>1. ASSUME Spawn(k)
      PROVE  own[k].pc = "spawn" /\ \E n \in 1 .. Apps :
                 /\ app[n] = "unborn" /\ app' = [app EXCEPT ![n] = "exec"] /\ dir' = [dir EXCEPT !.mpc = n]
                 /\ own'[k].pc = "exec" /\ own'[k].child = n
                 /\ UNCHANGED <<OwnerFrame, tmp, call, lock, adapter>>
  <2>1. PICK n \in 1 .. Apps :
           /\ app[n] = "unborn" /\ app' = [app EXCEPT ![n] = "exec"] /\ dir' = [dir EXCEPT !.mpc = n]
           /\ own' = [own EXCEPT ![k] = [Unborn EXCEPT !.pc = "exec", !.child = n, !.pending = own[k].pending]]
    BY <1>1 DEF Spawn
  <2>2. ASSUME NEW u \in Owners, NEW m, NEW d
        PROVE  /\ [u EXCEPT !.pc = "exec", !.child = m, !.pending = d].pc = "exec"
               /\ [u EXCEPT !.pc = "exec", !.child = m, !.pending = d].child = m
    BY DEF Owners
  <2>3. own'[k].pc = "exec" /\ own'[k].child = n
    BY <1>0, <2>1, <2>2
  <2>4. own[k].pc = "spawn" /\ UNCHANGED <<OwnerFrame, tmp, call, lock, adapter>>
    BY <1>1 DEF Spawn
  <2> QED BY <2>1, <2>3, <2>4
<1>2. ASSUME Reap(k)
      PROVE  /\ own[k].pc = "poll" /\ own'[k].pc = "reaped" /\ ~Alive(own[k].child)
             /\ own'[k].code = (app[own[k].child] = "ok")
  <2>1. own' = [own EXCEPT ![k] = [Unborn EXCEPT !.pc = "reaped", !.pending = own[k].pending,
                                                 !.code = app[own[k].child] = "ok"]]
    BY <1>2 DEF Reap
  <2>2. ASSUME NEW u \in Owners, NEW m, NEW d
        PROVE  /\ [u EXCEPT !.pc = "reaped", !.pending = d, !.code = m].pc = "reaped"
               /\ [u EXCEPT !.pc = "reaped", !.pending = d, !.code = m].code = m
    BY DEF Owners
  <2>3. own'[k].pc = "reaped" /\ own'[k].code = (app[own[k].child] = "ok")
    BY <1>0, <2>1, <2>2
  <2> QED BY <1>2, <2>3 DEF Reap
<1>3. ASSUME Setup(k) PROVE own[k].pc = "setup" /\ own'[k].pc \in {"wired", "leave"}
  <2>1. Goto(k, "wired") \/ own' = [own EXCEPT ![k].pc = "leave", ![k].setup = 2]
    BY <1>3 DEF Setup
  <2>2. CASE own' = [own EXCEPT ![k].pc = "leave", ![k].setup = 2]
    <3>1. own' = [own EXCEPT ![k] = [own[k] EXCEPT !.pc = "leave", !.setup = 2]]
      BY <1>0, <2>2
    <3>2. [own[k] EXCEPT !.pc = "leave", !.setup = 2].pc = "leave"
      BY <1>0 DEF Owners
    <3> QED BY <1>0, <1>3, <3>1, <3>2 DEF Setup
  <2>3. CASE Goto(k, "wired")
    BY <1>0, <1>3, <2>3 DEF Setup, Goto, Owners
  <2> QED BY <2>1, <2>2, <2>3
<1> QED BY <1>1, <1>2, <1>3

\* What is true of the application that an owner launches.
LEMMA SpawnsOnBare ==
    ASSUME TypeInv, LockInv, AdmittedInv, GroundInv, NEW k \in 1 .. Sessions, Spawn(k)
    PROVE  /\ dir.id = k /\ Bare /\ dir.mpc = 0 /\ SameBoot /\ tmp.cmd = 0 /\ ~acvs
           /\ lock = k /\ op.pc = "idle" /\ \A j \in 1 .. Sessions : j # k => own[j].pc \notin Held
<1>1. own[k].pc = "spawn" /\ own[k].pc \in Held
  BY DEF Spawn, Held
<1>2. Authorized(k)
  BY <1>1 DEF AdmittedInv
<1>3. dir.id = k
  BY <1>2 DEF Authorized
<1>4. Bare /\ dir.mpc = 0 /\ SameBoot /\ tmp.cmd = 0 /\ ~acvs
  BY <1>1, <1>3 DEF GroundInv
<1> QED BY <1>1, <1>3, <1>4, Holder

\* The owner's steps and the application on record.
LEMMA OwnerApps ==
    ASSUME TypeInv, LockInv, AdmittedInv, AppInv, GroundInv, NEW k \in 1 .. Sessions, OwnerStep(k)
    PROVE  AppInv'
<1>0. /\ own \in [1 .. Sessions -> Owners] /\ app \in [1 .. Apps -> AppStates]
      /\ dir \in [Folder -> Places] /\ Folder = Files /\ own' \in [1 .. Sessions -> Owners]
  BY Types, FolderIs, OwnerWrites
<1>1. UNCHANGED <<boot, acvs, dir.id, dir.boot, tmp.cmd>>
  <2>1. tmp'.cmd = tmp.cmd
    <3>1. [tmp EXCEPT !.intent = 2].cmd = tmp.cmd
      BY Types DEF Memory
    <3> QED BY <3>1, OwnerKeeps
  <2> QED BY <2>1, OwnerKeeps, OwnerDirs DEF OwnerFrame
<1>2. \A j \in 1 .. Sessions : j # k => own'[j] = own[j]
  BY OwnerWrites
<1>3. CASE Spawn(k)
  <2>1. PICK n \in 1 .. Apps : /\ app[n] = "unborn" /\ app' = [app EXCEPT ![n] = "exec"]
                               /\ dir' = [dir EXCEPT !.mpc = n] /\ own'[k].pc = "exec" /\ own'[k].child = n
    BY <1>3, OwnerActs
  <2>2. dir.id = k /\ NoApp /\ dir.mpc = 0 /\ SameBoot /\ tmp.cmd = 0 /\ ~acvs
        /\ \A j \in 1 .. Sessions : j # k => own[j].pc \notin Held
    BY <1>3, SpawnsOnBare DEF Bare
  <2>3. dir'.mpc = n /\ n # 0
    BY <1>0, <2>1, Sizes DEF Files
  <2>4. \A m \in 1 .. Apps : m # n => app'[m] = app[m] /\ ~Alive(m)'
    BY <1>0, <2>1, <2>2 DEF NoApp, Alive, Running
  <2>5. app'[n] = "exec" /\ ~Running(n)'
    BY <1>0, <2>1 DEF Running
  <2>6. SameBoot' /\ ~acvs' /\ tmp'.cmd = 0 /\ dir'.id = k
    BY <1>1, <2>2 DEF SameBoot
  <2>7. Tended(n)'
    BY <2>1, <2>6 DEF Tended, Tending
  <2>8. "exec" \notin Closing \cup {"reaped"} /\ "exec" \in Held
    BY DEF Closing, Held
  <2>9. \A m \in 1 .. Apps : Running(m)' => FALSE
    BY <2>4, <2>5 DEF Alive
  <2>10. \A m \in 1 .. Apps : app'[m] = "exec" => m = n
    BY <2>4 DEF Alive
  <2>11. \A m \in 1 .. Apps : Alive(m)' => m = n
    BY <2>4
  <2>12. \A j \in 1 .. Sessions : dir'.id = j => j = k
    BY <2>6
  <2>13. \A j \in 1 .. Sessions : own'[j].pc = "exec" => j = k
    BY <1>2, <2>2, <2>8
  <2> QED BY <2>1, <2>3, <2>6, <2>7, <2>8, <2>9, <2>10, <2>11, <2>12, <2>13 DEF AppInv
<1>4. CASE ~Spawn(k)
  <2>1. UNCHANGED app /\ dir'.mpc = dir.mpc
    BY <1>4, OwnerKeeps, OwnerDirs
  <2>2. own'[k].pc \in Held \cup Tending \cup {"last", "reaped"} =>
            Reap(k) \/ (own'[k].child = own[k].child /\ own'[k].code = own[k].code)
    <3>1. Ended.pc \notin Held \cup Tending \cup {"last", "reaped"}
      BY Records DEF Held, Tending, Visiting, Closing
    <3> QED BY <1>4, <3>1, OwnerWrites
  <2>3. ASSUME NEW n \in 1 .. Apps, Alive(n)' PROVE (dir.mpc = n /\ SameBoot /\ ~acvs)' /\ Tended(n)'
    <3>1. dir.mpc = n /\ SameBoot /\ ~acvs /\ Tended(n) /\ Alive(n)
      BY <2>1, <2>3 DEF AppInv, Alive, Running
    <3>2. PICK j \in 1 .. Sessions : dir.id = j /\ own[j].child = n /\ own[j].pc \in Tending
      BY <3>1 DEF Tended
    <3>3. CASE j # k
      BY <1>1, <1>2, <2>1, <3>1, <3>2, <3>3 DEF Tended, SameBoot
    <3>4. CASE j = k
      <4>1. ~Reap(k)
        BY <3>1, <3>2, <3>4, OwnerActs
      <4>2. own'[k].pc # "last"
        <5> SUFFICES ASSUME own'[k].pc = "last" PROVE FALSE
          OBVIOUS
        <5>1. own[k].pc = "exec" /\ ~IdApp /\ Crossed(k)
          BY OwnerMoves
        <5>2. app[n] # "exec" /\ n # 0
          BY <3>2, <3>4, <5>1, Sizes DEF Crossed
        <5> QED BY <3>1, <5>1, <5>2 DEF IdApp, Alive
      <4>3. own'[k].pc \in Tending /\ own'[k].child = n
        BY <2>2, <3>2, <3>4, <4>1, <4>2, OwnerMoves
      <4> QED BY <1>1, <2>1, <3>1, <3>2, <3>4, <4>3 DEF Tended, SameBoot
    <3> QED BY <3>3, <3>4
  <2>4. \A n \in 1 .. Apps : Running(n)' => tmp'.cmd = n
    BY <1>1, <2>1 DEF AppInv, Running
  <2>5. ASSUME NEW n \in 1 .. Apps, app'[n] = "exec"
        PROVE  tmp'.cmd = 0 /\ \E j \in 1 .. Sessions : own'[j].pc = "exec" /\ own'[j].child = n
    <3>1. PICK j \in 1 .. Sessions : own[j].pc = "exec" /\ own[j].child = n /\ tmp.cmd = 0
      BY <2>1, <2>5 DEF AppInv
    <3>2. j # k
      <4> SUFFICES ASSUME j = k PROVE FALSE
        OBVIOUS
      <4> QED BY <2>1, <2>5, <3>1, OwnerMoves DEF Crossed
    <3> QED BY <1>1, <1>2, <3>1, <3>2
  <2>6. ASSUME NEW j \in 1 .. Sessions, dir'.id = j, own'[j].pc \in Tending \cup {"last"}
        PROVE  own'[j].child # 0 /\ dir'.mpc \in {0, own'[j].child}
    <3>1. CASE j # k
      BY <1>1, <1>2, <2>1, <2>6, <3>1 DEF AppInv
    <3>2. CASE j = k
      <4>1. own[k].pc \in Tending \cup {"last"}
        BY <1>4, <2>6, <3>2, OwnerMoves DEF Tending
      <4>2. "reaped" \notin Tending \cup {"last"}
        BY DEF Tending, Visiting
      <4>3. own'[k].child = own[k].child
        BY <2>2, <2>6, <3>2, <4>2, OwnerActs
      <4> QED BY <1>1, <2>1, <2>6, <3>2, <4>1, <4>3 DEF AppInv
    <3> QED BY <3>1, <3>2
  <2>7. ASSUME NEW j \in 1 .. Sessions, own'[j].pc = "exec"
        PROVE  dir'.id = j /\ dir'.mpc = own'[j].child /\ SameBoot'
    <3>1. j # k
      BY <1>4, <2>7, OwnerMoves
    <3> QED BY <1>1, <1>2, <2>1, <2>7, <3>1 DEF AppInv, SameBoot
  <2>8. ASSUME NEW j \in 1 .. Sessions, dir'.id = j, dir'.mpc # 0, own'[j].pc \in Closing \cup {"reaped"}
        PROVE  own'[j].code = (app'[dir'.mpc] = "ok")
    <3>1. CASE j # k
      BY <1>1, <1>2, <2>1, <2>8, <3>1 DEF AppInv
    <3>2. CASE j = k /\ Reap(k)
      <4>1. own[k].pc = "poll" /\ own'[k].code = (app[own[k].child] = "ok")
        BY <3>2, OwnerActs
      <4>2. dir.mpc = own[k].child
        BY <1>1, <2>1, <2>8, <3>2, <4>1 DEF AppInv, Tending
      <4> QED BY <2>1, <3>2, <4>1, <4>2
    <3>3. CASE j = k /\ ~Reap(k)
      <4>1. own[k].pc \in Closing \cup {"reaped"}
        BY <2>8, <3>3, OwnerMoves
      <4>2. own'[k].code = own[k].code
        BY <2>2, <2>8, <3>3 DEF Held
      <4> QED BY <1>1, <2>1, <2>8, <3>3, <4>1, <4>2 DEF AppInv
    <3> QED BY <3>1, <3>2, <3>3
  <2> QED BY <2>3, <2>4, <2>5, <2>6, <2>7, <2>8 DEF AppInv
<1> QED BY <1>3, <1>4

\* The owner's steps and the bridges: no owner forks one.
LEMMA OwnerBridges ==
    ASSUME TypeInv, BridgeInv, NEW k \in 1 .. Sessions, OwnerStep(k)
    PROVE  BridgeInv'
<1>1. UNCHANGED <<bridge, boot, dir.bridge, dir.boot>>
  BY OwnerKeeps, OwnerDirs DEF OwnerFrame
<1>2. call.pc = "starting" => call'.pc = "starting"
  BY OwnerCalls
<1> QED BY <1>1, <1>2 DEF BridgeInv, Up, SameBoot

\* An owner without the lock launches nothing and sets nothing up.
LEMMA OwnerOutside ==
    ASSUME TypeInv, NEW k \in 1 .. Sessions, OwnerStep(k), own[k].pc \notin {"spawn", "setup"}
    PROVE  UNCHANGED app /\ dir'.mpc = dir.mpc /\ (adapter.st = "none" => adapter'.st = "none")
<1>1. ~Spawn(k) /\ ~Setup(k)
  BY OwnerActs
<1>2. UNCHANGED app /\ dir'.mpc = dir.mpc /\ (adapter' = adapter \/ adapter' = NoAdapter)
  BY <1>1, OwnerKeeps, OwnerDirs
<1>3. NoAdapter.st = "none"
  BY Records
<1> QED BY <1>2, <1>3

\* The owner's steps and bare ground.
LEMMA OwnerGrounds ==
    ASSUME TypeInv, LockInv, AdmittedInv, AppInv, BridgeInv, GroundInv,
           NEW k \in 1 .. Sessions, OwnerStep(k)
    PROVE  GroundInv'
<1> DEFINE Still == UNCHANGED app /\ dir'.mpc = dir.mpc /\ (adapter.st = "none" => adapter'.st = "none")
<1>1. UNCHANGED <<boot, acvs, sessions, op, bridge, dir.id, dir.boot, dir.revoked, tmp.cmd>>
  <2>1. tmp'.cmd = tmp.cmd
    <3>1. [tmp EXCEPT !.intent = 2].cmd = tmp.cmd
      BY Types DEF Memory
    <3> QED BY <3>1, OwnerKeeps
  <2> QED BY <2>1, OwnerKeeps, OwnerDirs DEF OwnerFrame
<1>2. \A j \in 1 .. Sessions : j # k => own'[j] = own[j]
  BY OwnerWrites
<1>3. {"spawn", "setup", "cleared", "consume", "archived", "launch"} \subseteq Held /\ "setup" \in Visiting
  BY DEF Held, Visiting, Closing
<1>4. own[k].pc \notin {"spawn", "setup"} => Still
  BY OwnerOutside
<1>5. own[k].pc \notin Held => Still
  BY <1>3, <1>4
<1>6. own[k].pc \in {"spawn", "setup"} => dir.id = k
  BY <1>3 DEF AdmittedInv, Authorized
<1>7. /\ Still /\ Bare => Bare'
      /\ Still /\ NoApp /\ NoBridge => (NoApp /\ NoBridge)'
      /\ SameBoot' = SameBoot
  BY <1>1 DEF Bare, NoApp, NoBridge, Alive, Running, Up, SameBoot
<1> HIDE DEF Still
<1>8. Still => dir'.mpc = dir.mpc
  BY DEF Still
<1>9. /\ op'.pc \in {"prior", "stock"} => (NoApp /\ NoBridge)'
      /\ op'.pc \in {"old"} \cup Preparing => Bare'
      /\ op'.pc \in Preparing => dir'.mpc = 0
      /\ op'.pc \in {"boot", "fresh", "fork"} => dir'.id = sessions' + 1
      /\ op'.pc \in {"fresh", "fork"} => SameBoot'
      /\ op'.pc = "fork" => dir'.revoked = 0
  <2>1. op.pc # "idle" => Still
    BY <1>5, Holder
  <2>2. "idle" \notin {"prior", "stock", "old"} \cup Preparing
    BY DEF Preparing
  <2> QED BY <1>1, <1>7, <1>8, <2>1, <2>2 DEF GroundInv
<1>10. ASSUME NEW j \in 1 .. Sessions, dir'.id = j, own'[j].pc \in {"admit", "launch", "spawn"}
       PROVE  Bare' /\ dir'.mpc = 0 /\ SameBoot'
  <2>1. CASE j # k
    <3>1. Still
      BY <1>1, <1>4, <1>6, <1>10, <2>1
    <3> QED BY <1>1, <1>2, <1>7, <1>8, <1>10, <2>1, <3>1 DEF GroundInv
  <2>2. CASE j = k
    <3>1. own[k].pc \in {"admit", "launch"} \/ (own[k].pc = "archived" /\ call.pc = "done" /\ call.ok)
      BY <1>10, <2>2, OwnerMoves
    <3>2. Still
      BY <1>4, <3>1
    <3>3. own[k].pc = "archived" => OwnerAt({"archived"})
      BY <1>3, Holder DEF OwnerAt
    <3>4. Bare /\ dir.mpc = 0 /\ SameBoot
      BY <1>1, <1>10, <2>2, <3>1, <3>3 DEF GroundInv
    <3> QED BY <1>7, <1>8, <3>2, <3>4
  <2> QED BY <2>1, <2>2
<1>11. ASSUME NEW j \in 1 .. Sessions, dir'.id = j, OwnerBusy(j)' PROVE SameBoot'
  <2>1. OwnerBusy(j)
    BY <1>2, <1>11, OwnerWrites DEF OwnerBusy
  <2> QED BY <1>1, <1>7, <1>11, <2>1 DEF GroundInv
<1>12. ASSUME NEW j \in 1 .. Sessions, own'[j].pc = "spawn" PROVE tmp'.cmd = 0 /\ ~acvs'
  <2>1. CASE j # k
    BY <1>1, <1>2, <1>12, <2>1 DEF GroundInv
  <2>2. CASE j = k
    BY <1>1, <1>12, <2>2, OwnerMoves
  <2> QED BY <2>1, <2>2
<1>13. ASSUME NEW j \in 1 .. Sessions, own'[j].pc = "cleared" PROVE adapter'.st = "none"
  <2>1. CASE j # k
    <3>1. own[j].pc = "cleared" /\ own[k].pc \notin Held
      BY <1>2, <1>3, <1>13, <2>1, Holder
    <3> QED BY <1>5, <3>1 DEF GroundInv, Still
  <2>2. CASE j = k
    BY <1>13, <2>2, OwnerMoves
  <2> QED BY <2>1, <2>2
<1>14. ASSUME NEW j \in 1 .. Sessions, own'[j].pc \in {"consume", "archived"} PROVE Bare' /\ SameBoot'
  <2>1. CASE j # k
    <3>1. own[j].pc \in {"consume", "archived"} /\ own[k].pc \notin Held
      BY <1>2, <1>3, <1>14, <2>1, Holder
    <3> QED BY <1>5, <1>7, <3>1 DEF GroundInv
  <2>2. CASE j = k /\ own'[k].pc = "archived"
    <3>1. own[k].pc = "consume"
      BY <2>2, OwnerMoves
    <3> QED BY <1>4, <1>7, <3>1 DEF GroundInv
  <2>3. CASE j = k /\ own'[k].pc = "consume"
    <3>1. own[k].pc = "cleared" /\ Considered(k)
      BY <2>3, OwnerMoves
    <3>2. SameBoot
      <4>1. dir.id = k
        BY <3>1 DEF AdmittedInv, Authorized
      <4>2. OwnerBusy(k)
        BY <3>1 DEF OwnerBusy
      <4> QED BY <4>1, <4>2 DEF GroundInv
    <3>3. NoApp
      <4> SUFFICES ASSUME NEW n \in 1 .. Apps, Alive(n) PROVE FALSE
        BY DEF NoApp
      <4>1. app[n] = "exec"
        BY <3>1 DEF Considered, MpcRunning, Alive
      <4>2. PICK i \in 1 .. Sessions : own[i].pc = "exec"
        BY <4>1 DEF AppInv
      <4>3. "exec" \in Held
        BY DEF Held
      <4> QED BY <1>3, <3>1, <4>2, <4>3, Holder
    <3>4. NoBridge
      <4> SUFFICES ASSUME NEW b \in 1 .. Bridges, bridge[b].st = "fork" \/ Up(b) PROVE FALSE
        BY DEF NoBridge
      <4>1. bridge[b].st # "fork"
        BY <3>1 DEF Considered, BridgeInv
      <4>2. dir.bridge = b /\ b # 0
        BY <4>1, Sizes DEF BridgeInv
      <4> QED BY <3>1, <3>2, <4>1, <4>2 DEF Considered, BridgeLeft, IdBridge
    <3>5. Bare
      BY <3>1, <3>3, <3>4 DEF Bare, GroundInv
    <3> QED BY <1>4, <1>7, <3>1, <3>2, <3>5
  <2> QED BY <1>14, <2>1, <2>2, <2>3
<1>15. dir'.id = 0 => dir'.mpc = 0
  <2>1. k # 0
    BY Sizes
  <2>2. dir'.id = 0 => Still
    BY <1>1, <1>4, <1>6, <2>1
  <2> QED BY <1>1, <1>8, <2>2 DEF GroundInv
<1>16. ASSUME call'.pc = "done", call'.ok, op'.pc \in {"prior", "old"} \/ OwnerAt({"archived"})' PROVE dir'.mpc = 0
  <2>1. call' = call
    BY <1>16, OwnerCalls
  <2>2. CASE op'.pc \in {"prior", "old"}
    <3>1. own[k].pc \notin Held
      BY <1>1, <2>2, Holder
    <3> QED BY <1>1, <1>5, <1>8, <1>16, <2>1, <2>2, <3>1 DEF GroundInv
  <2>3. CASE OwnerAt({"archived"})'
    <3>1. PICK j \in 1 .. Sessions : own'[j].pc = "archived"
      BY <2>3 DEF OwnerAt
    <3>2. j # k
      <4> SUFFICES ASSUME j = k PROVE FALSE
        OBVIOUS
      <4>1. Archives(FALSE)
        BY <3>1, OwnerMoves
      <4>2. call.pc = "none"
        BY <4>1, Records DEF Archives
      <4> QED BY <1>16, <2>1, <4>2
    <3>3. own[j].pc = "archived" /\ own[k].pc \notin Held /\ lock = j
      BY <1>2, <1>3, <3>1, <3>2, Holder
    <3>4. OwnerAt({"archived"})
      BY <3>3 DEF OwnerAt
    <3>5. dir.mpc = 0
      BY <1>16, <2>1, <3>4 DEF GroundInv
    <3> QED BY <1>5, <1>8, <3>3, <3>5
  <2> QED BY <1>16, <2>2, <2>3
<1> QED BY <1>9, <1>10, <1>11, <1>12, <1>13, <1>14, <1>15, <1>16 DEF GroundInv

\* The owner's steps, the generations and their evidence.
LEMMA OwnerGenerations ==
    ASSUME TypeInv, LockInv, AdmittedInv, AppInv, GroundInv, GenerationsDoNotMix, EvidenceIsKept,
           NEW k \in 1 .. Sessions, OwnerStep(k)
    PROVE  GenerationsDoNotMix' /\ EvidenceIsKept'
<1>0. app \in [1 .. Apps -> AppStates] /\ dir \in [Folder -> Places] /\ Folder = Files
  BY Types, FolderIs
<1>1. UNCHANGED <<bridge, history, pruned>>
  BY OwnerKeeps DEF OwnerFrame
<1>2. CASE Spawn(k)
  <2>1. PICK n \in 1 .. Apps : /\ app[n] = "unborn" /\ app' = [app EXCEPT ![n] = "exec"]
                               /\ dir' = [dir EXCEPT !.mpc = n] /\ UNCHANGED adapter
    BY <1>2, OwnerActs
  <2>2. Bare /\ dir.mpc = 0
    BY <1>2, SpawnsOnBare
  <2>3. adapter'.st = "none" /\ \A b \in 1 .. Bridges : ~Up(b)'
    BY <1>1, <2>1, <2>2 DEF Bare, NoBridge, Up
  <2>4. GenerationsDoNotMix'
    BY <2>3 DEF GenerationsDoNotMix
  <2>5. dir'.mpc = n
    BY <1>0, <2>1 DEF Files
  <2>6. \A m \in 1 .. Apps : m # n => app'[m] = app[m] /\ m # 0
    BY <1>0, <2>1, Sizes
  <2>7. \A m \in 1 .. Apps : m # n /\ app'[m] # "unborn" => m \in Range(history.entries) \cup pruned
    BY <2>2, <2>6 DEF EvidenceIsKept
  <2>8. EvidenceIsKept'
    BY <1>1, <2>5, <2>7 DEF EvidenceIsKept
  <2> QED BY <2>4, <2>8
<1>3. CASE ~Spawn(k)
  <2>1. UNCHANGED app /\ dir'.mpc = dir.mpc
    BY <1>3, OwnerKeeps, OwnerDirs
  <2>2. EvidenceIsKept'
    BY <1>1, <2>1 DEF EvidenceIsKept
  <2>3. ASSUME NEW n \in 1 .. Apps, Alive(n), adapter'.st # "none" PROVE adapter'.app = n
    <3>1. CASE adapter' = adapter
      BY <2>3, <3>1 DEF GenerationsDoNotMix
    <3>2. CASE adapter' = NoAdapter
      BY <2>3, <3>2, Records
    <3>3. CASE Setup(k) /\ adapter' = [st |-> "idle", app |-> own[k].child]
      <4>1. own[k].pc = "setup" /\ "setup" \in Visiting
        BY <3>3, OwnerActs DEF Visiting
      <4>2. dir.id = k /\ own[k].pc \in Tending
        BY <4>1 DEF AdmittedInv, Authorized, Tending
      <4>3. dir.mpc = n /\ n # 0
        BY <2>3, Sizes DEF AppInv
      <4>4. own[k].child = n
        BY <4>2, <4>3 DEF AppInv
      <4> QED BY <3>3, <4>4
    <3> QED BY <3>1, <3>2, <3>3, OwnerKeeps
  <2>4. GenerationsDoNotMix'
    BY <1>1, <2>1, <2>3 DEF GenerationsDoNotMix, Alive, Running, Up
  <2> QED BY <2>2, <2>4
<1> QED BY <1>2, <1>3

-----------------------------------------------------------------------------
(* Applications, bridges and bare ground: the functions of the lock's       *)
(* holder.                                                                   *)

\* What a function of the holder does to the folder and to RAM.
LEMMA CallFolders ==
    ASSUME TypeInv, LockInv, TodoInv, CallStep
    PROVE  /\ dir'.mpc \in {0, dir.mpc} /\ dir'.id \in {0, dir.id} /\ dir'.boot \in {0, dir.boot}
           /\ dir'.revoked \in {0, dir.revoked} /\ dir'.bridge \in {0, dir.bridge}
           /\ dir'.mpc # dir.mpc => call.pc = "remove" /\ dir.mpc \in Range(history.entries) \cup pruned
           /\ dir'.id # dir.id => call.pc = "remove" /\ dir.mpc = 0 /\ call.whole
           /\ dir'.boot # dir.boot => call.pc = "remove"
           /\ dir'.revoked # dir.revoked => call.pc = "remove" /\ call.whole
           /\ dir'.bridge # dir.bridge => call.pc = "remove"
<1>0. dir \in [Folder -> Places] /\ Folder = Files /\ call.todo \in Seq(Folder \cup {"state", "snapshot"})
  BY Types, FolderIs DEF Callees
<1>1. CASE UNCHANGED <<dir.mpc, dir.id, dir.boot, dir.revoked, dir.bridge, dir.exit>>
  BY <1>1
<1>2. CASE Remove /\ call.todo # <<>>
           /\ \E f \in Folder : f = Head(call.todo) /\ dir' = [dir EXCEPT ![f] = 0]
  <2>1. PICK f \in Folder : f = Head(call.todo) /\ dir' = [dir EXCEPT ![f] = 0]
    BY <1>2
  <2>2. call.pc = "remove" /\ 1 \in DOMAIN call.todo /\ call.todo[1] = f
    BY <1>0, <1>2, <2>1 DEF Remove
  <2>3. /\ dir.mpc # 0 => f = "mpc" /\ dir.mpc \in Range(history.entries) \cup pruned
        /\ f \in Range(SessionFiles) => call.whole
    BY <2>1, <2>2 DEF TodoInv
  <2>4. \A g \in Folder : dir'[g] = IF g = f THEN 0 ELSE dir[g]
    BY <1>0, <2>1
  <2>5. {"mpc", "id", "boot", "revoked", "bridge"} \subseteq Folder
    BY <1>0 DEF Files
  <2>6. {"id", "revoked"} \subseteq Range(SessionFiles)
    BY TodoLists
  <2> QED BY <2>2, <2>3, <2>4, <2>5, <2>6
<1> QED BY <1>1, <1>2, CallDirs

\* archive_entry's removals, by their caller: no owner that launches or tends.
LEMMA RemovesAlone ==
    ASSUME TypeInv, LockInv, GroundInv, call.pc = "remove"
    PROVE  /\ NoApp /\ NoBridge
           /\ op.pc \in {"prior", "old", "idle"}
           /\ \A k \in 1 .. Sessions : own[k].pc \in Held => own[k].pc = "archived"
           /\ call.whole => \A k \in 1 .. Sessions : own[k].pc \notin Held
<1>1. "remove" \in ArchiveCall /\ "archived" \in Held /\ "idle" \notin {"prior", "old"}
  BY DEF ArchiveCall, Held, Closing
<1>2. NoApp /\ NoBridge
  BY <1>1, ArchivesBare
<1>3. \/ op.pc \in {"prior", "old"}
      \/ op.pc = "idle" /\ \E k \in 1 .. Sessions : lock = k /\ own[k].pc = "archived"
  BY <1>1, Callers
<1>4. call.whole => op.pc \in {"prior", "old"}
  BY Callers
<1> QED BY <1>1, <1>2, <1>3, <1>4, Holder

\* The functions and the application on record.
LEMMA CallApps ==
    ASSUME TypeInv, LockInv, TodoInv, AppInv, GroundInv, CallStep
    PROVE  AppInv'
<1>1. UNCHANGED <<app, own, boot, acvs>>
  BY CallKeeps
<1>2. /\ dir'.mpc \in {0, dir.mpc} /\ dir'.id \in {0, dir.id}
      /\ call.pc # "remove" => UNCHANGED <<dir.mpc, dir.id, dir.boot, tmp>>
  <2>1. call.pc # "remove" => ~Remove
    BY DEF Remove
  <2> QED BY <2>1, CallFolders, CallKeeps
<1>3. \A k \in 1 .. Sessions : k # 0
  BY Sizes
<1>4. CASE call.pc # "remove"
  BY <1>1, <1>2, <1>4 DEF AppInv, Alive, Running, SameBoot, Tended
<1>5. CASE call.pc = "remove"
  <2>1. NoApp /\ \A k \in 1 .. Sessions : own[k].pc # "exec"
    BY <1>5, RemovesAlone DEF Held
  <2>2. \A n \in 1 .. Apps : ~Alive(n)' /\ ~Running(n)' /\ app'[n] # "exec"
    BY <1>1, <2>1 DEF NoApp, Alive, Running
  <2>3. \A k \in 1 .. Sessions : dir'.id = k => dir.id = k
    BY <1>2, <1>3
  <2>4. dir'.mpc # 0 => dir'.mpc = dir.mpc
    BY <1>2
  <2> QED BY <1>1, <1>2, <2>1, <2>2, <2>3, <2>4 DEF AppInv
<1> QED BY <1>4, <1>5

\* The functions and the bridges: only bridge_start forks one, and waits for it.
LEMMA CallBridges ==
    ASSUME TypeInv, LockInv, TodoInv, BridgeInv, GroundInv, CallStep
    PROVE  BridgeInv'
<1>0. bridge \in [1 .. Bridges -> BridgeStates]
  BY Types
<1>1. UNCHANGED boot
  BY CallKeeps
<1>2. call.pc # "remove" => UNCHANGED <<dir.bridge, dir.boot>>
  BY CallFolders
<1>3. CASE bridge' = bridge
  <2>1. \A b \in 1 .. Bridges : bridge[b].st # "fork"
    <3> SUFFICES ASSUME NEW b \in 1 .. Bridges, bridge[b].st = "fork" PROVE FALSE
      OBVIOUS
    <3>1. call.pc = "starting"
      BY DEF BridgeInv
    <3> QED BY <3>1, CallMoves DEF Recorded
  <2>2. CASE call.pc # "remove"
    BY <1>1, <1>2, <1>3, <2>1, <2>2 DEF BridgeInv, Up, SameBoot
  <2>3. CASE call.pc = "remove"
    <3>1. \A b \in 1 .. Bridges : ~Up(b)'
      BY <1>3, <2>3, RemovesAlone DEF NoBridge, Up
    <3> QED BY <1>3, <2>1, <3>1 DEF BridgeInv
  <2> QED BY <2>2, <2>3
<1>4. CASE BridgeStart /\ bridge' # bridge
  <2>1. PICK b \in 1 .. Bridges : bridge[b].st = "unborn" /\ bridge' = [bridge EXCEPT ![b].st = "fork"]
    BY <1>4, CallKeeps
  <2>2. IdApp /\ ~IdBridge /\ Step("starting") /\ call.pc = "start"
    BY <1>4 DEF BridgeStart
  <2>3. SameBoot /\ call'.pc = "starting"
    <3>1. call' = [call EXCEPT !.pc = "starting"] /\ call \in Callees
      BY <2>2, Types DEF Step
    <3> QED BY <2>2, <3>1 DEF IdApp, Callees
  <2>4. SameBoot'
    BY <1>1, <1>2, <2>2, <2>3 DEF SameBoot
  <2>5. \A c \in 1 .. Bridges : bridge[c].st # "fork" /\ ~Up(c)
    <3>1. \A c \in 1 .. Bridges : bridge[c].st # "fork"
      BY <2>2 DEF BridgeInv
    <3>2. \A c \in 1 .. Bridges : ~Up(c)
      <4> SUFFICES ASSUME NEW c \in 1 .. Bridges, Up(c) PROVE FALSE
        OBVIOUS
      <4>1. dir.bridge = c /\ c # 0
        BY Sizes DEF BridgeInv
      <4> QED BY <2>2, <2>3, <4>1 DEF IdBridge
    <3> QED BY <3>1, <3>2
  <2>6. \A c \in 1 .. Bridges : c # b => bridge'[c] = bridge[c]
    BY <1>0, <2>1
  <2>7. bridge'[b].st = "fork"
    BY <1>0, <2>1 DEF BridgeStates
  <2>8. \A c \in 1 .. Bridges : ~Up(c)' /\ (bridge'[c].st = "fork" => c = b)
    BY <2>5, <2>6, <2>7 DEF Up
  <2> QED BY <2>3, <2>4, <2>8 DEF BridgeInv
<1> QED BY <1>3, <1>4, CallKeeps

\* The functions and bare ground: archive_entry returns with success only when no
\* application is on record.
LEMMA CallGrounds ==
    ASSUME TypeInv, LockInv, TodoInv, GroundInv, CallStep
    PROVE  GroundInv'
<1>0. dir.mpc \in 0 .. Apps /\ Apps \in Nat /\ tmp \in Memory
  BY Types, Sizes
<1>1. UNCHANGED <<app, own, boot, acvs, op, lock, sessions>>
  BY CallKeeps
<1>2. /\ dir'.mpc \in {0, dir.mpc} /\ dir'.id \in {0, dir.id} /\ dir'.boot \in {0, dir.boot}
      /\ dir'.revoked \in {0, dir.revoked} /\ (dir'.id # dir.id => dir.mpc = 0)
      /\ call.pc # "remove" => UNCHANGED <<dir.mpc, dir.id, dir.boot, dir.revoked>>
  BY CallFolders
<1>3. SameBoot => SameBoot'
  BY <1>1, <1>2 DEF SameBoot
<1>4. NoApp => bridge' = bridge
  <2> SUFFICES ASSUME NoApp, BridgeStart, IdApp PROVE FALSE
    <3>1. BridgeStart /\ bridge' # bridge => IdApp
      BY DEF BridgeStart
    <3> QED BY <3>1, CallKeeps
  <2>1. dir.mpc \in 1 .. Apps /\ Alive(dir.mpc)
    BY <1>0 DEF IdApp, Alive
  <2> QED BY <2>1 DEF NoApp
<1>5. adapter.st = "none" => adapter'.st = "none"
  BY CallKeeps
<1>6. (NoApp /\ NoBridge => (NoApp /\ NoBridge)') /\ (Bare => Bare')
  BY <1>1, <1>4, <1>5 DEF NoApp, NoBridge, Bare, Alive, Running, Up
<1>7. \A k \in 1 .. Sessions : dir'.id = k => dir.id = k
  BY <1>2, Sizes
<1>8. tmp'.cmd \in {0, tmp.cmd}
  <2>1. CASE tmp' = tmp
    BY <2>1
  <2>2. CASE Remove
    <3>1. \/ tmp' = tmp \/ tmp' = [NoState EXCEPT !.snapshot = tmp.snapshot] \/ tmp' = [tmp EXCEPT !.snapshot = 0]
      BY <2>2 DEF Remove
    <3>2. [NoState EXCEPT !.snapshot = tmp.snapshot].cmd = 0
      BY DEF NoState
    <3>3. [tmp EXCEPT !.snapshot = 0].cmd = tmp.cmd
      BY <1>0 DEF Memory
    <3> QED BY <3>1, <3>2, <3>3
  <2> QED BY <2>1, <2>2, CallKeeps
<1>9. /\ op'.pc \in {"prior", "stock"} => (NoApp /\ NoBridge)'
      /\ op'.pc \in {"old"} \cup Preparing => Bare'
      /\ op'.pc \in Preparing => dir'.mpc = 0
      /\ op'.pc \in {"boot", "fresh", "fork"} => dir'.id = sessions' + 1
      /\ op'.pc \in {"fresh", "fork"} => SameBoot'
      /\ op'.pc = "fork" => dir'.revoked = 0
  <2>1. op.pc \in {"boot", "fresh", "fork"} => call.pc # "remove"
    BY RemovesAlone
  <2> QED BY <1>1, <1>2, <1>3, <1>6, <2>1 DEF GroundInv
<1>10. /\ \A k \in 1 .. Sessions : dir'.id = k /\ own'[k].pc \in {"admit", "launch", "spawn"} =>
             Bare' /\ dir'.mpc = 0 /\ SameBoot'
       /\ \A k \in 1 .. Sessions : dir'.id = k /\ OwnerBusy(k)' => SameBoot'
       /\ \A k \in 1 .. Sessions : own'[k].pc = "spawn" => tmp'.cmd = 0 /\ ~acvs'
       /\ \A k \in 1 .. Sessions : own'[k].pc = "cleared" => adapter'.st = "none"
       /\ \A k \in 1 .. Sessions : own'[k].pc \in {"consume", "archived"} => Bare' /\ SameBoot'
       /\ dir'.id = 0 => dir'.mpc = 0
  BY <1>1, <1>2, <1>3, <1>5, <1>6, <1>7, <1>8 DEF GroundInv, OwnerBusy
<1>11. ASSUME call'.pc = "done", call'.ok, op'.pc \in {"prior", "old"} \/ OwnerAt({"archived"})' PROVE dir'.mpc = 0
  <2>1. op.pc \in {"prior", "old"} \/ OwnerAt({"archived"})
    BY <1>1, <1>11 DEF OwnerAt
  <2>2. call.pc \in ArchiveCall
    <3>1. call.pc \in StopCall \cup StartCall \cup RouteCall \cup ArchiveCall
      BY CallMoves, Types DEF Callees, CallPcs, StopCall, StartCall, RouteCall, ArchiveCall
    <3>2. OwnerAt({"archived"}) => op.pc = "idle" /\ own[lock].pc = "archived"
      BY Holder DEF OwnerAt, Held, Closing
    <3>3. op.pc \in {"prior", "old"} => ~OwnerAt(Calling)
      BY Holder DEF OwnerAt, Held, Visiting, Closing, Calling
    <3>4. op.pc \in {"prior", "old"} => op.pc \notin {"idle", "drained", "stopped", "started", "routed"}
      OBVIOUS
    <3> QED BY <2>1, <3>1, <3>2, <3>3, <3>4 DEF LockInv, OwnerAt, Calling
  <2>3. Remove /\ call.todo = <<>>
    BY <1>11, <2>2, CallMoves
  <2>4. dir.mpc = 0
    BY <2>3 DEF TodoInv, Remove
  <2> QED BY <1>2, <2>4
<1> QED BY <1>9, <1>10, <1>11 DEF GroundInv

\* The functions, the generations and their evidence: what leaves the folder is in the
\* history, and what leaves the history is pruned.
LEMMA CallGenerations ==
    ASSUME TypeInv, LockInv, TodoInv, GenerationsDoNotMix, EvidenceIsKept, CallStep
    PROVE  GenerationsDoNotMix' /\ EvidenceIsKept'
<1>0. bridge \in [1 .. Bridges -> BridgeStates] /\ adapter \in Adapters
      /\ history \in [entries : Seq(0 .. Apps), new : BOOLEAN] /\ history.entries \in Seq(0 .. Apps)
      /\ Len(history.entries) \in Nat /\ Len(history.entries) <= HistoryEntries
  BY Types
<1>1. UNCHANGED app
  BY CallKeeps
<1>2. GenerationsDoNotMix'
  <2>1. adapter'.app = adapter.app /\ (adapter'.st # "none" => adapter.st # "none")
    <3>1. CASE adapter' = [adapter EXCEPT !.st = "armed"] /\ adapter.st # "none"
      BY <1>0, <3>1 DEF Adapters
    <3> QED BY <3>1, CallKeeps
  <2>2. \A b \in 1 .. Bridges : Up(b)' => Up(b) /\ bridge'[b] = bridge[b]
    <3>1. CASE bridge' = bridge
      BY <3>1 DEF Up
    <3>2. ASSUME NEW c \in 1 .. Bridges, bridge' = [bridge EXCEPT ![c].st = "fork"]
          PROVE  \A b \in 1 .. Bridges : Up(b)' => Up(b) /\ bridge'[b] = bridge[b]
      <4>1. bridge'[c].st = "fork" /\ \A b \in 1 .. Bridges : b # c => bridge'[b] = bridge[b]
        BY <1>0, <3>2 DEF BridgeStates
      <4> QED BY <4>1 DEF Up
    <3> QED BY <3>1, <3>2, CallKeeps
  <2> QED BY <1>1, <2>1, <2>2 DEF GenerationsDoNotMix, Alive, Running
<1>3. Range(history.entries) \cup pruned \subseteq Range(history'.entries) \cup pruned'
  <2>1. CASE UNCHANGED <<history, pruned>>
    BY <2>1
  <2>2. CASE Stage /\ ~UNCHANGED <<history, pruned>>
    <3> DEFINE old == history.entries
               cut == Cut(Len(old))
    <3>1. history' = [entries |-> SubSeq(old, cut + 1, Len(old)), new |-> FALSE]
          /\ pruned' = pruned \cup Range(SubSeq(old, 1, cut))
      BY <2>2 DEF Stage
    <3>2. cut \in 0 .. Len(old) /\ Len(old) \in Nat
      BY <1>0, CutBounds
    <3>3. old \in Seq(0 .. Apps)
      BY <1>0
    <3> HIDE DEF old, cut
    <3> DEFINE kept == SubSeq(old, cut + 1, Len(old))
               gone == SubSeq(old, 1, cut)
    <3>4. /\ kept \in Seq(0 .. Apps) /\ gone \in Seq(0 .. Apps) /\ Len(kept) = Len(old) - cut /\ Len(gone) = cut
          /\ \A i \in 1 .. Len(old) - cut : kept[i] = old[cut + i]
          /\ \A i \in 1 .. cut : gone[i] = old[i]
      BY <3>2, <3>3, CutParts
    <3>5. history'.entries = kept /\ pruned' = pruned \cup Range(gone)
      BY <3>1
    <3> HIDE DEF kept, gone
    <3>6. ASSUME NEW i \in 1 .. Len(old) PROVE old[i] \in Range(kept) \cup Range(gone)
      <4>1. CASE i <= cut
        <5>1. i \in DOMAIN gone /\ gone[i] = old[i]
          BY <3>2, <3>4, <4>1
        <5> QED BY <5>1 DEF Range
      <4>2. CASE i > cut
        <5>1. i - cut \in 1 .. Len(old) - cut /\ cut + (i - cut) = i
          BY <3>2, <4>2
        <5>2. i - cut \in DOMAIN kept /\ kept[i - cut] = old[i]
          BY <3>4, <5>1
        <5> QED BY <5>2 DEF Range
      <4> QED BY <3>2, <4>1, <4>2
    <3>7. Range(old) \subseteq Range(kept) \cup Range(gone)
      BY <3>3, <3>6 DEF Range
    <3> QED BY <3>5, <3>7 DEF old
  <2>3. CASE Copy \/ Rename
    <3>1. pruned' = pruned /\ (history'.entries = history.entries \/ history'.entries = Append(history.entries, dir.mpc))
      <4>1. CASE Copy
        <5>1. history' = [history EXCEPT !.new = TRUE] /\ pruned' = pruned
          BY <4>1 DEF Copy
        <5>2. [history EXCEPT !.new = TRUE].entries = history.entries
          BY <1>0
        <5> QED BY <5>1, <5>2
      <4>2. CASE Rename
        <5>1. history' = history \/ history' = [entries |-> Append(history.entries, dir.mpc), new |-> FALSE]
          BY <4>2 DEF Rename
        <5>2. pruned' = pruned
          BY <4>2 DEF Rename
        <5> QED BY <5>1, <5>2
      <4> QED BY <2>3, <4>1, <4>2
    <3>2. Range(history.entries) \subseteq Range(Append(history.entries, dir.mpc))
      <4>1. \A i \in 1 .. Len(history.entries) : /\ i \in 1 .. Len(history.entries) + 1
                                                 /\ Append(history.entries, dir.mpc)[i] = history.entries[i]
        BY <1>0
      <4>2. DOMAIN Append(history.entries, dir.mpc) = 1 .. Len(history.entries) + 1
            /\ DOMAIN history.entries = 1 .. Len(history.entries)
        BY <1>0
      <4> QED BY <4>1, <4>2 DEF Range
    <3> QED BY <3>1, <3>2
  <2> QED BY <2>1, <2>2, <2>3, CallKeeps
<1>4. dir'.mpc = dir.mpc \/ dir.mpc \in Range(history.entries) \cup pruned
  BY CallFolders
<1>5. EvidenceIsKept'
  BY <1>1, <1>3, <1>4 DEF EvidenceIsKept
<1> QED BY <1>2, <1>5

-----------------------------------------------------------------------------
(* Applications, bridges and bare ground: the operator's script.            *)

\* The operator's script only ever takes life, and the only owner it writes is the one
\* that it leaves behind.
LEMMA OperatorTakes ==
    ASSUME TypeInv, LockInv, OperatorStep
    PROVE  /\ \A k \in 1 .. Sessions : own[k].pc \notin Held /\ own'[k].pc \notin Held
           /\ \A k \in 1 .. Sessions : own'[k] = own[k] \/ (StartOwner /\ own'[k].pc = "admit")
           /\ \A n \in 1 .. Apps : app'[n] = app[n] \/ (Running(n) /\ app'[n] = "bad")
           /\ \A b \in 1 .. Bridges : bridge'[b] = bridge[b] \/ (Up(b) /\ bridge'[b].st = "bad")
           /\ adapter' = adapter \/ adapter'.st = "none"
           /\ tmp'.cmd = tmp.cmd
           /\ StartOwner => op.pc = "fork" /\ op'.pc = "locator" /\ dir' = dir
<1>0. /\ own \in [1 .. Sessions -> Owners] /\ app \in [1 .. Apps -> AppStates] /\ tmp \in Memory
      /\ bridge \in [1 .. Bridges -> BridgeStates] /\ dir.mpc \in 0 .. Apps /\ dir.bridge \in 0 .. Bridges
      /\ sessions \in 0 .. Sessions /\ NoAdapter.st = "none" /\ Apps \in Nat /\ Bridges \in Nat /\ op \in Ops
  BY Types, Sizes, Records
<1>1. \A k \in 1 .. Sessions : own[k].pc \notin Held
  BY OperatorCalls, Holder
<1>2. \A k \in 1 .. Sessions : own'[k] = own[k] \/ (StartOwner /\ own'[k].pc = "admit")
  <2>1. ASSUME StartOwner PROVE \A k \in 1 .. Sessions : own'[k] = own[k] \/ own'[k].pc = "admit"
    <3>1. own' = [own EXCEPT ![sessions + 1] = [Unborn EXCEPT !.pc = "admit"]]
      BY <2>1 DEF StartOwner
    <3>2. [Unborn EXCEPT !.pc = "admit"].pc = "admit"
      BY DEF Unborn
    <3> QED BY <1>0, <3>1, <3>2
  <2> QED BY <2>1, OperatorKeeps
<1>3. \A k \in 1 .. Sessions : own'[k].pc \notin Held
  <2>1. "admit" \notin Held
    BY DEF Held, Visiting, Closing
  <2> QED BY <1>1, <1>2, <2>1
<1>4. \A n \in 1 .. Apps : app'[n] = app[n] \/ (Running(n) /\ app'[n] = "bad")
  BY <1>0, OperatorKeeps DEF IdApp
<1>5. \A b \in 1 .. Bridges : bridge'[b] = bridge[b] \/ (Up(b) /\ bridge'[b].st = "bad")
  <2>1. ASSUME IdBridge, bridge' = [bridge EXCEPT ![dir.bridge].st = "bad"]
        PROVE  \A b \in 1 .. Bridges : bridge'[b] = bridge[b] \/ (Up(b) /\ bridge'[b].st = "bad")
    <3>1. bridge' = [bridge EXCEPT ![dir.bridge] = [bridge[dir.bridge] EXCEPT !.st = "bad"]]
      BY <1>0, <2>1
    <3>2. ASSUME NEW r \in BridgeStates PROVE [r EXCEPT !.st = "bad"].st = "bad"
      BY DEF BridgeStates
    <3> QED BY <1>0, <2>1, <3>1, <3>2 DEF IdBridge
  <2> QED BY <2>1, OperatorKeeps
<1>6. tmp'.cmd = tmp.cmd
  <2>1. /\ [tmp EXCEPT !.snapshot = 1].cmd = tmp.cmd /\ [tmp EXCEPT !.snapshot = 2].cmd = tmp.cmd
        /\ [tmp EXCEPT !.stop = TRUE].cmd = tmp.cmd
    BY <1>0 DEF Memory
  <2>2. tmp' \in {tmp, [tmp EXCEPT !.snapshot = 1], [tmp EXCEPT !.snapshot = 2], [tmp EXCEPT !.stop = TRUE]}
    BY OperatorKeeps
  <2> QED BY <2>1, <2>2
<1>7. StartOwner => op.pc = "fork" /\ op'.pc = "locator" /\ dir' = dir
  BY <1>0 DEF StartOwner, GotoOp, Ops
<1> QED BY <1>0, <1>1, <1>2, <1>3, <1>4, <1>5, <1>6, <1>7, OperatorKeeps

\* Nothing that is bare grows anything under the operator's hands, and no application is
\* crossing exec meanwhile.
LEMMA OperatorBares ==
    ASSUME TypeInv, LockInv, AppInv, OperatorStep
    PROVE  /\ \A n \in 1 .. Apps : (Alive(n)' => Running(n)) /\ (Running(n)' => Running(n)) /\ app[n] # "exec"
                                   /\ app'[n] # "exec" /\ (Alive(n) => Running(n))
           /\ \A b \in 1 .. Bridges : /\ Up(b)' => Up(b) /\ bridge'[b] = bridge[b]
                                      /\ bridge'[b].st = "fork" => bridge[b].st = "fork"
           /\ NoApp => NoApp'
           /\ NoBridge => NoBridge'
           /\ Bare => Bare'
<1>1. \A n \in 1 .. Apps : app[n] # "exec"
  <2> SUFFICES ASSUME NEW n \in 1 .. Apps, app[n] = "exec" PROVE FALSE
    OBVIOUS
  <2>1. PICK k \in 1 .. Sessions : own[k].pc = "exec"
    BY DEF AppInv
  <2>2. "exec" \in Held
    BY DEF Held
  <2> QED BY <2>1, <2>2, OperatorTakes
<1>2. \A n \in 1 .. Apps : /\ (Alive(n)' => Running(n)) /\ (Running(n)' => Running(n)) /\ app'[n] # "exec"
                           /\ (Alive(n) => Running(n))
  BY <1>1, OperatorTakes DEF Alive, Running
<1>3. \A b \in 1 .. Bridges : /\ Up(b)' => Up(b) /\ bridge'[b] = bridge[b]
                              /\ bridge'[b].st = "fork" => bridge[b].st = "fork"
  BY OperatorTakes DEF Up
<1>4. adapter.st = "none" => adapter'.st = "none"
  BY OperatorTakes
<1> QED BY <1>1, <1>2, <1>3, <1>4 DEF NoApp, NoBridge, Bare, Alive

\* The operator's script and the application on record.
LEMMA OperatorApps ==
    ASSUME TypeInv, LockInv, AppInv, GroundInv, OperatorStep
    PROVE  AppInv'
<1>0. dir.mpc \in 0 .. Apps /\ Apps \in Nat /\ UNCHANGED boot /\ dir'.mpc = dir.mpc
      /\ \A k \in 1 .. Sessions : k > sessions => own[k] = Unborn
      /\ sessions \in 0 .. Sessions /\ Sessions \in Nat /\ Unborn.pc = "unborn"
  BY Types, Sizes, OperatorKeeps, OperatorDirs, Records
<1>1. (dir'.id = dir.id \/ (op.pc = "id" /\ dir'.id = sessions + 1))
      /\ (dir'.boot = dir.boot \/ (op.pc = "boot" /\ dir'.boot = boot))
  BY OperatorDirs
<1>2. op.pc \in Preparing => NoApp /\ dir.mpc = 0
  BY DEF GroundInv, Bare
<1>3. {"id", "boot", "fork"} \subseteq Preparing
  BY DEF Preparing
<1>4. ASSUME NEW n \in 1 .. Apps, Alive(n)' PROVE (dir.mpc = n /\ SameBoot /\ ~acvs)' /\ Tended(n)'
  <2>1. Running(n) /\ Alive(n)
    BY <1>4, OperatorBares DEF Alive
  <2>2. dir.mpc = n /\ SameBoot /\ ~acvs /\ Tended(n) /\ op.pc \notin Preparing
    BY <1>2, <2>1 DEF AppInv, NoApp
  <2>3. UNCHANGED <<dir.id, dir.boot>> /\ \A k \in 1 .. Sessions : own'[k] = own[k]
    BY <1>1, <1>3, <2>2, OperatorTakes
  <2>4. ~acvs'
    BY <2>1, <2>2, OperatorKeeps DEF MpcRunning
  <2> QED BY <1>0, <2>2, <2>3, <2>4 DEF SameBoot, Tended
<1>5. \A n \in 1 .. Apps : (Running(n)' => tmp'.cmd = n) /\ app'[n] # "exec"
  BY OperatorBares, OperatorTakes DEF AppInv
<1>6. ASSUME NEW k \in 1 .. Sessions, dir'.id = k, own'[k].pc \notin {"unborn", "admit"}
      PROVE  own'[k] = own[k] /\ dir.id = k
  <2>1. own'[k] = own[k]
    BY <1>6, OperatorTakes
  <2>2. k # sessions + 1
    <3> SUFFICES ASSUME k = sessions + 1 PROVE FALSE
      OBVIOUS
    <3>1. k > sessions
      <4>1. sessions \in Nat
        BY Types, Sizes
      <4> QED BY <4>1
    <3>2. own[k].pc = "unborn"
      BY <1>0, <3>1
    <3> QED BY <1>6, <2>1, <3>2
  <2> QED BY <1>1, <1>6, <2>1, <2>2
<1>7. \A k \in 1 .. Sessions : dir'.id = k /\ own'[k].pc \in Tending \cup {"last"} =>
          own'[k].child # 0 /\ dir'.mpc \in {0, own'[k].child}
  <2>1. {"unborn", "admit"} \cap (Tending \cup {"last"}) = {}
    BY DEF Tending, Visiting
  <2> QED BY <1>0, <1>6, <2>1 DEF AppInv
<1>8. \A k \in 1 .. Sessions : own'[k].pc # "exec"
  BY OperatorTakes DEF Held
<1>9. ASSUME NEW k \in 1 .. Sessions, dir'.id = k, dir'.mpc # 0, own'[k].pc \in Closing \cup {"reaped"}
      PROVE  own'[k].code = (app'[dir'.mpc] = "ok")
  <2>1. {"unborn", "admit"} \cap (Closing \cup {"reaped"}) = {}
    BY DEF Closing
  <2>2. own'[k] = own[k] /\ dir.id = k
    BY <1>6, <1>9, <2>1
  <2>3. own[k].code = (app[dir.mpc] = "ok") /\ dir.mpc \in 1 .. Apps
    BY <1>0, <1>9, <2>2 DEF AppInv
  <2>4. (app'[dir.mpc] = "ok") = (app[dir.mpc] = "ok")
    BY <2>3, OperatorTakes DEF Running
  <2> QED BY <1>0, <2>2, <2>3, <2>4
<1> QED BY <1>4, <1>5, <1>7, <1>8, <1>9 DEF AppInv

\* The operator's script and the bridges.
LEMMA OperatorBridges ==
    ASSUME TypeInv, LockInv, AppInv, BridgeInv, GroundInv, OperatorStep
    PROVE  BridgeInv'
<1>1. UNCHANGED <<boot, dir.bridge>> /\ (dir'.boot = dir.boot \/ op.pc = "boot")
  BY OperatorKeeps, OperatorDirs
<1>2. op.pc = "boot" => NoBridge
  BY DEF GroundInv, Bare, Preparing
<1>3. NoBridge => BridgeInv'
  BY OperatorBares DEF BridgeInv, NoBridge
<1>4. CASE dir'.boot = dir.boot
  <2>1. call.pc = "starting" => call'.pc = "starting"
    BY OperatorCalls
  <2> QED BY <1>1, <1>4, <2>1, OperatorBares DEF BridgeInv, SameBoot
<1> QED BY <1>1, <1>2, <1>3, <1>4

\* start finds no application and no bridge before it goes on.
LEMMA StartFinds ==
    ASSUME TypeInv, LockInv, AppInv, BridgeInv, OperatorStep, op.pc = "entry", op'.pc \in {"prior", "stock"}
    PROVE  NoApp /\ NoBridge
<1>0. op'.pc # "entry"
  OBVIOUS
<1>1. ~IdApp /\ ~Refused
  BY StartMoves
<1>2. NoApp
  <2> SUFFICES ASSUME NEW n \in 1 .. Apps, Alive(n) PROVE FALSE
    BY DEF NoApp
  <2>1. Running(n) /\ dir.mpc = n /\ SameBoot /\ n # 0
    BY OperatorBares, Sizes DEF AppInv
  <2> QED BY <1>1, <2>1 DEF IdApp
<1>3. NoBridge
  <2> SUFFICES ASSUME NEW b \in 1 .. Bridges, bridge[b].st = "fork" \/ Up(b) PROVE FALSE
    BY DEF NoBridge
  <2>1. CASE Up(b)
    <3>1. dir.bridge = b /\ SameBoot /\ b # 0
      BY <2>1, Sizes DEF BridgeInv
    <3> QED BY <1>1, <2>1, <3>1 DEF IdBridge, Refused
  <2>2. CASE bridge[b].st = "fork"
    <3>1. call.pc = "starting"
      BY <2>2 DEF BridgeInv
    <3>2. op.pc \in {"started", "routed", "idle"}
      BY <3>1, Callers DEF StartCall
    <3> QED BY <3>2
  <2> QED BY <2>1, <2>2
<1> QED BY <1>2, <1>3

\* The operator's script and bare ground.
LEMMA OperatorGrounds ==
    ASSUME TypeInv, LockInv, AppInv, BridgeInv, GroundInv, OperatorStep
    PROVE  GroundInv'
<1>0. /\ UNCHANGED boot /\ dir'.mpc = dir.mpc /\ sessions \in Nat
      /\ \A k \in 1 .. Sessions : k > sessions => own[k] = Unborn
      /\ Unborn.pc = "unborn" /\ NoCall.pc = "none"
  <2>1. sessions \in 0 .. Sessions /\ \A k \in 1 .. Sessions : k > sessions => own[k] = Unborn
    BY Types
  <2>2. sessions \in Nat
    BY <2>1, Sizes
  <2> QED BY <2>1, <2>2, OperatorKeeps, OperatorDirs, Records
<1>1. /\ dir'.id = dir.id \/ (op.pc = "id" /\ dir'.id = sessions + 1)
      /\ dir'.boot = dir.boot \/ (op.pc = "boot" /\ dir'.boot = boot)
  BY OperatorDirs
<1>2. sessions' = sessions \/ (op.pc = "fork" /\ op'.pc = "locator" /\ StartOwner /\ dir' = dir)
  BY OperatorKeeps, OperatorTakes
<1>3. op'.pc \in {"prior", "stock"} => (NoApp /\ NoBridge)'
  BY StartFinds, StartMoves, OperatorBares DEF GroundInv
<1>4. op'.pc \in {"old"} \cup Preparing => Bare'
  <2>1. op'.pc = "old" => NoApp /\ NoBridge /\ adapter'.st = "none"
    BY StartMoves DEF GroundInv
  <2>2. op'.pc = "snapshot" => Bare \/ (NoApp /\ NoBridge /\ adapter'.st = "none")
    BY StartMoves DEF GroundInv
  <2>3. op'.pc \in Preparing \ {"snapshot"} => op.pc \in Preparing
    BY StartMoves DEF Preparing
  <2>4. op.pc \in Preparing => Bare
    BY DEF GroundInv
  <2>5. NoApp /\ NoBridge /\ adapter'.st = "none" => Bare'
    BY OperatorBares DEF Bare
  <2>6. Bare => Bare'
    BY OperatorBares
  <2>7. op'.pc \in Preparing => op'.pc = "snapshot" \/ op'.pc \in Preparing \ {"snapshot"}
    OBVIOUS
  <2> QED BY <2>1, <2>2, <2>3, <2>4, <2>5, <2>6, <2>7
<1>5. op'.pc \in Preparing => dir'.mpc = 0
  <2>1. op'.pc = "snapshot" => dir.mpc = 0
    BY StartMoves DEF GroundInv
  <2>2. op'.pc \in Preparing \ {"snapshot"} => op.pc \in Preparing
    BY StartMoves DEF Preparing
  <2>3. op.pc \in Preparing => dir.mpc = 0
    BY DEF GroundInv
  <2> QED BY <1>0, <2>1, <2>2, <2>3
<1>6. op'.pc \in {"boot", "fresh", "fork"} => dir'.id = sessions' + 1
  <2>1. op'.pc \in {"boot", "fresh", "fork"} => sessions' = sessions
    BY <1>2
  <2>2. op'.pc = "boot" => dir'.id = sessions + 1
    BY StartMoves
  <2>3. op'.pc \in {"fresh", "fork"} => dir.id = sessions + 1 /\ dir'.id = dir.id
    BY <1>1, StartMoves DEF GroundInv
  <2> QED BY <2>1, <2>2, <2>3
<1>7. op'.pc \in {"fresh", "fork"} => SameBoot'
  <2>1. op'.pc = "fresh" => dir'.boot = boot
    BY StartMoves
  <2>2. op'.pc = "fork" => SameBoot /\ dir'.boot = dir.boot
    BY <1>1, StartMoves DEF GroundInv
  <2> QED BY <1>0, <2>1, <2>2 DEF SameBoot
<1>8. op'.pc = "fork" => dir'.revoked = 0
  BY StartMoves
<1>9. SameBoot => SameBoot'
  BY <1>0, <1>1 DEF SameBoot
<1>10. ASSUME NEW k \in 1 .. Sessions, dir'.id = k, own'[k].pc # "unborn"
       PROVE  \/ own'[k] = own[k] /\ dir.id = k
              \/ op.pc = "fork" /\ dir.id = k
  <2>1. CASE own'[k] = own[k]
    <3>1. k # sessions + 1
      <4> SUFFICES ASSUME k = sessions + 1 PROVE FALSE
        OBVIOUS
      <4>1. k > sessions
        <5>1. sessions \in Nat
          BY <1>0
        <5> QED BY <5>1
      <4>2. own[k].pc = "unborn"
        BY <1>0, <4>1
      <4> QED BY <1>10, <2>1, <4>2
    <3> QED BY <1>1, <1>10, <2>1, <3>1
  <2>2. CASE StartOwner
    BY <1>1, <1>10, <2>2, OperatorTakes
  <2> QED BY <2>1, <2>2, OperatorTakes
<1>11. ASSUME NEW k \in 1 .. Sessions, dir'.id = k, own'[k].pc \in {"admit", "launch", "spawn"}
       PROVE  Bare' /\ dir'.mpc = 0 /\ SameBoot'
  <2>1. Bare /\ dir.mpc = 0 /\ SameBoot
    BY <1>10, <1>11 DEF GroundInv, Preparing
  <2> QED BY <1>0, <1>9, <2>1, OperatorBares
<1>12. ASSUME NEW k \in 1 .. Sessions, dir'.id = k, OwnerBusy(k)' PROVE SameBoot'
  <2>1. SameBoot
    BY <1>10, <1>12 DEF GroundInv, OwnerBusy
  <2> QED BY <1>9, <2>1
<1>13. \A k \in 1 .. Sessions : own'[k].pc \notin {"spawn", "cleared", "consume", "archived"}
  BY OperatorTakes DEF Held, Closing
<1>14. dir'.id = 0 => dir'.mpc = 0
  <2>1. dir'.id = 0 => dir.id = 0
    BY <1>0, <1>1
  <2> QED BY <1>0, <2>1 DEF GroundInv
<1>15. call'.pc = "done" => ~(op'.pc \in {"prior", "old"} \/ OwnerAt({"archived"})')
  <2>1. op'.pc \in {"prior", "old"} => call'.pc # "done"
    BY StartMoves
  <2> QED BY <1>13, <2>1 DEF OwnerAt
<1> QED BY <1>3, <1>4, <1>5, <1>6, <1>7, <1>8, <1>11, <1>12, <1>13, <1>14, <1>15 DEF GroundInv

\* The operator's script, the generations and their evidence.
LEMMA OperatorGenerations ==
    ASSUME TypeInv, LockInv, AppInv, GenerationsDoNotMix, EvidenceIsKept, OperatorStep
    PROVE  GenerationsDoNotMix' /\ EvidenceIsKept'
<1>1. \A n \in 1 .. Apps : (Alive(n)' => Alive(n)) /\ (app'[n] # "unborn" => app[n] # "unborn")
  BY OperatorBares, OperatorTakes DEF Alive, Running
<1>2. adapter'.st # "none" => adapter' = adapter
  BY OperatorTakes
<1>3. UNCHANGED <<dir.mpc, history, pruned>>
  BY OperatorKeeps, OperatorDirs
<1>4. GenerationsDoNotMix'
  BY <1>1, <1>2, OperatorBares DEF GenerationsDoNotMix
<1>5. EvidenceIsKept'
  BY <1>1, <1>3 DEF EvidenceIsKept
<1> QED BY <1>4, <1>5

-----------------------------------------------------------------------------
(* Applications, bridges and bare ground: the processes.                    *)

\* What a process does to the owners, the folder and RAM, and to its like.
LEMMA ProcessMoves ==
    ASSUME TypeInv, Processes
    PROVE  /\ UNCHANGED <<boot, acvs, sessions, op, call, lock, history, pruned>>
           /\ UNCHANGED <<dir.mpc, dir.id, dir.boot, dir.revoked>>
           /\ \A k \in 1 .. Sessions :
                 own'[k].pc = own[k].pc /\ own'[k].child = own[k].child /\ own'[k].code = own[k].code
           /\ \A n \in 1 .. Apps : \/ app'[n] = app[n]
                                   \/ AppExec(n) /\ app[n] = "exec" /\ app'[n] = "init"
                                   \/ Running(n) /\ app'[n] \in {"chooser", "ready"}
                                   \/ Alive(n) /\ app'[n] \in {"ok", "bad"}
           /\ tmp'.cmd = tmp.cmd \/ \E n \in 1 .. Apps : AppExec(n) /\ app[n] = "exec" /\ tmp'.cmd = n
           /\ (\A n \in 1 .. Apps : ~AppExec(n)) => tmp'.cmd = tmp.cmd
           /\ adapter' = adapter \/ adapter'.st = "none"
<1>0. /\ own \in [1 .. Sessions -> Owners] /\ app \in [1 .. Apps -> AppStates] /\ tmp \in Memory
      /\ NoAdapter.st = "none"
  BY Types, Records
<1>1. /\ UNCHANGED <<boot, acvs, sessions, op, call, lock, history, pruned>>
      /\ UNCHANGED <<dir.mpc, dir.id, dir.boot, dir.revoked>>
  BY ProcessesKeep, ProcessDirs
<1>2. \A k \in 1 .. Sessions :
         own'[k].pc = own[k].pc /\ own'[k].child = own[k].child /\ own'[k].code = own[k].code
  <2>1. ASSUME NEW j \in 1 .. Sessions, own' = [own EXCEPT ![j].pending = TRUE]
        PROVE  \A k \in 1 .. Sessions :
                  own'[k].pc = own[k].pc /\ own'[k].child = own[k].child /\ own'[k].code = own[k].code
    <3>1. own' = [own EXCEPT ![j] = [own[j] EXCEPT !.pending = TRUE]]
      BY <1>0, <2>1
    <3>2. ASSUME NEW u \in Owners
          PROVE  /\ [u EXCEPT !.pending = TRUE].pc = u.pc /\ [u EXCEPT !.pending = TRUE].child = u.child
                 /\ [u EXCEPT !.pending = TRUE].code = u.code
      BY DEF Owners
    <3> QED BY <1>0, <3>1, <3>2
  <2> QED BY <2>1, ProcessesKeep
<1> DEFINE Lives == \A n \in 1 .. Apps : \/ app'[n] = app[n]
                                         \/ AppExec(n) /\ app[n] = "exec" /\ app'[n] = "init"
                                         \/ Running(n) /\ app'[n] \in {"chooser", "ready"}
                                         \/ Alive(n) /\ app'[n] \in {"ok", "bad"}
           Same  == tmp'.cmd = tmp.cmd
           First == \E n \in 1 .. Apps : AppExec(n) /\ app[n] = "exec" /\ tmp'.cmd = n
<1>q. ASSUME Lives, Same \/ First, adapter' = adapter \/ adapter'.st = "none",
             (\A n \in 1 .. Apps : ~AppExec(n)) => Same
      PROVE  /\ Lives /\ (Same \/ First) /\ (adapter' = adapter \/ adapter'.st = "none")
             /\ (\A n \in 1 .. Apps : ~AppExec(n)) => Same
  BY <1>q
<1>3. ASSUME NEW m \in 1 .. Apps, AppExec(m)
      PROVE  Lives /\ First /\ UNCHANGED adapter
  <2>1. app[m] = "exec" /\ app' = [app EXCEPT ![m] = "init"] /\ tmp' = [NoState EXCEPT !.cmd = m, !.snapshot = tmp.snapshot]
        /\ UNCHANGED adapter
    BY <1>3 DEF AppExec
  <2>2. tmp'.cmd = m
    BY <2>1 DEF NoState
  <2> QED BY <1>0, <1>3, <2>1, <2>2
<1>4. ASSUME NEW m \in 1 .. Apps, AppProgress(m) PROVE Lives /\ Same /\ UNCHANGED adapter
  <2>1. Running(m) /\ app' = [app EXCEPT ![m] = IF app[m] = "init" THEN "chooser" ELSE "ready"]
        /\ UNCHANGED <<tmp, adapter>>
    BY <1>4 DEF AppProgress, Running
  <2> QED BY <1>0, <2>1
<1>5. ASSUME NEW m \in 1 .. Apps, AppIntent(m) \/ AppClose(m) PROVE Lives /\ Same /\ UNCHANGED adapter
  <2>1. UNCHANGED <<app, adapter>>
    BY <1>5 DEF AppIntent, AppClose
  <2>2. tmp'.cmd = tmp.cmd
    <3>1. tmp' \in {[tmp EXCEPT !.intent = 1], [tmp EXCEPT !.intent = 3], [tmp EXCEPT !.closed = TRUE]}
      BY <1>5 DEF AppIntent, AppClose
    <3>2. /\ [tmp EXCEPT !.intent = 1].cmd = tmp.cmd /\ [tmp EXCEPT !.intent = 3].cmd = tmp.cmd
          /\ [tmp EXCEPT !.closed = TRUE].cmd = tmp.cmd
      BY <1>0 DEF Memory
    <3> QED BY <3>1, <3>2
  <2> QED BY <2>1, <2>2
<1>6. ASSUME NEW m \in 1 .. Apps, AppExit(m) PROVE Lives /\ Same /\ UNCHANGED adapter
  <2>1. Alive(m) /\ (app' = [app EXCEPT ![m] = "ok"] \/ app' = [app EXCEPT ![m] = "bad"])
        /\ UNCHANGED <<tmp, adapter>>
    BY <1>6 DEF AppExit
  <2> QED BY <1>0, <2>1
<1>7. ASSUME NEW b \in 1 .. Bridges, BridgeBegins(b) \/ BridgeReady(b) \/ BridgeExit(b) \/ BridgeReceipt(b)
      PROVE  Lives /\ Same /\ UNCHANGED adapter
  BY <1>7 DEF BridgeBegins, BridgeReady, BridgeExit, BridgeReceipt
<1>8. ASSUME AdapterExit PROVE Lives /\ Same /\ adapter'.st = "none"
  BY <1>0, <1>8 DEF AdapterExit
<1>9. ASSUME NEW k \in 1 .. Sessions, Wake(k) PROVE Lives /\ Same /\ UNCHANGED adapter
  BY <1>9 DEF Wake
<1> HIDE DEF Lives, Same, First
<1>10. /\ Lives /\ (Same \/ First) /\ (adapter' = adapter \/ adapter'.st = "none")
       /\ (\A n \in 1 .. Apps : ~AppExec(n)) => Same
  BY <1>3, <1>4, <1>5, <1>6, <1>7, <1>8, <1>9 DEF Processes
<1> QED BY <1>1, <1>2, <1>10 DEF Lives, Same, First

\* How a bridge goes on.
LEMMA BridgeMoves ==
    ASSUME TypeInv, Processes
    PROVE  /\ \A b \in 1 .. Bridges :
                 \/ bridge'[b].st = bridge[b].st /\ bridge'[b].app = bridge[b].app
                 \/ BridgeBegins(b) /\ bridge[b].st = "fork" /\ bridge'[b].st = "up" /\ bridge'[b].app = tmp.cmd
                    /\ dir'.bridge = b /\ UNCHANGED <<app, tmp, adapter>>
                 \/ Up(b) /\ bridge'[b].st \in {"ready", "ok", "bad"} /\ bridge'[b].app = bridge[b].app
                 \/ bridge[b].st \in {"ok", "bad"} /\ bridge'[b].st = "gone"
           /\ dir'.bridge = dir.bridge \/ \E b \in 1 .. Bridges : bridge[b].st = "fork" /\ BridgeBegins(b)
<1>0. bridge \in [1 .. Bridges -> BridgeStates] /\ dir \in [Folder -> Places] /\ Folder = Files
  BY Types, FolderIs
<1> DEFINE Goes(b) ==
               \/ bridge'[b].st = bridge[b].st /\ bridge'[b].app = bridge[b].app
               \/ BridgeBegins(b) /\ bridge[b].st = "fork" /\ bridge'[b].st = "up" /\ bridge'[b].app = tmp.cmd
                  /\ dir'.bridge = b /\ UNCHANGED <<app, tmp, adapter>>
               \/ Up(b) /\ bridge'[b].st \in {"ready", "ok", "bad"} /\ bridge'[b].app = bridge[b].app
               \/ bridge[b].st \in {"ok", "bad"} /\ bridge'[b].st = "gone"
<1>1. ASSUME bridge' = bridge PROVE \A c \in 1 .. Bridges : Goes(c)
  BY <1>1
<1>2. ASSUME NEW b \in 1 .. Bridges, BridgeBegins(b) PROVE \A c \in 1 .. Bridges : Goes(c)
  <2>1. /\ bridge[b].st = "fork" /\ bridge' = [bridge EXCEPT ![b] = [bridge[b] EXCEPT !.st = "up", !.app = tmp.cmd]]
        /\ dir' = [dir EXCEPT !.bridge = b] /\ UNCHANGED <<app, tmp, adapter>>
    BY <1>0, <1>2 DEF BridgeBegins
  <2>2. ASSUME NEW r \in BridgeStates, NEW v PROVE [r EXCEPT !.st = "up", !.app = v].st = "up" /\ [r EXCEPT !.st = "up", !.app = v].app = v
    BY DEF BridgeStates
  <2>3. bridge'[b].st = "up" /\ bridge'[b].app = tmp.cmd /\ \A c \in 1 .. Bridges : c # b => bridge'[c] = bridge[c]
    BY <1>0, <2>1, <2>2
  <2>4. dir'.bridge = b
    BY <1>0, <2>1 DEF Files
  <2> QED BY <1>2, <2>1, <2>3, <2>4
<1>3. ASSUME NEW b \in 1 .. Bridges, BridgeReady(b) \/ BridgeExit(b) PROVE \A c \in 1 .. Bridges : Goes(c)
  <2>1. Up(b) /\ \E s \in {"ready", "ok", "bad"} : bridge' = [bridge EXCEPT ![b] = [bridge[b] EXCEPT !.st = s]]
    BY <1>0, <1>3 DEF BridgeReady, BridgeExit, Up
  <2>2. ASSUME NEW r \in BridgeStates, NEW v PROVE [r EXCEPT !.st = v].st = v /\ [r EXCEPT !.st = v].app = r.app
    BY DEF BridgeStates
  <2>3. bridge'[b].st \in {"ready", "ok", "bad"} /\ bridge'[b].app = bridge[b].app
        /\ \A c \in 1 .. Bridges : c # b => bridge'[c] = bridge[c]
    BY <1>0, <2>1, <2>2
  <2> QED BY <2>1, <2>3
<1>4. ASSUME NEW b \in 1 .. Bridges, BridgeReceipt(b) PROVE \A c \in 1 .. Bridges : Goes(c)
  <2>1. bridge' = [bridge EXCEPT ![b] = Gone] /\ Gone.st = "gone" /\ bridge[b].st \in {"ok", "bad"}
    BY <1>4 DEF BridgeReceipt, Gone
  <2> QED BY <1>0, <2>1
<1>5. ASSUME NEW n \in 1 .. Apps, AppExec(n) \/ AppProgress(n) \/ AppIntent(n) \/ AppClose(n) \/ AppExit(n)
      PROVE bridge' = bridge
  BY <1>5 DEF AppExec, AppProgress, AppIntent, AppClose, AppExit
<1>6. (AdapterExit \/ \E k \in 1 .. Sessions : Wake(k)) => bridge' = bridge
  BY DEF AdapterExit, Wake
<1>7. dir'.bridge = dir.bridge \/ \E b \in 1 .. Bridges : bridge[b].st = "fork" /\ BridgeBegins(b)
  BY ProcessDirs DEF BridgeBegins
<1> QED BY <1>1, <1>2, <1>3, <1>4, <1>5, <1>6, <1>7 DEF Processes

\* A process that starts is one that was launched or forked.
LEMMA ProcessBares ==
    ASSUME TypeInv, Processes
    PROVE  /\ \A n \in 1 .. Apps : /\ Alive(n)' => Alive(n)
                                   /\ app'[n] = "exec" => app[n] = "exec"
                                   /\ app'[n] # "unborn" => app[n] # "unborn"
                                   /\ app[n] # app'[n] => Alive(n)
           /\ NoApp => NoApp'
           /\ NoBridge => NoBridge'
           /\ Bare => Bare'
           /\ SameBoot' = SameBoot
<1>1. \A n \in 1 .. Apps : /\ Alive(n)' => Alive(n)
                           /\ app'[n] = "exec" => app[n] = "exec"
                           /\ app'[n] # "unborn" => app[n] # "unborn"
                           /\ app[n] # app'[n] => Alive(n)
  BY ProcessMoves DEF Alive, Running
<1>2. NoBridge => NoBridge'
  BY BridgeMoves DEF NoBridge, Up
<1>3. SameBoot' = SameBoot
  BY ProcessMoves DEF SameBoot
<1>4. adapter.st = "none" => adapter'.st = "none"
  BY ProcessMoves
<1>5. NoApp => NoApp'
  BY <1>1 DEF NoApp
<1> QED BY <1>1, <1>2, <1>3, <1>4, <1>5 DEF Bare

\* The processes and the application on record.
LEMMA ProcessApps ==
    ASSUME TypeInv, AppInv, Processes
    PROVE  AppInv'
<1>0. dir.mpc \in 0 .. Apps /\ Apps \in Nat
  BY Types, Sizes
<1>1. UNCHANGED <<boot, acvs, dir.mpc, dir.id, dir.boot>>
      /\ \A k \in 1 .. Sessions :
            own'[k].pc = own[k].pc /\ own'[k].child = own[k].child /\ own'[k].code = own[k].code
  BY ProcessMoves
<1>2. \A n \in 1 .. Apps : Alive(n)' => (dir.mpc = n /\ SameBoot /\ ~acvs)' /\ Tended(n)'
  BY <1>1, ProcessBares DEF AppInv, Tended
<1>3. \A m, n \in 1 .. Apps : Alive(m) /\ Alive(n) => m = n
  BY DEF AppInv
<1>4. ASSUME NEW n \in 1 .. Apps, Running(n)' PROVE tmp'.cmd = n
  <2>1. CASE AppExec(n)
    <3>1. \A m \in 1 .. Apps : AppExec(m) => Alive(m)
      BY DEF AppExec, Alive
    <3>2. PICK m \in 1 .. Apps : AppExec(m) /\ tmp'.cmd = m
      <4>1. tmp' = [NoState EXCEPT !.cmd = n, !.snapshot = tmp.snapshot]
        BY <2>1 DEF AppExec
      <4>2. tmp'.cmd = n
        BY <4>1 DEF NoState
      <4> QED BY <2>1, <4>2
    <3> QED BY <1>3, <2>1, <3>1, <3>2
  <2>2. CASE ~AppExec(n)
    <3>1. Running(n)
      BY <1>4, <2>2, ProcessMoves DEF Running
    <3>2. app[n] # "exec" /\ tmp.cmd = n
      BY <3>1 DEF Running, AppInv
    <3>3. \A m \in 1 .. Apps : ~AppExec(m)
      <4> SUFFICES ASSUME NEW m \in 1 .. Apps, AppExec(m) PROVE FALSE
        OBVIOUS
      <4>1. Alive(m) /\ Alive(n) /\ app[m] = "exec"
        BY <3>1 DEF AppExec, Alive
      <4> QED BY <1>3, <3>2, <4>1
    <3> QED BY <3>2, <3>3, ProcessMoves
  <2> QED BY <2>1, <2>2
<1>5. ASSUME NEW n \in 1 .. Apps, app'[n] = "exec"
      PROVE  tmp'.cmd = 0 /\ \E k \in 1 .. Sessions : own'[k].pc = "exec" /\ own'[k].child = n
  <2>1. app[n] = "exec" /\ Alive(n)
    BY <1>5, ProcessBares DEF Alive
  <2>2. tmp.cmd = 0 /\ \E k \in 1 .. Sessions : own[k].pc = "exec" /\ own[k].child = n
    BY <2>1 DEF AppInv
  <2>3. \A m \in 1 .. Apps : ~AppExec(m)
    <3> SUFFICES ASSUME NEW m \in 1 .. Apps, AppExec(m) PROVE FALSE
      OBVIOUS
    <3>1. Alive(m) /\ app' = [app EXCEPT ![m] = "init"]
      BY DEF AppExec, Alive
    <3>2. m = n
      BY <1>3, <2>1, <3>1
    <3> QED BY <1>5, <3>1, <3>2, Types
  <2> QED BY <1>1, <2>2, <2>3, ProcessMoves
<1>6. /\ \A k \in 1 .. Sessions : dir'.id = k /\ own'[k].pc \in Tending \cup {"last"} =>
            own'[k].child # 0 /\ dir'.mpc \in {0, own'[k].child}
      /\ \A k \in 1 .. Sessions : own'[k].pc = "exec" => dir'.id = k /\ dir'.mpc = own'[k].child /\ SameBoot'
  BY <1>1, ProcessBares DEF AppInv
<1>7. ASSUME NEW k \in 1 .. Sessions, dir'.id = k, dir'.mpc # 0, own'[k].pc \in Closing \cup {"reaped"}
      PROVE  own'[k].code = (app'[dir'.mpc] = "ok")
  <2>1. own[k].code = (app[dir.mpc] = "ok") /\ dir.mpc \in 1 .. Apps
    BY <1>0, <1>1, <1>7 DEF AppInv
  <2>2. ~Alive(dir.mpc)
    <3> SUFFICES ASSUME Alive(dir.mpc) PROVE FALSE
      OBVIOUS
    <3>1. own[k].pc \in Tending
      BY <1>1, <1>7, <2>1 DEF AppInv, Tended
    <3> QED BY <1>1, <1>7, <3>1 DEF Tending, Visiting, Closing
  <2>3. app'[dir.mpc] = app[dir.mpc]
    BY <2>1, <2>2, ProcessBares
  <2> QED BY <1>1, <1>7, <2>1, <2>3
<1> QED BY <1>2, <1>4, <1>5, <1>6, <1>7 DEF AppInv

\* The processes and the bridges: the child records its bridge before it is up.
LEMMA ProcessBridges ==
    ASSUME TypeInv, BridgeInv, Processes
    PROVE  BridgeInv'
<1>1. UNCHANGED call /\ SameBoot' = SameBoot
  BY ProcessMoves, ProcessBares
<1>2. ASSUME NEW b \in 1 .. Bridges, Up(b)' PROVE dir'.bridge = b /\ SameBoot'
  <2>1. CASE BridgeBegins(b) /\ bridge[b].st = "fork" /\ dir'.bridge = b
    BY <1>1, <2>1 DEF BridgeInv
  <2>2. CASE Up(b)
    <3>1. \A c \in 1 .. Bridges : bridge[c].st # "fork"
      <4> SUFFICES ASSUME NEW c \in 1 .. Bridges, bridge[c].st = "fork" PROVE FALSE
        OBVIOUS
      <4>1. b # c
        BY <2>2 DEF Up
      <4> QED BY <2>2, <4>1 DEF BridgeInv
    <3>2. dir'.bridge = dir.bridge
      BY <3>1, BridgeMoves
    <3> QED BY <1>1, <2>2, <3>2 DEF BridgeInv
  <2> QED BY <1>2, <2>1, <2>2, BridgeMoves DEF Up
<1>3. ASSUME NEW b \in 1 .. Bridges, bridge'[b].st = "fork"
      PROVE  /\ call'.pc = "starting" /\ SameBoot'
             /\ \A c \in 1 .. Bridges : c # b => bridge'[c].st # "fork" /\ ~Up(c)'
  <2>1. bridge[b].st = "fork"
    BY <1>3, BridgeMoves
  <2>2. \A c \in 1 .. Bridges : c # b => bridge[c].st # "fork" /\ ~Up(c)
    BY <2>1 DEF BridgeInv
  <2>3. \A c \in 1 .. Bridges : c # b => bridge'[c].st # "fork" /\ ~Up(c)'
    BY <2>2, BridgeMoves DEF Up
  <2> QED BY <1>1, <2>1, <2>3 DEF BridgeInv
<1> QED BY <1>2, <1>3 DEF BridgeInv

\* The processes and bare ground.
LEMMA ProcessGrounds ==
    ASSUME TypeInv, LockInv, AppInv, GroundInv, Processes
    PROVE  GroundInv'
<1>1. /\ UNCHANGED <<boot, acvs, sessions, op, call, lock, dir.mpc, dir.id, dir.boot, dir.revoked>>
      /\ \A k \in 1 .. Sessions : own'[k].pc = own[k].pc
  BY ProcessMoves
<1>2. adapter.st = "none" => adapter'.st = "none"
  BY ProcessMoves
<1>3. ASSUME NEW k \in 1 .. Sessions, own[k].pc = "spawn" PROVE tmp'.cmd = 0
  <2>1. tmp.cmd = 0
    BY <1>3 DEF GroundInv
  <2>2. \A n \in 1 .. Apps : ~AppExec(n)
    <3> SUFFICES ASSUME NEW n \in 1 .. Apps, AppExec(n) PROVE FALSE
      OBVIOUS
    <3>1. PICK j \in 1 .. Sessions : own[j].pc = "exec"
      BY DEF AppExec, AppInv
    <3>2. own[j].pc \in Held /\ own[k].pc \in Held
      BY <1>3, <3>1 DEF Held
    <3> QED BY <1>3, <3>1, <3>2, Holder
  <2> QED BY <2>1, <2>2, ProcessMoves
<1> QED BY <1>1, <1>2, <1>3, ProcessBares DEF GroundInv, OwnerBusy, OwnerAt

\* The processes, the generations and their evidence: a bridge serves the application
\* whose state it finds.
LEMMA ProcessGenerations ==
    ASSUME TypeInv, AppInv, GenerationsDoNotMix, EvidenceIsKept, Processes
    PROVE  GenerationsDoNotMix' /\ EvidenceIsKept'
<1>1. UNCHANGED <<dir.mpc, history, pruned>>
  BY ProcessMoves
<1>2. EvidenceIsKept'
  BY <1>1, ProcessBares DEF EvidenceIsKept
<1>3. ASSUME NEW n \in 1 .. Apps, Alive(n)', adapter'.st # "none" PROVE adapter'.app = n
  BY <1>3, ProcessBares, ProcessMoves DEF GenerationsDoNotMix
<1>4. ASSUME NEW n \in 1 .. Apps, Alive(n)', NEW b \in 1 .. Bridges, Up(b)', bridge'[b].app # 0
      PROVE  bridge'[b].app = n
  <2>1. CASE Up(b) /\ bridge'[b].app = bridge[b].app
    BY <1>4, <2>1, ProcessBares DEF GenerationsDoNotMix
  <2>2. CASE bridge'[b].app = tmp.cmd
    <3>1. Alive(n)
      BY <1>4, ProcessBares
    <3>2. app[n] # "exec"
      BY <1>4, <2>2 DEF AppInv
    <3> QED BY <2>2, <3>1, <3>2 DEF AppInv, Alive
  <2> QED BY <1>4, <2>1, <2>2, BridgeMoves DEF Up
<1> QED BY <1>2, <1>3, <1>4 DEF GenerationsDoNotMix

-----------------------------------------------------------------------------
(* What may come between two steps, and the theorems.                       *)

\* The application, the bridges and the ground, under the lock.
GroundsInv == AppInv /\ BridgeInv /\ GroundInv /\ GenerationsDoNotMix /\ EvidenceIsKept

\* A killed script leaves no bridge that is only forked; a command finds the lock free.
LEMMA ScriptsComeAndGo ==
    ASSUME TypeInv, LockInv, GroundsInv, UNCHANGED vars \/ Interrupt \/ \E c \in Commands : Command(c)
    PROVE  GroundsInv'
<1>1. /\ UNCHANGED <<dir, tmp, history, boot, own, app, bridge, adapter, acvs, sessions, pruned>>
      /\ \/ UNCHANGED <<op, call, lock>>
         \/ Recorded /\ op'.pc = "idle" /\ call'.pc = "none"
         \/ op'.pc = "entry" /\ call' = call /\ lock' = Operator
  <2>1. CASE UNCHANGED vars
    BY <2>1 DEF vars
  <2>2. CASE Interrupt
    BY <2>2, Records DEF Interrupt
  <2>3. ASSUME NEW c \in Commands, Command(c)
        PROVE  /\ UNCHANGED <<dir, tmp, history, boot, own, app, bridge, adapter, acvs, sessions, pruned>>
               /\ op'.pc = "entry" /\ call' = call /\ lock' = Operator
    <3>1. [Idle EXCEPT !.cmd = c, !.pc = "entry", !.clean = TRUE].pc = "entry"
      BY DEF Idle
    <3> QED BY <2>3, <3>1 DEF Command, OpFrame
  <2> QED BY <2>1, <2>2, <2>3
<1>2. Operator \notin 1 .. Sessions
  BY Sizes DEF Operator
<1>3. AppInv' /\ GenerationsDoNotMix' /\ EvidenceIsKept'
  BY <1>1 DEF GroundsInv, AppInv, GenerationsDoNotMix, EvidenceIsKept, Alive, Running, Up, SameBoot, Tended
<1>4. BridgeInv'
  <2>1. Recorded => \A b \in 1 .. Bridges : bridge[b].st # "fork"
    BY DEF Recorded
  <2> QED BY <1>1, <2>1 DEF GroundsInv, BridgeInv, Up, SameBoot
<1>5. GroundInv'
  <2>1. Bare' = Bare /\ NoApp' = NoApp /\ NoBridge' = NoBridge /\ SameBoot' = SameBoot
        /\ \A k \in 1 .. Sessions : OwnerBusy(k)' = OwnerBusy(k)
    BY <1>1 DEF Bare, NoApp, NoBridge, SameBoot, Alive, Running, Up, OwnerBusy
  <2>2. CASE UNCHANGED <<op, call, lock>>
    BY <1>1, <2>1, <2>2 DEF GroundsInv, GroundInv, OwnerAt
  <2>3. CASE op'.pc = "idle" /\ call'.pc = "none"
    BY <1>1, <2>1, <2>3 DEF GroundsInv, GroundInv, Preparing
  <2>4. CASE op'.pc = "entry" /\ call' = call /\ lock' = Operator
    <3>1. ~OwnerAt({"archived"})'
      BY <1>2, <2>4 DEF OwnerAt
    <3> QED BY <1>1, <2>1, <2>4, <3>1 DEF GroundsInv, GroundInv, Preparing
  <2> QED BY <1>1, <2>2, <2>3, <2>4
<1> QED BY <1>3, <1>4, <1>5 DEF GroundsInv

\* A power-off leaves the folder alone, and nothing that it could contradict.
LEMMA PowerOffGrounds ==
    ASSUME TypeInv, GroundsInv, PowerOff
    PROVE  GroundsInv'
<1>1. /\ UNCHANGED <<dir, history, pruned>> /\ op'.pc = "idle" /\ call'.pc = "none" /\ adapter'.st = "none"
      /\ \A k \in 1 .. Sessions : own'[k].pc \in {"unborn", "end"}
      /\ \A n \in 1 .. Apps : ~Alive(n)' /\ (app'[n] = "unborn" <=> app[n] = "unborn")
      /\ \A b \in 1 .. Bridges : bridge'[b].st \in {"unborn", "gone"}
  BY PowerOffLeaves, Records
<1>2. \A n \in 1 .. Apps : ~Running(n)' /\ app'[n] # "exec"
  BY <1>1 DEF Alive
<1>3. AppInv'
  BY <1>1, <1>2 DEF AppInv, Tending, Visiting, Closing
<1>4. BridgeInv'
  BY <1>1 DEF BridgeInv, Up
<1>5. GroundInv'
  <2>1. dir'.id = 0 => dir'.mpc = 0
    BY <1>1 DEF GroundsInv, GroundInv
  <2> QED BY <1>1, <2>1 DEF GroundInv, OwnerBusy, Preparing
<1>6. GenerationsDoNotMix' /\ EvidenceIsKept'
  BY <1>1 DEF GroundsInv, GenerationsDoNotMix, EvidenceIsKept
<1> QED BY <1>3, <1>4, <1>5, <1>6 DEF GroundsInv

\* No step undoes any of it.
LEMMA GroundsHold == TypeInv /\ LockInv /\ SafetyInv /\ [Next]_vars => GroundsInv'
<1> SUFFICES ASSUME TypeInv, LockInv, SafetyInv, [Next]_vars PROVE GroundsInv'
  OBVIOUS
<1>0. AdmittedInv /\ TodoInv /\ AppInv /\ BridgeInv /\ GroundInv /\ GenerationsDoNotMix /\ EvidenceIsKept
      /\ GroundsInv
  BY DEF SafetyInv, GroundsInv
<1>1. CASE Processes
  BY <1>0, <1>1, ProcessApps, ProcessBridges, ProcessGrounds, ProcessGenerations DEF GroundsInv
<1>2. CASE OperatorStep
  BY <1>0, <1>2, OperatorApps, OperatorBridges, OperatorGrounds, OperatorGenerations DEF GroundsInv
<1>3. CASE CallStep
  BY <1>0, <1>3, CallApps, CallBridges, CallGrounds, CallGenerations DEF GroundsInv
<1>4. ASSUME NEW k \in 1 .. Sessions, OwnerStep(k) PROVE GroundsInv'
  BY <1>0, <1>4, OwnerApps, OwnerBridges, OwnerGrounds, OwnerGenerations DEF GroundsInv
<1>5. CASE PowerOff
  BY <1>0, <1>5, PowerOffGrounds
<1>6. CASE UNCHANGED vars \/ Interrupt \/ \E c \in Commands : Command(c)
  BY <1>0, <1>6, ScriptsComeAndGo
<1> QED BY <1>1, <1>2, <1>3, <1>4, <1>5, <1>6 DEF Next, Scripts

\* The invariant behind the session owner's safety, for any number of sessions,
\* applications, bridges, boots and killed scripts.
THEOREM GroundIsKept == Spec => [](TypeInv /\ LockInv /\ SafetyInv)
<1>1. Init => SafetyInv
  <2> SUFFICES ASSUME Init PROVE SafetyInv
    OBVIOUS
  <2>1. /\ dir = [f \in Folder |-> 0] /\ op = Idle /\ call = NoCall /\ adapter = NoAdapter
        /\ own = [k \in 1 .. Sessions |-> Unborn] /\ app = [n \in 1 .. Apps |-> "unborn"]
        /\ bridge = [b \in 1 .. Bridges |-> [st |-> "unborn", app |-> 0]]
    BY DEF Init
  <2>2. /\ dir.mpc = 0 /\ op.pc = "idle" /\ op.cmd = "none" /\ call.pc = "none"
        /\ \A k \in 1 .. Sessions : own[k].pc = "unborn"
        /\ \A n \in 1 .. Apps : app[n] = "unborn"
        /\ \A b \in 1 .. Bridges : bridge[b].st = "unborn"
    BY <2>1, FolderIs, Records DEF Files, Idle
  <2>3. (\A n \in 1 .. Apps : ~Alive(n) /\ ~Running(n)) /\ \A b \in 1 .. Bridges : ~Up(b)
    BY <2>2 DEF Alive, Running, Up
  <2>4. AdmittedInv /\ TodoInv
    BY <2>2 DEF AdmittedInv, TodoInv, Visiting, StartCall, RouteCall
  <2>5. AppInv /\ BridgeInv
    BY <2>2, <2>3 DEF AppInv, BridgeInv, Tending, Visiting, Closing
  <2>6. GroundInv
    BY <2>2 DEF GroundInv, OwnerBusy, Preparing
  <2>7. GenerationsDoNotMix /\ EvidenceIsKept
    BY <2>2, <2>3 DEF GenerationsDoNotMix, EvidenceIsKept
  <2> QED BY <2>4, <2>5, <2>6, <2>7 DEF SafetyInv
<1>2. TypeInv /\ LockInv /\ SafetyInv /\ [Next]_vars => SafetyInv'
  BY AdmittedHolds, TodoHolds, GroundsHold DEF SafetyInv, GroundsInv
<1> QED BY <1>1, <1>2, LockExcludes, PTL DEF Spec

\* Two applications never run together, stock or owned.
THEOREM ApplicationsAlone == Spec => []OneApp
<1>1. AppInv => OneApp
  BY DEF AppInv, OneApp
<1>2. SafetyInv => OneApp
  BY <1>1 DEF SafetyInv
<1> QED BY <1>2, GroundIsKept, PTL

\* No bridge and no adapter of an application that is gone outlives the launch of the next.
THEOREM GenerationsApart == Spec => []GenerationsDoNotMix
<1>1. SafetyInv => GenerationsDoNotMix
  BY DEF SafetyInv
<1> QED BY <1>1, GroundIsKept, PTL

\* Every application launched keeps its locators or its entry in the history, power-off
\* or not, until the bound on entries drops it.
THEOREM EvidenceLasts == Spec => []EvidenceIsKept
<1>1. SafetyInv => EvidenceIsKept
  BY DEF SafetyInv
<1> QED BY <1>1, GroundIsKept, PTL

\* While a session stays revoked no step launches, forks a bridge or arms.
LEMMA RevokedStartsNothing ==
    TypeInv /\ LockInv /\ SafetyInv /\ [Next]_vars => [NothingNew]_vars
<1> SUFFICES ASSUME TypeInv, LockInv, SafetyInv, Next, dir.revoked = 1
             PROVE  /\ \A n \in 1 .. Apps : app[n] = "unborn" => app'[n] = "unborn"
                    /\ \A b \in 1 .. Bridges : bridge[b].st = "unborn" => bridge'[b].st = "unborn"
                    /\ adapter'.st = "armed" => adapter.st = "armed"
  BY DEF NothingNew
<1>0. AdmittedInv /\ AppInv
  BY DEF SafetyInv
<1>1. call.pc \notin StartCall \cup RouteCall /\ \A k \in 1 .. Sessions : own[k].pc # "spawn"
  BY <1>0 DEF AdmittedInv, Authorized
<1>2. CASE Processes
  BY <1>2, ProcessMoves, BridgeMoves DEF Alive, Running, Up
<1>3. CASE OperatorStep
  BY <1>3, OperatorTakes DEF Running, Up
<1>4. CASE CallStep
  <2>1. ~BridgeStart /\ ~Arm
    BY <1>1 DEF BridgeStart, Arm, StartCall, RouteCall
  <2> QED BY <1>4, <2>1, CallKeeps
<1>5. ASSUME NEW k \in 1 .. Sessions, OwnerStep(k)
      PROVE  /\ UNCHANGED <<app, bridge>> /\ (adapter'.st = "armed" => adapter.st = "armed")
  <2>1. ~Spawn(k)
    BY <1>1 DEF Spawn
  <2>2. UNCHANGED <<app, bridge>>
    BY <1>5, <2>1, OwnerKeeps DEF OwnerFrame
  <2>3. adapter' = adapter \/ adapter'.st \in {"none", "idle"}
    <3>1. NoAdapter.st = "none" /\ [st |-> "idle", app |-> own[k].child].st = "idle"
      BY Records
    <3> QED BY <1>5, <3>1, OwnerKeeps
  <2> QED BY <2>2, <2>3
<1>6. CASE PowerOff
  <2>1. adapter'.st = "none" /\ \A n \in 1 .. Apps : app'[n] = "unborn" <=> app[n] = "unborn"
    BY <1>6, PowerOffLeaves, Records
  <2>2. \A b \in 1 .. Bridges : bridge[b].st = "unborn" => bridge'[b].st = "unborn"
    BY <1>6 DEF PowerOff
  <2> QED BY <2>1, <2>2
<1>7. CASE Interrupt \/ \E c \in Commands : Command(c)
  BY <1>7 DEF Interrupt, Command, OpFrame
<1> QED BY <1>2, <1>3, <1>4, <1>5, <1>6, <1>7 DEF Next, Scripts

\* A revoked session starts nothing: no application, no bridge, and nothing is armed.
THEOREM RevokedStarts == Spec => RevokedStaysDown
BY RevokedStartsNothing, GroundIsKept, PTL DEF Spec, RevokedStaysDown

-----------------------------------------------------------------------------
(* How a session stops.                                                    *)

\* stop once the application has been told to end; once it knows whether to ask the
\* application first; and from the drain of the bridge on.
Killing  == {"term", "await", "receipt", "recover", "recovered"}
Decided  == Killing \cup {"close", "closing", "kill"}
Stopping == Decided \cup {"drained"}

\* Nothing comes back while stop works, and clean is a record of what it saw.
StopInv ==
    /\ op.pc \in Stopping => adapter.st = "none"
    /\ op.pc \in Killing => NoBridge
    /\ op.pc \in {"receipt", "recover", "recovered"} => NoApp
    /\ op.pc \in {"close", "closing"} => op.clean
    /\ op.pc \in Decided /\ op.clean => dir.mpc # 0
    /\ op.pc \in {"kill"} \cup Killing /\ op.clean => tmp.closed
    /\ op.pc \in {"recover", "recovered"} /\ op.clean => dir.exit # 0

\* With a prompt waiter the exit on record is the exit of the bridge on record: while it
\* is there no bridge runs or waits to be recorded, and one at a time does either.
Settled(b) == bridge[b].st \in {"unborn", "gone"}
DrainSeen  == dir.bridge # 0 => dir.bexit = 1
ReceiptInv ==
    /\ dir.bexit # 0 => \A b \in 1 .. Bridges : Settled(b)
    /\ \A b, c \in 1 .. Bridges : ~Settled(b) /\ ~Settled(c) => b = c
    /\ op.pc \in Decided /\ op.clean => DrainSeen
    /\ op.pc = "drained" /\ call.pc = "done" /\ call.ok => DrainSeen

-----------------------------------------------------------------------------
(* How stop moves, and who else moves meanwhile.                            *)

\* Each phase of stop, what it has just seen, and what clean says then.
LEMMA StopMoves ==
    ASSUME TypeInv, OperatorStep
    PROVE  /\ op'.pc = "drained" => adapter'.st = "none" /\ call'.pc = "stop"
           /\ op'.pc \in {"close", "closing"} =>
                 \/ op.pc = "drained" /\ op'.clean /\ call.pc = "done" /\ call.ok /\ IdApp
                 \/ op.pc = "close" /\ op'.clean = op.clean
           /\ op'.pc = "kill" =>
                 \/ op.pc \in {"drained", "close"} /\ ~op'.clean
                 \/ op.pc = "closing" /\ (op'.clean => tmp.closed)
           /\ op'.pc = "term" => /\ op.pc = "kill" /\ (op'.clean => op.clean)
                                 /\ IdBridge => bridge' = [bridge EXCEPT ![dir.bridge].st = "bad"]
           /\ op'.pc = "await" => op.pc = "term" /\ op'.clean = op.clean
           /\ op'.pc = "receipt" => /\ op.pc = "await" /\ (op'.clean => op.clean)
                                    /\ IdApp => app' = [app EXCEPT ![dir.mpc] = "bad"]
           /\ op'.pc = "recover" => op.pc = "receipt" /\ (op'.clean => op.clean /\ Receipted)
           /\ op'.pc = "recovered" => op.pc = "recover" /\ op'.clean = op.clean
<1>0. op \in Ops /\ Idle.pc = "idle" /\ NoAdapter.st = "none" /\ NoCall \in Callees
  BY Types, Records
<1>g. \A p : GotoOp(p) => op'.pc = p /\ op'.clean = op.clean
  BY <1>0 DEF GotoOp, Ops
<1>f. Finish => op'.pc = "idle"
  BY <1>0 DEF Finish
<1>1. CASE StartEntry \/ StartPrior \/ StartStock \/ StartOld \/ StartRecord \/ StartOwner \/ StartLocator
           \/ ExplicitEntry \/ ExplicitStopped \/ ExplicitStarted \/ ExplicitRouted \/ StopRevoke
  <2>1. Finish \/ \E p \in {"stock", "prior", "old", "snapshot", "seal", "id", "boot", "fresh", "fork",
                            "locator", "stopped", "started", "routed", "adapter"} : GotoOp(p)
    BY <1>1 DEF StartEntry, StartPrior, StartStock, StartOld, StartRecord, StartOwner, StartLocator,
       ExplicitEntry, ExplicitStopped, ExplicitStarted, ExplicitRouted, StopRevoke
  <2> QED BY <1>g, <1>f, <2>1
<1>2. CASE StopAdapterFirst
  <2>1. Finish \/ (adapter' = NoAdapter /\ GotoOp("drained") /\ Calls("stop"))
    BY <1>2 DEF StopAdapterFirst, StopAdapter
  <2>2. Calls("stop") => call'.pc = "stop"
    BY <1>0 DEF Calls, Callees
  <2> QED BY <1>0, <1>g, <1>f, <2>1, <2>2
<1>3. CASE StopOwned
  <2> DEFINE sure == call.ok /\ IdApp
             next == IF sure THEN "close" ELSE "kill"
  <2>1. Finish \/ (op.pc = "drained" /\ call.pc = "done"
                   /\ op' = [op EXCEPT !.pc = next, !.owned = IdApp, !.clean = sure])
    BY <1>3 DEF StopOwned, Stop, Returned
  <2>3. (sure => next = "close") /\ (~sure => next = "kill") /\ (sure => call.ok /\ IdApp)
    OBVIOUS
  <2> HIDE DEF sure, next
  <2>4. CASE Finish
    BY <1>f, <2>4
  <2>5. CASE ~Finish /\ sure
    <3>1. op' = [op EXCEPT !.pc = next, !.owned = IdApp, !.clean = sure]
      BY <2>1, <2>5
    <3>2. op'.pc = next
      BY <1>0, <3>1 DEF Ops
    <3>3. op'.clean
      BY <1>0, <2>5, <3>1 DEF Ops
    <3> QED BY <2>1, <2>3, <2>5, <3>2, <3>3
  <2>6. CASE ~Finish /\ ~sure
    <3>1. op' = [op EXCEPT !.pc = next, !.owned = IdApp, !.clean = sure]
      BY <2>1, <2>6
    <3>2. op'.pc = next
      BY <1>0, <3>1 DEF Ops
    <3>3. ~op'.clean
      BY <1>0, <2>6, <3>1 DEF Ops
    <3> QED BY <2>1, <2>3, <2>6, <3>2, <3>3
  <2> QED BY <2>4, <2>5, <2>6
<1>4. CASE StopClose
  <2>1. /\ op.pc = "close"
        /\ \/ op' = [op EXCEPT !.pc = "kill", !.clean = FALSE]
           \/ op' = [op EXCEPT !.pc = "closing"]
    BY <1>4 DEF StopClose, Stop
  <2> QED BY <1>0, <2>1 DEF Ops
<1>5. CASE StopClosing
  <2>1. op.pc = "closing" /\ \E ok \in {FALSE, tmp.closed} : op' = [op EXCEPT !.pc = "kill", !.clean = ok]
    BY <1>5 DEF StopClosing, Stop
  <2> QED BY <1>0, <2>1 DEF Ops
<1>6. CASE StopKill
  <2>1. /\ op.pc = "kill" /\ (IdBridge => bridge' = [bridge EXCEPT ![dir.bridge].st = "bad"])
        /\ \/ op' = [op EXCEPT !.pc = "term", !.clean = FALSE]
           \/ op' = [op EXCEPT !.pc = "term"]
    BY <1>6 DEF StopKill, Stop
  <2> QED BY <1>0, <2>1 DEF Ops
<1>7. CASE StopTerm
  <2>1. Finish \/ (op.pc = "term" /\ GotoOp("await"))
    BY <1>7 DEF StopTerm, Stop
  <2> QED BY <1>g, <1>f, <2>1
<1>8. CASE StopAwait
  <2>1. /\ op.pc = "await" /\ (IdApp => app' = [app EXCEPT ![dir.mpc] = "bad"])
        /\ \/ op' = [op EXCEPT !.pc = "receipt", !.clean = FALSE]
           \/ op' = [op EXCEPT !.pc = "receipt"]
    BY <1>8 DEF StopAwait, Stop
  <2> QED BY <1>0, <2>1 DEF Ops
<1>9. CASE StopReceipt
  <2>1. op.pc = "receipt" /\ op' = [op EXCEPT !.pc = "recover", !.clean = op.clean /\ Receipted]
    BY <1>9 DEF StopReceipt, Stop
  <2> QED BY <1>0, <2>1 DEF Ops
<1>10. CASE StopRecover
  <2>1. Finish \/ (op.pc = "recover" /\ GotoOp("recovered"))
    BY <1>10 DEF StopRecover, Stop
  <2> QED BY <1>g, <1>f, <2>1
<1>11. CASE StopReport
  BY <1>f, <1>11 DEF StopReport
<1> QED BY <1>1, <1>2, <1>3, <1>4, <1>5, <1>6, <1>7, <1>8, <1>9, <1>10, <1>11 DEF OperatorStep

\* While stop works no owner is in the lock, and only bridge_stop runs for it.
LEMMA StopsAlone ==
    ASSUME TypeInv, LockInv, AppInv, BridgeInv, op.pc \in Stopping
    PROVE  /\ \A k \in 1 .. Sessions : own[k].pc \notin Held
           /\ call.pc \in {"none", "done"} \cup StopCall
           /\ \A n \in 1 .. Apps : app[n] # "exec"
           /\ \A b \in 1 .. Bridges : bridge[b].st # "fork"
<1>1. op.pc \notin {"idle", "started", "routed", "prior", "old"}
  BY DEF Stopping, Decided, Killing
<1>2. \A k \in 1 .. Sessions : own[k].pc \notin Held
  BY <1>1, Holder
<1>3. call.pc \in {"none", "done"} \cup StopCall
  <2>1. call.pc \in CallPcs
    BY Types DEF Callees
  <2> QED BY <1>1, <2>1, Callers DEF CallPcs, StopCall, StartCall, RouteCall, ArchiveCall
<1>4. \A n \in 1 .. Apps : app[n] # "exec"
  BY <1>2 DEF AppInv, Held
<1>5. \A b \in 1 .. Bridges : bridge[b].st # "fork"
  BY <1>3 DEF BridgeInv, StopCall
<1> QED BY <1>2, <1>3, <1>4, <1>5

\* A producer's closure is on record until another application starts or the state
\* files go.
LEMMA ClosureLasts ==
    ASSUME TypeInv, Processes, tmp.closed, \A n \in 1 .. Apps : app[n] # "exec"
    PROVE  tmp'.closed
<1>1. tmp \in Memory
  BY Types
<1>2. CASE \E n \in 1 .. Apps : AppProgress(n) \/ AppExit(n)
  BY <1>2 DEF AppProgress, AppExit
<1>3. CASE \E n \in 1 .. Apps : AppIntent(n)
  <2>1. \E v \in {1, 3} : tmp' = [tmp EXCEPT !.intent = v]
    BY <1>3 DEF AppIntent
  <2> QED BY <1>1, <2>1 DEF Memory
<1>4. CASE \E n \in 1 .. Apps : AppClose(n)
  BY <1>4 DEF AppClose
<1>5. CASE \E b \in 1 .. Bridges : BridgeBegins(b) \/ BridgeReady(b) \/ BridgeExit(b) \/ BridgeReceipt(b)
  BY <1>5 DEF BridgeBegins, BridgeReady, BridgeExit, BridgeReceipt
<1>6. CASE AdapterExit \/ \E k \in 1 .. Sessions : Wake(k)
  BY <1>6 DEF AdapterExit, Wake
<1>7. \A n \in 1 .. Apps : ~AppExec(n)
  BY DEF AppExec
<1> QED BY <1>2, <1>3, <1>4, <1>5, <1>6, <1>7 DEF Processes

-----------------------------------------------------------------------------
(* Nothing comes back.                                                      *)

\* An owner outside the lock, a process, or bridge_stop: none of them touches what stop
\* has seen.
LEMMA StopStands ==
    ASSUME TypeInv, LockInv, AppInv, BridgeInv, StopInv, UNCHANGED op,
           op.pc \in Stopping => /\ adapter.st = "none" => adapter'.st = "none"
                                 /\ NoBridge => NoBridge'
                                 /\ NoApp => NoApp'
                                 /\ dir'.mpc = dir.mpc /\ (tmp.closed => tmp'.closed)
                                 /\ dir.exit # 0 => dir'.exit # 0
    PROVE  StopInv'
<1>1. Killing \subseteq Stopping /\ Decided \subseteq Stopping /\ {"kill"} \subseteq Stopping
      /\ {"receipt", "recover", "recovered"} \subseteq Stopping
  BY DEF Stopping, Decided, Killing
<1> QED BY <1>1 DEF StopInv

LEMMA OthersStop ==
    ASSUME TypeInv, LockInv, AppInv, BridgeInv, StopInv,
           Processes \/ CallStep \/ \E k \in 1 .. Sessions : OwnerStep(k)
    PROVE  StopInv'
<1>1. CASE Processes
  <2>1. UNCHANGED op /\ dir'.mpc = dir.mpc /\ dir'.exit = dir.exit
        /\ (adapter.st = "none" => adapter'.st = "none")
    BY <1>1, ProcessMoves, ProcessDirs
  <2>2. op.pc \in Stopping /\ tmp.closed => tmp'.closed
    BY <1>1, StopsAlone, ClosureLasts
  <2> QED BY <1>1, <2>1, <2>2, ProcessBares, StopStands
<1>2. CASE CallStep
  <2>1. UNCHANGED op
    BY <1>2, CallKeeps
  <2>2. ASSUME op.pc \in Stopping
        PROVE  UNCHANGED <<adapter, bridge, app, tmp, dir.mpc, dir.exit>>
    <3>1. call.pc \in StopCall
      BY <1>2, <2>2, StopsAlone, CallMoves
    <3>2. ~BridgeStart /\ ~Arm /\ ~Remove /\ call.pc \notin ArchiveCall
      BY <3>1 DEF StopCall, ArchiveCall, BridgeStart, Arm, Remove
    <3> QED BY <1>2, <3>2, CallKeeps, CallDirs, CallMoves
  <2>3. op.pc \in Stopping => (NoBridge => NoBridge') /\ (NoApp => NoApp')
    BY <2>2 DEF NoBridge, NoApp, Alive, Running, Up
  <2> QED BY <2>1, <2>2, <2>3, StopStands
<1>3. ASSUME NEW k \in 1 .. Sessions, OwnerStep(k) PROVE StopInv'
  <2>1. UNCHANGED <<op, bridge>> /\ (dir.exit # 0 => dir'.exit # 0)
    BY <1>3, OwnerKeeps, OwnerDirs DEF OwnerFrame
  <2>2. ASSUME op.pc \in Stopping
        PROVE  UNCHANGED <<app, tmp, dir.mpc>> /\ (adapter.st = "none" => adapter'.st = "none")
    <3>1. own[k].pc \notin Held
      BY <2>2, StopsAlone
    <3>2. ~Consume(k) /\ own[k].pc \notin {"spawn", "setup"}
      BY <3>1 DEF Held, Closing, Visiting, Consume
    <3> QED BY <1>3, <3>2, OwnerOutside, OwnerKeeps
  <2>3. op.pc \in Stopping => (NoBridge => NoBridge') /\ (NoApp => NoApp')
    BY <2>1, <2>2 DEF NoBridge, NoApp, Alive, Running, Up
  <2> QED BY <2>1, <2>2, <2>3, StopStands
<1> QED BY <1>1, <1>2, <1>3

\* The script itself, phase by phase.
LEMMA OperatorStops ==
    ASSUME TypeInv, LockInv, AppInv, BridgeInv, StopInv, OperatorStep
    PROVE  StopInv'
<1>1. UNCHANGED <<dir.mpc, dir.exit>>
  BY OperatorDirs
<1>2. tmp.closed => tmp'.closed
  <2>1. tmp \in Memory
    BY Types
  <2> QED BY <2>1, OperatorKeeps DEF Memory
<1>3. op'.pc \in Stopping => adapter'.st = "none"
  <2>1. adapter.st = "none" => adapter'.st = "none"
    BY OperatorTakes
  <2>2. op'.pc \in Stopping /\ op'.pc # "drained" => op.pc \in Stopping
    BY StopMoves DEF Stopping, Decided, Killing
  <2> QED BY <2>1, <2>2, StopMoves DEF StopInv
<1>4. op'.pc \in Killing => NoBridge'
  <2>1. ASSUME op'.pc \in Killing, op.pc \in Killing PROVE NoBridge'
    BY <2>1, OperatorBares DEF StopInv
  <2>2. ASSUME op.pc = "kill", IdBridge => bridge' = [bridge EXCEPT ![dir.bridge].st = "bad"] PROVE NoBridge'
    <3> SUFFICES ASSUME NEW b \in 1 .. Bridges, bridge'[b].st = "fork" \/ Up(b)' PROVE FALSE
      BY DEF NoBridge
    <3>0. op.pc \in Stopping
      BY <2>2 DEF Stopping, Decided
    <3>1. Up(b) /\ bridge'[b] = bridge[b]
      BY <3>0, OperatorBares, StopsAlone
    <3>2. dir.bridge = b /\ SameBoot /\ b # 0
      BY <3>1, Sizes DEF BridgeInv
    <3>3. bridge' = [bridge EXCEPT ![b].st = "bad"]
      BY <2>2, <3>1, <3>2 DEF IdBridge
    <3>4. bridge'[b].st = "bad"
      BY <3>3, Types DEF BridgeStates
    <3> QED BY <3>1, <3>4 DEF Up
  <2>3. op'.pc \in Killing => \/ op.pc \in Killing
                              \/ op.pc = "kill" /\ (IdBridge => bridge' = [bridge EXCEPT ![dir.bridge].st = "bad"])
    BY StopMoves DEF Killing
  <2> QED BY <2>1, <2>2, <2>3
<1>5. op'.pc \in {"receipt", "recover", "recovered"} => NoApp'
  <2>1. ASSUME op.pc \in {"receipt", "recover", "recovered"} PROVE NoApp'
    BY <2>1, OperatorBares DEF StopInv
  <2>2. ASSUME op.pc = "await", IdApp => app' = [app EXCEPT ![dir.mpc] = "bad"] PROVE NoApp'
    <3> SUFFICES ASSUME NEW n \in 1 .. Apps, Alive(n)' PROVE FALSE
      BY DEF NoApp
    <3>1. Running(n)
      BY OperatorBares
    <3>2. dir.mpc = n /\ SameBoot /\ n # 0
      BY <3>1, Sizes DEF AppInv, Alive
    <3>3. app' = [app EXCEPT ![n] = "bad"]
      BY <2>2, <3>1, <3>2 DEF IdApp
    <3>4. app'[n] = "bad"
      BY <3>3, Types
    <3> QED BY <3>4 DEF Alive, Running
  <2> QED BY <2>1, <2>2, StopMoves
<1>6. op'.pc \in {"close", "closing"} => op'.clean
  BY StopMoves DEF StopInv
<1>7. op'.pc \in Decided /\ op'.clean => dir'.mpc # 0
  <2>1. op'.pc \in Decided /\ op'.clean => IdApp \/ (op.pc \in Decided /\ op.clean)
    BY StopMoves DEF StopInv, Decided, Killing
  <2> QED BY <1>1, <2>1 DEF StopInv, IdApp
<1>8. op'.pc \in {"kill"} \cup Killing /\ op'.clean => tmp'.closed
  <2>1. op'.pc \in {"kill"} \cup Killing /\ op'.clean =>
           tmp.closed \/ (op.pc \in {"kill"} \cup Killing /\ op.clean)
    BY StopMoves DEF Killing
  <2> QED BY <1>2, <2>1 DEF StopInv
<1>9. op'.pc \in {"recover", "recovered"} /\ op'.clean => dir'.exit # 0
  <2>1. ASSUME op'.pc = "recover", op'.clean PROVE dir'.exit # 0
    <3>1. op.pc \in Decided /\ op.clean /\ Receipted
      BY <2>1, StopMoves DEF Decided, Killing
    <3> QED BY <1>1, <3>1 DEF StopInv, Receipted
  <2> QED BY <1>1, <2>1, StopMoves DEF StopInv
<1> QED BY <1>3, <1>4, <1>5, <1>6, <1>7, <1>8, <1>9 DEF StopInv

\* A power-off, a killed script or a new command ends a stop.
LEMMA StopEnds ==
    ASSUME TypeInv, PowerOff \/ Interrupt \/ \E c \in Commands : Command(c)
    PROVE  op'.pc \in {"idle", "entry"}
<1>1. CASE PowerOff \/ Interrupt
  BY <1>1, PowerOffLeaves, Records DEF Interrupt
<1>2. ASSUME NEW c \in Commands, Command(c) PROVE op'.pc = "entry"
  <2>1. [Idle EXCEPT !.cmd = c, !.pc = "entry", !.clean = TRUE].pc = "entry"
    BY DEF Idle
  <2> QED BY <1>2, <2>1 DEF Command
<1> QED BY <1>1, <1>2

\* No step undoes what stop has seen.
LEMMA StopHolds ==
    TypeInv /\ LockInv /\ SafetyInv /\ StopInv /\ [Next]_vars => StopInv'
<1> SUFFICES ASSUME TypeInv, LockInv, SafetyInv, StopInv, [Next]_vars PROVE StopInv'
  OBVIOUS
<1>0. AppInv /\ BridgeInv
  BY DEF SafetyInv
<1>1. CASE UNCHANGED vars
  BY <1>1 DEF vars, StopInv, NoBridge, NoApp, Alive, Running, Up
<1>2. CASE PowerOff \/ Interrupt \/ \E c \in Commands : Command(c)
  BY <1>2, StopEnds DEF StopInv, Stopping, Decided, Killing
<1> QED BY <1>0, <1>1, <1>2, OthersStop, OperatorStops DEF Next, Scripts

-----------------------------------------------------------------------------
(* The bridge's receipt.                                                    *)

\* bridge_stop returns success over no bridge on record or an exit with code 0.
LEMMA DrainReturns ==
    ASSUME TypeInv, CallStep, call.pc \in StopCall
    PROVE  /\ UNCHANGED <<dir, bridge>>
           /\ call'.pc = "done" /\ call'.ok => DrainSeen
<1>0. call \in Callees /\ NoCall \in Callees
  BY Types, Records
<1>1. BridgeStop \/ BridgeGone \/ BridgeSettled
  BY DEF CallStep, BridgeStart, BridgeStarted, Route, Arm, Stage, Copy, Rename, Remove, StopCall
<1>2. CASE BridgeStop
  <2>1. UNCHANGED <<dir, bridge>> /\ (Step("gone") \/ Step("receipt"))
    BY <1>2 DEF BridgeStop
  <2> QED BY <1>0, <2>1 DEF Step, Callees
<1>3. CASE BridgeGone
  <2>1. UNCHANGED <<dir, bridge>> /\ (Return(FALSE) \/ Step("receipt"))
    BY <1>3 DEF BridgeGone
  <2> QED BY <1>0, <2>1 DEF Step, Return, Callees
<1>4. CASE BridgeSettled
  <2>1. UNCHANGED <<dir, bridge>> /\ Return(dir.bridge = 0 \/ CleanReceipt)
    BY <1>4 DEF BridgeSettled
  <2>2. CASE dir.bridge = 0 \/ CleanReceipt
    BY <2>1, <2>2 DEF DrainSeen, CleanReceipt
  <2>3. CASE ~(dir.bridge = 0 \/ CleanReceipt)
    <3>1. (dir.bridge = 0 \/ CleanReceipt) = FALSE
      BY <2>3
    <3>2. call' = [NoCall EXCEPT !.pc = "done", !.ok = FALSE]
      BY <2>1, <3>1 DEF Return
    <3> QED BY <1>0, <2>1, <3>2 DEF Callees
  <2> QED BY <2>2, <2>3
<1> QED BY <1>1, <1>2, <1>3, <1>4

\* Nobody starts a bridge while another waits to be recorded, if the waiter is prompt.
LEMMA StartsOnSettled ==
    ASSUME PromptReceipts, TypeInv, BridgeInv, BridgeStart, bridge' # bridge
    PROVE  \A b \in 1 .. Bridges : Settled(b)
<1> SUFFICES ASSUME NEW b \in 1 .. Bridges, ~Settled(b) PROVE FALSE
  OBVIOUS
<1>0. bridge \in [1 .. Bridges -> BridgeStates]
  BY Types
<1>1. call.pc = "start"
  BY DEF BridgeStart
<1>3. IdApp /\ ~IdBridge /\ bridge[b].st \notin {"ok", "bad"}
  BY DEF BridgeStart
<1>4. bridge[b].st \in {"fork", "up", "ready"}
  BY <1>0, <1>3 DEF Settled, BridgeStates
<1>5. Up(b)
  BY <1>1, <1>4 DEF BridgeInv, Up
<1>6. dir.bridge = b /\ SameBoot /\ b # 0
  BY <1>5, Sizes DEF BridgeInv
<1> QED BY <1>3, <1>5, <1>6 DEF IdBridge

\* Whatever leaves bridges no less settled, and the folder's account of them alone.
LEMMA ReceiptStands ==
    ASSUME ReceiptInv, UNCHANGED <<dir.bridge, dir.bexit, op, call>>,
           \A b \in 1 .. Bridges : Settled(b) => Settled(b)'
    PROVE  ReceiptInv'
BY DEF ReceiptInv, DrainSeen

\* A prompt receipt is the only one due.
LEMMA ProcessReceipts ==
    ASSUME TypeInv, LockInv, BridgeInv, ReceiptInv, Processes
    PROVE  ReceiptInv'
<1>0. UNCHANGED <<op, call>>
  BY ProcessMoves
<1>1. \A b \in 1 .. Bridges : Settled(b) => Settled(b)'
  BY BridgeMoves DEF Settled, Up
<1>2. CASE \E b \in 1 .. Bridges : BridgeBegins(b)
  <2>1. PICK b \in 1 .. Bridges : BridgeBegins(b)
    BY <1>2
  <2>2. bridge[b].st = "fork" /\ dir'.bexit = dir.bexit
    <3>1. bridge[b].st = "fork" /\ dir' = [dir EXCEPT !.bridge = b]
      BY <2>1 DEF BridgeBegins
    <3>2. dir \in [Folder -> Places] /\ {"bridge", "bexit"} \subseteq Folder
      BY FolderIs, Types DEF Files
    <3> QED BY <3>1, <3>2
  <2>3. call.pc = "starting" /\ ~Settled(b)
    BY <2>2 DEF BridgeInv, Settled
  <2>4. op.pc \in {"started", "routed", "idle"}
    BY <2>3, Callers DEF StartCall
  <2>5. op'.pc \notin Decided \cup {"drained"}
    BY <1>0, <2>4 DEF Decided, Killing
  <2>6. dir'.bexit = 0
    BY <2>2, <2>3 DEF ReceiptInv
  <2> QED BY <1>1, <2>5, <2>6 DEF ReceiptInv
<1>3. CASE \E b \in 1 .. Bridges : BridgeReceipt(b)
  <2>1. PICK b \in 1 .. Bridges : BridgeReceipt(b)
    BY <1>3
  <2>2. /\ bridge[b].st \in {"ok", "bad"} /\ bridge' = [bridge EXCEPT ![b] = Gone] /\ Gone.st = "gone"
        /\ dir'.bridge = dir.bridge
    BY <2>1, FolderIs, Types DEF BridgeReceipt, Gone, Files
  <2>3. ~Settled(b) /\ Settled(b)'
    BY <2>2, Types DEF Settled
  <2>4. \A c \in 1 .. Bridges : Settled(c)'
    BY <1>1, <2>3 DEF ReceiptInv
  <2>5. dir.bexit = 0
    BY <2>3 DEF ReceiptInv
  <2> QED BY <1>0, <2>2, <2>4, <2>5 DEF ReceiptInv, DrainSeen
<1>4. CASE ~(\E b \in 1 .. Bridges : BridgeBegins(b) \/ BridgeReceipt(b))
  BY <1>0, <1>1, <1>4, ProcessDirs, ReceiptStands
<1> QED BY <1>2, <1>3, <1>4

\* The functions of the lock's holder.
LEMMA CallReceipts ==
    ASSUME PromptReceipts, TypeInv, LockInv, TodoInv, BridgeInv, ReceiptInv, CallStep
    PROVE  ReceiptInv'
<1>0. UNCHANGED op /\ call.pc # "done"
  BY CallKeeps, CallMoves
<1>1. CASE call.pc \in StopCall
  <2>1. \A b \in 1 .. Bridges : Settled(b)' = Settled(b)
    BY <1>1, DrainReturns DEF Settled
  <2>2. DrainSeen' = DrainSeen
    BY <1>1, DrainReturns DEF DrainSeen
  <2> QED BY <1>0, <1>1, <2>1, <2>2, DrainReturns DEF ReceiptInv
<1>2. CASE call.pc \notin StopCall
  <2>1. op.pc \in {"prior", "old", "started", "routed", "idle"}
    <3>1. call.pc \in StartCall \cup RouteCall \cup ArchiveCall
      <4>1. call.pc \in CallPcs
        BY Types DEF Callees
      <4> QED BY <1>0, <1>2, <4>1, CallMoves DEF CallPcs, StopCall, StartCall, RouteCall, ArchiveCall
    <3> QED BY <3>1, Callers
  <2>2. op.pc \notin Decided \cup {"drained"}
    BY <2>1 DEF Decided, Killing
  <2>3. CASE bridge' # bridge
    <3>1. BridgeStart
      BY <2>3, CallKeeps
    <3>2. \A b \in 1 .. Bridges : Settled(b)
      BY <2>3, <3>1, StartsOnSettled
    <3>3. PICK b \in 1 .. Bridges : bridge' = [bridge EXCEPT ![b].st = "fork"]
      BY <2>3, CallKeeps
    <3>4. \A c \in 1 .. Bridges : c # b => Settled(c)'
      BY <3>2, <3>3 DEF Settled
    <3>5. dir'.bexit = 0
      BY <2>3, FolderIs, Types, <3>1 DEF BridgeStart, Files
    <3> QED BY <1>0, <2>2, <3>4, <3>5 DEF ReceiptInv
  <2>4. CASE bridge' = bridge
    <3>1. dir'.bexit \in {0, dir.bexit}
      <4>1. ASSUME NEW f \in Folder, dir' = [dir EXCEPT ![f] = 0] PROVE dir'.bexit \in {0, dir.bexit}
        BY <4>1, FolderIs, Types DEF Files
      <4> QED BY <4>1, CallDirs
    <3>2. \A b \in 1 .. Bridges : Settled(b)' = Settled(b)
      BY <2>4 DEF Settled
    <3> QED BY <1>0, <2>2, <3>1, <3>2 DEF ReceiptInv
  <2> QED BY <2>3, <2>4
<1> QED BY <1>1, <1>2

\* The script asks bridge_stop again before it takes anything for drained.
LEMMA OperatorReceipts ==
    ASSUME TypeInv, LockInv, BridgeInv, StopInv, ReceiptInv, OperatorStep
    PROVE  ReceiptInv'
<1>0. UNCHANGED <<dir.bridge, dir.bexit>>
  BY OperatorDirs
<1>1. \A b \in 1 .. Bridges : Settled(b)' = Settled(b)
  BY OperatorTakes DEF Settled, Up
<1>2. op'.pc \in Decided /\ op'.clean =>
         \/ op.pc \in Decided /\ op.clean
         \/ op.pc = "drained" /\ call.pc = "done" /\ call.ok
  BY StopMoves DEF StopInv, Decided, Killing
<1>3. op'.pc # "drained" \/ call'.pc # "done"
  BY StopMoves
<1>4. DrainSeen' = DrainSeen
  BY <1>0 DEF DrainSeen
<1> QED BY <1>0, <1>1, <1>2, <1>3, <1>4 DEF ReceiptInv

\* No step undoes what the receipt says, if the waiter is prompt.
LEMMA ReceiptHolds ==
    PromptReceipts =>
      (TypeInv /\ LockInv /\ SafetyInv /\ StopInv /\ ReceiptInv /\ [Next]_vars => ReceiptInv')
<1> SUFFICES ASSUME PromptReceipts, TypeInv, LockInv, SafetyInv, StopInv, ReceiptInv, [Next]_vars
             PROVE  ReceiptInv'
  OBVIOUS
<1>0. TodoInv /\ BridgeInv
  BY DEF SafetyInv
<1>1. ASSUME NEW k \in 1 .. Sessions, OwnerStep(k) PROVE ReceiptInv'
  <2>1. UNCHANGED <<op, bridge, dir.bridge, dir.bexit>>
    BY <1>1, OwnerKeeps, OwnerDirs DEF OwnerFrame
  <2>2. call'.pc = "done" => call' = call
    BY <1>1, OwnerCalls
  <2> QED BY <2>1, <2>2 DEF ReceiptInv, Settled, DrainSeen
<1>2. CASE UNCHANGED vars
  BY <1>2 DEF vars, ReceiptInv, Settled, DrainSeen
<1>3. CASE PowerOff
  <2>1. UNCHANGED dir /\ \A b \in 1 .. Bridges : Settled(b)'
    BY <1>3, PowerOffLeaves DEF Settled
  <2> QED BY <1>3, <2>1, StopEnds DEF ReceiptInv, Decided, Killing
<1>4. CASE Interrupt \/ \E c \in Commands : Command(c)
  <2>1. UNCHANGED <<dir, bridge>>
    BY <1>4 DEF Interrupt, Command, OpFrame
  <2> QED BY <1>4, <2>1, StopEnds DEF ReceiptInv, Settled, Decided, Killing
<1> QED BY <1>0, <1>1, <1>2, <1>3, <1>4, ProcessReceipts, CallReceipts, OperatorReceipts DEF Next, Scripts

\* What stop has taken down stays down until it reports, and clean is the truth about
\* everything but the bridge's receipt, whether or not the waiter is prompt.
THEOREM StopStaysDown == Spec => []StopInv
<1>1. Init => StopInv
  BY Records DEF Init, StopInv, Stopping, Decided, Killing
<1> QED BY <1>1, StopHolds, GroundIsKept, PTL DEF Spec

\* "Session recovered; clean=1": the producer certified its closure, no process is left,
\* and both exits are on record, the bridge's with success.
THEOREM CleanStops == ASSUME PromptReceipts PROVE Spec => []CleanStopIsComplete
<1>1. Init => ReceiptInv
  <2> SUFFICES ASSUME Init PROVE ReceiptInv
    OBVIOUS
  <2>1. dir.bexit = 0 /\ op.pc = "idle"
    BY FolderIs, Records DEF Init, Files
  <2>2. \A b \in 1 .. Bridges : Settled(b)
    BY DEF Init, Settled
  <2> QED BY <2>1, <2>2 DEF ReceiptInv, Decided, Killing
<1>2. TypeInv /\ LockInv /\ SafetyInv /\ StopInv /\ ReceiptInv /\ [Next]_vars => ReceiptInv'
  BY ReceiptHolds
<1>3. StopInv /\ ReceiptInv => CleanStopIsComplete
  BY DEF StopInv, ReceiptInv, CleanStopIsComplete, DrainSeen, Stopping, Decided, Killing, NoApp, NoBridge
<1> QED BY <1>1, <1>2, <1>3, StopStaysDown, GroundIsKept, PTL DEF Spec

-----------------------------------------------------------------------------
(***************************************************************************)
(* The launches.  A start grants a permit, a spawn uses it, a quarrel on   *)
(* the way to the spawn or a revocation lets it lapse, and only a consumed *)
(* intent of an application that ended well renews it.                     *)
(***************************************************************************)
\* An owner that may still launch the application its session is permitted.
Granted   == {"admit", "launch", "spawn", "archived"}
Permitted == \E k \in 1 .. Sessions : Authorized(k) /\ own[k].pc \in Granted

\* An owner consumes an intent only after an exit with code 0.
EarnedInv == \A k \in 1 .. Sessions : own[k].pc = "consume" => own[k].code

-----------------------------------------------------------------------------
(* The mapped variables.                                                    *)

LEMMA LifeIs ==
    /\ life = IF ~NoApp THEN "running" ELSE IF Permitted THEN "permitted" ELSE "down"
    /\ life' = IF ~NoApp' THEN "running" ELSE IF Permitted' THEN "permitted" ELSE "down"
BY DEF life, NoApp, Permitted, Granted

LEMMA RenewalIs ==
    /\ tmp.cmd = 0 \/ tmp.intent # 1 => renewal = "none"
    /\ tmp.cmd # 0 /\ tmp.intent = 1 /\ Alive(tmp.cmd) => renewal = "asked"
    /\ tmp.cmd # 0 /\ tmp.intent = 1 /\ ~Alive(tmp.cmd) /\ app[tmp.cmd] = "ok" => renewal = "earned"
    /\ tmp.cmd # 0 /\ tmp.intent = 1 /\ ~Alive(tmp.cmd) /\ app[tmp.cmd] # "ok" => renewal = "none"
BY DEF renewal, Alive, Running

LEMMA RenewalNext ==
    /\ tmp'.cmd = 0 \/ tmp'.intent # 1 => renewal' = "none"
    /\ tmp'.cmd # 0 /\ tmp'.intent = 1 /\ (Alive(tmp.cmd))' => renewal' = "asked"
    /\ tmp'.cmd # 0 /\ tmp'.intent = 1 /\ ~(Alive(tmp.cmd))' /\ app'[tmp'.cmd] = "ok" => renewal' = "earned"
    /\ tmp'.cmd # 0 /\ tmp'.intent = 1 /\ ~(Alive(tmp.cmd))' /\ app'[tmp'.cmd] # "ok" => renewal' = "none"
BY DEF renewal, Alive, Running

\* What is left behind is seen in three fields only.
LEMMA RenewalStands ==
    ASSUME tmp'.cmd = tmp.cmd, tmp'.intent = tmp.intent, app' = app
    PROVE  renewal' = renewal
BY DEF renewal, Alive, Running

\* The session whose application runs has no permit left.
LEMMA RunningUsesIt ==
    ASSUME TypeInv, AppInv, ~NoApp
    PROVE  ~Permitted
<1>1. PICK n \in 1 .. Apps : Alive(n)
  BY DEF NoApp
<1>2. PICK k \in 1 .. Sessions : dir.id = k /\ own[k].pc \in Tending
  BY <1>1 DEF AppInv, Tended
<1>3. own[k].pc \notin Granted
  BY <1>2 DEF Tending, Visiting, Granted
<1> QED BY <1>2, <1>3 DEF Permitted, Authorized

\* A step that launches and ends nothing, and grants nothing, lets a permit lapse or
\* is not seen at all.
LEMMA MayLapse ==
    ASSUME TypeInv, AppInv, NoApp' <=> NoApp, Permitted' => Permitted,
           renewal' = renewal, sessions' = sessions
    PROVE  [Permit!Next]_(Permit!vars)
<1>1. CASE NoApp /\ Permitted /\ ~Permitted'
  BY <1>1, LifeIs DEF Permit!Next, Permit!Lapse
<1>2. CASE ~(NoApp /\ Permitted /\ ~Permitted')
  <2>1. life' = life
    BY <1>2, LifeIs, RunningUsesIt
  <2> QED BY <2>1 DEF Permit!vars
<1> QED BY <1>1, <1>2

\* The end of an application, by itself or by a stop that will not wait.
LEMMA EndsDepart ==
    ASSUME TypeInv, AppInv, NEW n \in 1 .. Apps, Alive(n), NEW end \in {"ok", "bad"},
           app' = [app EXCEPT ![n] = end], UNCHANGED <<dir, tmp, own, sessions>>
    PROVE  Permit!Depart
<1>1. app'[n] = end /\ \A m \in 1 .. Apps : m # n => app'[m] = app[m] /\ ~Alive(m)
  BY Types DEF AppInv
<1>2. NoApp' /\ ~NoApp
  BY <1>1 DEF NoApp, Alive, Running
<1>3. ~Permitted /\ ~Permitted'
  BY <1>2, RunningUsesIt DEF Permitted, Authorized
<1>4. life = "running" /\ life' = "down"
  BY <1>2, <1>3, LifeIs
<1>5. CASE tmp.cmd = 0 \/ tmp.intent # 1
  BY <1>4, <1>5, RenewalNext DEF Permit!Depart
<1>6. CASE tmp.cmd # 0 /\ tmp.intent = 1
  <2>1. tmp.cmd = n
    BY <1>6 DEF AppInv, Alive
  <2>2. renewal = "asked"
    BY <1>6, <2>1, RenewalIs
  <2>3. renewal' \in {"earned", "none"}
    <3>1. ~(Alive(tmp.cmd))' /\ tmp' = tmp
      BY <1>1, <2>1 DEF Alive, Running
    <3> QED BY <1>6, <3>1, RenewalNext
  <2> QED BY <1>4, <2>2, <2>3 DEF Permit!Depart
<1> QED BY <1>5, <1>6

LEMMA ProcessPermits ==
    ASSUME TypeInv, AppInv, Processes
    PROVE  [Permit!Next]_(Permit!vars)
<1>0. UNCHANGED <<sessions, dir.id, dir.revoked>> /\ \A k \in 1 .. Sessions : own'[k].pc = own[k].pc
  BY ProcessMoves
<1>1. Permitted' <=> Permitted
  BY <1>0 DEF Permitted, Authorized
<1>2. ASSUME NEW n \in 1 .. Apps, AppExec(n) PROVE [Permit!Next]_(Permit!vars)
  <2>1. app[n] = "exec" /\ app' = [app EXCEPT ![n] = "init"] /\ app \in [1 .. Apps -> AppStates]
    BY <1>2, Types DEF AppExec
  <2>2. tmp.cmd = 0 /\ tmp'.intent = 0
    BY <1>2, <2>1 DEF AppInv, AppExec, NoState
  <2>3. ~NoApp /\ ~NoApp'
    BY <2>1 DEF NoApp, Alive, Running
  <2>4. renewal' = renewal
    BY <2>2, RenewalIs, RenewalNext
  <2> QED BY <1>0, <1>1, <2>3, <2>4, MayLapse
<1>3. ASSUME NEW n \in 1 .. Apps, AppProgress(n) PROVE [Permit!Next]_(Permit!vars)
  <2>1. /\ app[n] \in {"init", "chooser"} /\ app'[n] \in {"chooser", "ready"} /\ tmp' = tmp
        /\ \A m \in 1 .. Apps : m # n => app'[m] = app[m]
    BY <1>3, Types DEF AppProgress
  <2>2. \A m \in 1 .. Apps : (Alive(m)' <=> Alive(m)) /\ (app'[m] = "ok" <=> app[m] = "ok")
    BY <2>1 DEF Alive, Running
  <2>3. NoApp' <=> NoApp
    BY <2>2 DEF NoApp
  <2>4. renewal' = renewal
    <3>1. CASE tmp.cmd = 0 \/ tmp.intent # 1
      BY <2>1, <3>1, RenewalIs, RenewalNext
    <3>2. CASE tmp.cmd # 0 /\ tmp.intent = 1
      <4>1. tmp.cmd \in 1 .. Apps
        <5>1. tmp.cmd \in 0 .. Apps
          BY Types DEF Memory
        <5> QED BY <5>1, <3>2, Sizes
      <4>2. ((Alive(tmp.cmd))' <=> Alive(tmp.cmd)) /\ (app'[tmp'.cmd] = "ok" <=> app[tmp.cmd] = "ok")
        BY <2>1, <2>2, <4>1 DEF Alive, Running
      <4> QED BY <2>1, <3>2, <4>2, RenewalIs, RenewalNext
    <3> QED BY <3>1, <3>2
  <2> QED BY <1>0, <1>1, <2>3, <2>4, MayLapse
<1>4. ASSUME NEW n \in 1 .. Apps, AppIntent(n) PROVE [Permit!Next]_(Permit!vars)
  <2>1. PICK v \in {1, 3} : tmp' = [tmp EXCEPT !.intent = v]
    BY <1>4 DEF AppIntent
  <2>2. /\ Alive(n) /\ app' = app /\ tmp.cmd = n /\ n # 0
        /\ tmp'.cmd = n /\ tmp'.intent = v
    BY <1>4, <2>1, Types, Sizes DEF AppIntent, Alive, Running, Memory
  <2>3. ~NoApp /\ ~NoApp' /\ (Alive(tmp.cmd))'
    BY <2>2 DEF NoApp, Alive, Running
  <2>4. life = "running" /\ life' = life
    BY <2>3, LifeIs
  <2>5. renewal' = IF v = 1 THEN "asked" ELSE "none"
    BY <2>2, <2>3, RenewalNext
  <2>6. CASE v = 1
    BY <1>0, <2>4, <2>5, <2>6 DEF Permit!Next, Permit!Ask
  <2>7. CASE v # 1
    BY <1>0, <2>4, <2>5, <2>7 DEF Permit!Next, Permit!Forget
  <2> QED BY <2>6, <2>7
<1>5. ASSUME NEW n \in 1 .. Apps, AppExit(n) PROVE [Permit!Next]_(Permit!vars)
  BY <1>5, EndsDepart DEF AppExit, ScriptFrame, Permit!Next
<1>6. ASSUME app' = app, tmp'.cmd = tmp.cmd, tmp'.intent = tmp.intent
      PROVE  [Permit!Next]_(Permit!vars)
  <2>1. NoApp' <=> NoApp
    BY <1>6 DEF NoApp, Alive, Running
  <2> QED BY <1>0, <1>1, <1>6, <2>1, RenewalStands, MayLapse
<1>7. ASSUME NEW n \in 1 .. Apps, AppClose(n) PROVE [Permit!Next]_(Permit!vars)
  <2>1. app' = app /\ tmp' = [tmp EXCEPT !.closed = TRUE] /\ tmp \in Memory
    BY <1>7, Types DEF AppClose
  <2> QED BY <1>6, <2>1 DEF Memory
<1>8. ASSUME NEW b \in 1 .. Bridges, BridgeBegins(b) \/ BridgeReady(b) \/ BridgeExit(b) \/ BridgeReceipt(b)
      PROVE  [Permit!Next]_(Permit!vars)
  BY <1>6, <1>8 DEF BridgeBegins, BridgeReady, BridgeExit, BridgeReceipt
<1>9. ASSUME AdapterExit \/ \E k \in 1 .. Sessions : Wake(k) PROVE [Permit!Next]_(Permit!vars)
  BY <1>6, <1>9 DEF AdapterExit, Wake
<1> QED BY <1>2, <1>3, <1>4, <1>5, <1>7, <1>8, <1>9 DEF Processes

\* archive_entry forgets what the last application left, and may take a permit that its
\* owner never used; the other functions are not seen.
LEMMA CallPermits ==
    ASSUME TypeInv, LockInv, TodoInv, AppInv, CallStep
    PROVE  [Permit!Next]_(Permit!vars)
<1>0. UNCHANGED <<sessions, own, app>>
  BY CallKeeps
<1>1. NoApp' <=> NoApp
  BY <1>0 DEF NoApp, Alive, Running
<1>2. CASE call.pc # "remove"
  <2>1. dir'.id = dir.id /\ dir'.revoked = dir.revoked
    BY <1>2, CallFolders
  <2>2. tmp' = tmp
    BY <1>2, CallKeeps DEF Remove
  <2>3. Permitted' => Permitted
    BY <1>0, <2>1 DEF Permitted, Authorized
  <2> QED BY <1>0, <1>1, <2>2, <2>3, RenewalStands, MayLapse
<1>3. CASE call.pc = "remove"
  <2>1. Remove
    BY <1>3 DEF CallStep, BridgeStop, BridgeGone, BridgeSettled, BridgeStart, BridgeStarted,
                Route, Arm, Stage, Copy, Rename
  <2>2. CASE call.todo = <<>>
    <3>1. UNCHANGED <<dir, tmp>>
      BY <2>1, <2>2 DEF Remove
    <3>2. Permitted' => Permitted
      BY <1>0, <3>1 DEF Permitted, Authorized
    <3> QED BY <1>0, <1>1, <3>1, <3>2, RenewalStands, MayLapse
  <2>3. CASE call.todo # <<>>
    <3> DEFINE f == Head(call.todo)
    <3>1. /\ dir' = IF f \in Folder THEN [dir EXCEPT ![f] = 0] ELSE dir
          /\ tmp' = CASE f = "state" -> [NoState EXCEPT !.snapshot = tmp.snapshot]
                      [] f = "snapshot" -> [tmp EXCEPT !.snapshot = 0]
                      [] OTHER -> tmp
      BY <2>1, <2>3 DEF Remove
    <3>2. f = "revoked" => dir.id = 0
      <4>1. call.todo \in Seq(Removable)
        BY Types DEF Callees, Removable
      <4>2. 1 \in DOMAIN call.todo /\ call.todo[1] = f
        BY <2>3, <4>1
      <4>3. f = "revoked" /\ dir.id # 0 => \E j \in 1 .. 1 - 1 : call.todo[j] = "id"
        BY <1>3, <4>2 DEF TodoInv
      <4> QED BY <4>3
    <3> HIDE DEF f
    <3>3. dir'.id \in {0, dir.id}
      BY <1>0, CallFolders
    <3>4. dir'.revoked = dir.revoked \/ f = "revoked"
      BY <3>1, FolderIs, Types DEF Files
    <3>5. Permitted' => Permitted
      BY <1>0, <3>2, <3>3, <3>4 DEF Permitted, Authorized
    <3>6. CASE f = "state"
      <4>1. dir' = dir /\ tmp'.cmd = 0
        BY <3>1, <3>6, FolderIs DEF NoState, Files
      <4>2. Permitted' <=> Permitted
        BY <1>0, <4>1 DEF Permitted, Authorized
      <4>3. life' = life /\ renewal' = "none"
        BY <1>1, <4>1, <4>2, LifeIs, RenewalNext
      <4> QED BY <1>0, <4>3 DEF Permit!Next, Permit!Forget
    <3>7. CASE f # "state"
      <4>1. tmp'.cmd = tmp.cmd /\ tmp'.intent = tmp.intent
        <5>1. tmp \in Memory
          BY Types
        <5>2. CASE f = "snapshot"
          BY <3>1, <5>1, <5>2 DEF Memory
        <5>3. CASE f # "snapshot"
          BY <3>1, <3>7, <5>3
        <5> QED BY <5>2, <5>3
      <4> QED BY <1>0, <1>1, <3>5, <4>1, RenewalStands, MayLapse
    <3> QED BY <3>6, <3>7
  <2> QED BY <2>2, <2>3
<1> QED BY <1>2, <1>3

\* An owner consumes an intent from one phase only, and grants itself nothing else.
LEMMA OwnerGrants ==
    ASSUME TypeInv, NEW k \in 1 .. Sessions, OwnerStep(k)
    PROVE  /\ own[k].pc = "consume" => Consume(k)
           /\ own'[k].pc \in Granted => own[k].pc \in Granted \cup {"consume"}
           /\ \A j \in 1 .. Sessions : j # k => own'[j] = own[j]
<1>1. own[k].pc = "consume" => Consume(k)
  BY DEF OwnerStep, OwnerAdmit, Launch, Spawn, ExecWait, LastReceipt, Poll, Tick, Visit, Setup, Wired, Apply,
         Reapply, Reapplied, Offer, Offered, LeaveVisit, Reap, Departed, Clear, Consider, Archived
<1> QED BY <1>1, OwnerWrites, OwnerMoves DEF Granted

\* A spawn uses the permit, a consumed intent renews it, a refusal lets it lapse.
LEMMA OwnerPermits ==
    ASSUME TypeInv, LockInv, SafetyInv, EarnedInv, NEW k \in 1 .. Sessions, OwnerStep(k)
    PROVE  [Permit!Next]_(Permit!vars)
<1>0. /\ UNCHANGED <<sessions, dir.id, dir.revoked>>
      /\ own[k].pc = "consume" => Consume(k)
      /\ own'[k].pc \in Granted => own[k].pc \in Granted \cup {"consume"}
      /\ \A j \in 1 .. Sessions : j # k => own'[j] = own[j]
  BY OwnerKeeps, OwnerDirs, OwnerGrants DEF OwnerFrame
<1>1. CASE Spawn(k)
  <2>1. PICK n \in 1 .. Apps : app' = [app EXCEPT ![n] = "exec"]
    BY <1>1, OwnerActs
  <2>2. own[k].pc = "spawn" /\ tmp' = tmp
    BY <1>1, OwnerActs
  <2>3. NoApp /\ tmp.cmd = 0
    BY <1>1, SpawnsOnBare DEF SafetyInv, Bare
  <2>4. Permitted
    <3>1. Authorized(k)
      BY <2>2 DEF SafetyInv, AdmittedInv
    <3> QED BY <2>2, <3>1 DEF Permitted, Granted
  <2>5. ~NoApp'
    BY <2>1, Types DEF NoApp, Alive
  <2>6. life = "permitted" /\ life' = "running"
    BY <2>3, <2>4, <2>5, LifeIs
  <2>7. renewal' = renewal
    BY <2>2, <2>3, RenewalIs, RenewalNext
  <2> QED BY <1>0, <2>6, <2>7 DEF Permit!Next, Permit!Launch
<1>2. CASE ~Spawn(k) /\ tmp' = tmp /\ (own[k].pc = "consume" => own'[k].pc \notin Granted)
  <2>1. app' = app
    BY <1>2, OwnerKeeps
  <2>2. NoApp' <=> NoApp
    BY <2>1 DEF NoApp, Alive, Running
  <2>3. Permitted' => Permitted
    BY <1>0, <1>2 DEF Permitted, Authorized
  <2> QED BY <1>0, <1>2, <2>1, <2>2, <2>3, RenewalStands, MayLapse DEF SafetyInv
<1>3. CASE own[k].pc = "consume" /\ (tmp' # tmp \/ own'[k].pc \in Granted)
  <2>1. /\ own[k].pc = "consume" /\ Authorized(k) /\ Accepted
        /\ tmp' = [tmp EXCEPT !.intent = 2] /\ own' = [own EXCEPT ![k].pc = "archived"]
        /\ UNCHANGED <<app, dir>>
    <3>1. Ended.pc \notin Granted /\ own \in [1 .. Sessions -> Owners]
      BY Types, Records DEF Granted
    <3>2. ~(Authorized(k) /\ Accepted) => own' = [own EXCEPT ![k] = Ended] /\ tmp' = tmp
      BY <1>0, <1>3 DEF Consume, Quit, Dismiss
    <3>3. Authorized(k) /\ Accepted
      BY <1>3, <3>1, <3>2
    <3> QED BY <1>0, <1>3, <3>3 DEF Consume, Goto
  <2>2. NoApp /\ NoApp'
    BY <2>1 DEF SafetyInv, GroundInv, Bare, NoApp, Alive, Running
  <2>3. Permitted'
    <3>1. own'[k].pc = "archived"
      BY <2>1, Types DEF Owners
    <3>2. Authorized(k)'
      BY <2>1 DEF Authorized
    <3> QED BY <3>1, <3>2 DEF Permitted, Granted
  <2>4. ~Permitted
    BY <2>1 DEF Permitted, Authorized, Granted
  <2>5. life = "down" /\ life' = "permitted"
    BY <2>2, <2>3, <2>4, LifeIs
  <2>6. renewal = "earned"
    <3>1. tmp.cmd # 0 /\ tmp.cmd = dir.mpc /\ tmp.intent = 1
      BY <2>1 DEF Accepted
    <3>2. app[tmp.cmd] = "ok"
      BY <2>1, <3>1 DEF SafetyInv, AppInv, EarnedInv, Authorized, Closing
    <3> QED BY <3>1, <3>2, RenewalIs DEF Alive, Running
  <2>7. renewal' = "none"
    BY <2>1, Types, RenewalNext DEF Memory
  <2> QED BY <1>0, <2>5, <2>6, <2>7 DEF Permit!Next, Permit!Renew
<1>4. tmp' = tmp \/ own[k].pc = "consume"
  BY OwnerKeeps DEF Consume
<1> QED BY <1>1, <1>2, <1>3, <1>4 DEF Spawn

\* The session that is being prepared has no owner yet.
LEMMA PreparedUnborn ==
    ASSUME TypeInv, NEW k \in 1 .. Sessions, k = sessions + 1
    PROVE  own[k].pc \notin Granted
<1>1. sessions \in Nat /\ k > sessions
  <2>1. sessions \in 0 .. Sessions
    BY Types
  <2> QED BY <2>1, Sizes
<1> QED BY <1>1, Types, Records DEF Granted

\* A start grants, a revocation lapses; a stop may end the application.
LEMMA OperatorPermits ==
    ASSUME TypeInv, LockInv, SafetyInv, OperatorStep
    PROVE  [Permit!Next]_(Permit!vars)
<1>1. CASE StartOwner
  <2>1. /\ op.pc = "fork" /\ sessions < Sessions /\ sessions' = sessions + 1
        /\ own' = [own EXCEPT ![sessions'] = [Unborn EXCEPT !.pc = "admit"]]
        /\ UNCHANGED <<dir, tmp, app>>
    BY <1>1 DEF StartOwner
  <2>2. NoApp /\ NoApp' /\ dir.id = sessions + 1 /\ dir.revoked = 0
    BY <2>1 DEF SafetyInv, GroundInv, Preparing, Bare, NoApp, Alive, Running
  <2>3. sessions + 1 \in 1 .. Sessions
    <3>1. sessions \in 0 .. Sessions
      BY Types
    <3> QED BY <2>1, <3>1, Sizes
  <2>4. ~Permitted
    BY <2>2, PreparedUnborn DEF Permitted, Authorized
  <2>5. Permitted'
    <3>1. PICK k \in 1 .. Sessions : k = sessions + 1
      BY <2>3
    <3>2. own'[k].pc = "admit"
      BY <2>1, <3>1, Types DEF Unborn
    <3>3. dir'.id = k /\ dir'.revoked = 0
      BY <2>1, <2>2, <3>1
    <3> QED BY <3>2, <3>3 DEF Permitted, Granted, Authorized
  <2>6. life = "down" /\ life' = "permitted"
    BY <2>2, <2>4, <2>5, LifeIs
  <2>7. renewal' = renewal
    BY <2>1, RenewalStands
  <2> QED BY <2>1, <2>6, <2>7 DEF Permit!Next, Permit!Grant
<1>2. CASE StopAwait /\ IdApp /\ app' # app
  <2>1. /\ app' = [app EXCEPT ![dir.mpc] = "bad"] /\ dir.mpc # 0 /\ Alive(dir.mpc)
        /\ UNCHANGED <<dir, tmp, own, sessions>>
    BY <1>2 DEF StopAwait, StopFrame, IdApp, Alive
  <2>2. dir.mpc \in 1 .. Apps
    <3>1. dir.mpc \in 0 .. Apps
      BY Types
    <3> QED BY <2>1, <3>1, Sizes
  <2> QED BY <2>1, <2>2, EndsDepart DEF SafetyInv, Permit!Next
<1>3. CASE ~StartOwner /\ app' = app
  <2>1. own' = own /\ sessions' = sessions
    BY <1>3, OperatorKeeps
  <2>2. tmp'.cmd = tmp.cmd /\ tmp'.intent = tmp.intent
    <3>1. tmp \in Memory
      BY Types
    <3> QED BY <3>1, OperatorKeeps DEF Memory
  <2>3. NoApp' <=> NoApp
    BY <1>3 DEF NoApp, Alive, Running
  <2>4. Permitted' => Permitted
    <3> SUFFICES ASSUME NEW k \in 1 .. Sessions, Authorized(k)', own'[k].pc \in Granted
                 PROVE  Authorized(k)
      BY <2>1 DEF Permitted
    <3>1. dir'.id = k /\ dir'.revoked = 0 /\ own[k].pc \in Granted
      BY <2>1 DEF Authorized
    <3>2. k # sessions + 1
      BY <3>1, PreparedUnborn
    <3>3. dir.id = k
      BY <3>1, <3>2, OperatorDirs
    <3>4. op.pc # "fresh"
      BY <3>2, <3>3 DEF SafetyInv, GroundInv
    <3>5. dir.revoked = 0
      BY <3>1, <3>4, OperatorDirs
    <3> QED BY <3>3, <3>5 DEF Authorized
  <2> QED BY <1>3, <2>1, <2>2, <2>3, <2>4, RenewalStands, MayLapse DEF SafetyInv
<1>4. StartOwner => app' = app
  BY DEF StartOwner
<1> QED BY <1>1, <1>2, <1>3, <1>4, OperatorKeeps

-----------------------------------------------------------------------------
(* The refinement.                                                          *)

LEMMA EarnedHolds == TypeInv /\ EarnedInv /\ [Next]_vars => EarnedInv'
<1> SUFFICES ASSUME TypeInv, EarnedInv, [Next]_vars, NEW j \in 1 .. Sessions, own'[j].pc = "consume"
             PROVE  own'[j].code
  BY DEF EarnedInv
<1>1. ASSUME NEW k \in 1 .. Sessions, OwnerStep(k) PROVE own'[j].code
  <2>1. CASE j # k
    BY <1>1, <2>1, OwnerWrites DEF EarnedInv
  <2>2. CASE j = k
    <3>1. own[k].pc = "cleared" /\ own[k].code
      BY <1>1, <2>2, OwnerMoves DEF Considered
    <3>2. ~Spawn(k) /\ ~Reap(k) /\ own'[k] # Ended
      BY <2>2, <3>1, Records, OwnerActs
    <3> QED BY <1>1, <2>2, <3>1, <3>2, OwnerWrites
  <2> QED BY <2>1, <2>2
<1>2. CASE OperatorStep
  <2>1. own'[j] = own[j] \/ own'[j].pc = "admit"
    <3>1. CASE StartOwner
      BY <3>1, Types, Records DEF StartOwner, Owners, Unborn
    <3>2. CASE ~StartOwner
      BY <1>2, <3>2, OperatorKeeps
    <3> QED BY <3>1, <3>2
  <2> QED BY <2>1 DEF EarnedInv
<1>3. CASE Processes
  BY <1>3, ProcessMoves DEF EarnedInv
<1>4. CASE PowerOff
  BY <1>4, PowerOffLeaves
<1>5. CASE CallStep \/ Interrupt \/ UNCHANGED vars \/ \E c \in Commands : Command(c)
  <2>1. own' = own
    BY <1>5, CallKeeps DEF Interrupt, vars, Command, OpFrame
  <2> QED BY <2>1 DEF EarnedInv
<1> QED BY <1>1, <1>2, <1>3, <1>4, <1>5 DEF Next, Scripts

\* Each step of the session is a step of the permit, or is not seen.
LEMMA PermitStep ==
    TypeInv /\ LockInv /\ SafetyInv /\ EarnedInv /\ [Next]_vars => [Permit!Next]_(Permit!vars)
<1> SUFFICES ASSUME TypeInv, LockInv, SafetyInv, EarnedInv, [Next]_vars
             PROVE  [Permit!Next]_(Permit!vars)
  OBVIOUS
<1>0. AppInv /\ TodoInv
  BY DEF SafetyInv
<1>1. CASE Interrupt \/ UNCHANGED vars \/ \E c \in Commands : Command(c)
  <2>1. UNCHANGED <<app, tmp, dir, own, sessions>>
    BY <1>1 DEF Interrupt, vars, Command, OpFrame
  <2>2. (NoApp' <=> NoApp) /\ (Permitted' <=> Permitted)
    BY <2>1 DEF NoApp, Alive, Running, Permitted, Authorized
  <2> QED BY <1>0, <2>1, <2>2, RenewalStands, MayLapse
<1>2. CASE PowerOff
  <2>1. NoApp' /\ sessions' = sessions /\ tmp'.cmd = 0
    BY <1>2, PowerOffLeaves, Records DEF NoApp
  <2>2. ~Permitted'
    BY <1>2, PowerOffLeaves DEF Permitted, Granted
  <2>3. life' = "down" /\ renewal' = "none"
    BY <2>1, <2>2, LifeIs, RenewalNext
  <2> QED BY <2>1, <2>3 DEF Permit!Next, Permit!PowerOff
<1> QED BY <1>0, <1>1, <1>2, ProcessPermits, CallPermits, OwnerPermits, OperatorPermits DEF Next, Scripts

\* mcu-session.sh launches what it promises to launch, and nothing else: no application
\* without an explicit start, or a consumed intent of one that ended with code 0.
THEOREM LaunchesNeedPermits == Spec => LaunchesArePermitted
<1>1. Init => EarnedInv /\ Permit!Init
  <2> SUFFICES ASSUME Init PROVE EarnedInv /\ Permit!Init
    OBVIOUS
  <2>1. EarnedInv /\ ~Permitted
    BY Records DEF Init, EarnedInv, Permitted, Granted
  <2>2. NoApp /\ tmp.cmd = 0
    BY DEF Init, NoApp, Alive, Running, NoState
  <2>3. life = "down" /\ renewal = "none"
    BY <2>1, <2>2, LifeIs, RenewalIs
  <2> QED BY <2>1, <2>3 DEF Init, Permit!Init
<1> QED BY <1>1, EarnedHolds, PermitStep, GroundIsKept, PTL DEF Spec, LaunchesArePermitted, Permit!Spec
=============================================================================
