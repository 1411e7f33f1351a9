---------------------------- MODULE UsbDestination -----------------------------
(* The USB drive the diagnostics collector exports its report to                   *)
(* (firmware/usb-diagnostics.c).                                                   *)
(*                                                                                 *)
(* A drive is admitted when it is the only candidate, or the only one that carries *)
(* the marker directory; its report of an earlier capture is removed and a new one *)
(* is put in its place again and again by writing, syncing and renaming.  The user *)
(* may pull a drive at any moment, which loses some of what was not synced, and    *)
(* plug it in again, as another mount.  The kernel, the file system and the user   *)
(* are external; a drive that does not qualify (not USB, read-only) is none here.  *)
EXTENDS Naturals, FiniteSets

CONSTANTS Drives,
          Plugs,      \* bound: mounts
          Failures,   \* bound: calls that fail on a drive in place
          Exports     \* bound: reports written to it

ASSUME DriveAssumption == Drives # {} /\ {Plugs, Failures, Exports} \subseteq Nat

VARIABLES drive,      \* what a drive holds, and its mount; 0, unplugged
          turn,       \* where the collector's loop stands
          dest,       \* the destination: a drive and its mount
          admitted, valid,
          mounts, failures, exports

driveVars == <<drive, turn, dest, admitted, valid, mounts, failures, exports>>

-------------------------------------------------------------------------------
(* The names on a drive: what they are now, and what a pull may make of them.  A   *)
(* file whose data is not synced is "fresh" while mounted, and may end "torn".     *)

Names == {"marker", "report", "tmp"}
Contents == {"absent", "here", "earlier", "fresh", "torn", "this"}

Left(v) == IF v = "fresh" THEN {"torn", "this"} ELSE {v}
Set(entry, v) == [now |-> v, may |-> entry.may \cup Left(v)]
SettleEntry(entry) == [entry EXCEPT !.may = Left(entry.now)]

\* Only one drive is worked on, and only while it is in place.
There == drive[dest.drive].mount = dest.mount
Now(n) == drive[dest.drive].names[n].now
Write(n, v) == drive' = [drive EXCEPT ![dest.drive].names[n] = Set(@, v)]
\* fsync of a directory.
SyncDir == drive' = [drive EXCEPT ![dest.drive].names = [n \in Names |-> SettleEntry(@[n])]]
\* fsync of the temporary: its data can no longer be torn.
SyncData ==
    drive' = [drive EXCEPT ![dest.drive].names.tmp =
                  [now |-> "this", may |-> (@.may \ {"torn"}) \cup {"this"}]]

-------------------------------------------------------------------------------
(* The user and the kernel. *)

PlugDrive(d) ==
    /\ drive[d].mount = 0 /\ mounts < Plugs
    /\ mounts' = mounts + 1
    /\ drive' = [drive EXCEPT ![d].mount = mounts + 1]
    /\ UNCHANGED <<turn, dest, admitted, valid, failures, exports>>

\* Without its directory nothing in it remains.
Pull(d) ==
    /\ drive[d].mount # 0
    /\ \E left \in [Names -> Contents] :
          /\ \A n \in Names : \/ left[n] \in drive[d].names[n].may
                              \/ left["marker"] = "absent" /\ left[n] = "absent"
          /\ left["marker"] = "absent" => left["report"] = "absent" /\ left["tmp"] = "absent"
          /\ drive' = [drive EXCEPT ![d] =
                [mount |-> 0, names |-> [n \in Names |-> [now |-> left[n], may |-> {left[n]}]]]]
    /\ UNCHANGED <<turn, dest, admitted, valid, mounts, failures, exports>>

\* A call on the destination succeeds only while its drive is in place.
Does(effect) == There /\ effect /\ UNCHANGED failures
Fails ==
    /\ There => failures < Failures
    /\ failures' = IF There THEN failures + 1 ELSE failures
    /\ UNCHANGED drive

-------------------------------------------------------------------------------
(* Discovery: the mounts are listed and opened (one step). *)

Mounted == {d \in Drives : drive[d].mount # 0}
Marked == {d \in Mounted : drive[d].names["marker"].now = "here"}

\* The only marked drive is the one admitted, at the same mount.
destination_current == Marked = {dest.drive} /\ There

DriveGoes(next) == turn' = next /\ UNCHANGED <<dest, admitted, valid, mounts, exports>>
Invalidate == turn' = "write" /\ valid' = FALSE /\ UNCHANGED <<dest, admitted, mounts, exports>>

\* admit_destination: nothing is chosen among several; a listing that fails counts as none.
Admit ==
    /\ turn = "scan" /\ ~admitted /\ valid
    /\ \/ /\ (Marked = {} /\ Cardinality(Mounted) # 1) \/ Cardinality(Marked) > 1
          /\ turn' = "write" /\ UNCHANGED <<dest, admitted, failures>>
       \/ /\ failures < Failures /\ failures' = failures + 1
          /\ turn' = "write" /\ UNCHANGED <<dest, admitted>>
       \/ \E d \in Drives :
          /\ dest' = [drive |-> d, mount |-> drive[d].mount] /\ UNCHANGED failures
          /\ \/ Marked = {d} /\ admitted' = TRUE /\ turn' = "clear"
             \/ Marked = {} /\ Mounted = {d} /\ turn' = "mark" /\ UNCHANGED admitted
    /\ UNCHANGED <<drive, valid, mounts, exports>>

\* create_marker
MakeMarker ==
    /\ turn = "mark"
    /\ \/ Now("marker") = "absent" /\ Does(Write("marker", "here")) /\ DriveGoes("keep")
       \/ Fails /\ Invalidate
KeepMarker ==
    /\ turn = "keep"
    /\ \/ /\ Does(SyncDir) /\ turn' = "clear" /\ admitted' = TRUE
          /\ UNCHANGED <<dest, valid, mounts, exports>>
       \/ Fails /\ Invalidate

-------------------------------------------------------------------------------
(* The loop, and the report of an earlier capture. *)

CheckDrive(next) ==
    /\ UNCHANGED <<drive, failures>>
    /\ IF destination_current THEN DriveGoes(next) ELSE Invalidate
\* A step of clear_previous_report.
Clearing(effect, next) == (Does(effect) /\ DriveGoes(next)) \/ (Fails /\ Invalidate)

ClearBegins == turn = "clear" /\ CheckDrive("unlink")
ClearUnlinks ==
    /\ turn = "unlink"
    /\ \/ Now("report") = "absent" /\ Does(UNCHANGED drive) /\ DriveGoes("write")
       \/ Now("report") # "absent" /\ Does(Write("report", "absent")) /\ DriveGoes("forget")
       \/ Fails /\ Invalidate
ClearSyncs == turn = "forget" /\ Clearing(SyncDir, "cleared")
ClearEnds == turn = "cleared" /\ CheckDrive("write")

\* A scan of an admitted drive; one that stopped being valid is never used again.
Rescan ==
    /\ turn = "scan"
    /\ \/ admitted /\ valid /\ CheckDrive("write")
       \/ ~valid /\ DriveGoes("write") /\ UNCHANGED <<drive, failures>>

\* The report is due, or not yet; the internal copy in /run is left out.
WriteDue ==
    /\ turn = "write" /\ UNCHANGED <<drive, dest, admitted, valid, mounts, failures>>
    /\ \/ turn' = "scan" /\ UNCHANGED exports
       \/ /\ admitted /\ valid /\ exports < Exports
          /\ turn' = "current" /\ exports' = exports + 1

-------------------------------------------------------------------------------
(* atomic_external *)

\* What a failure leaves is removed while that is possible; a failed write leaves a part.
Abandon ==
    IF There THEN \E v \in {"absent", IF turn = "create" THEN "torn" ELSE Now("tmp")} : Write("tmp", v)
    ELSE UNCHANGED drive
Gives ==
    /\ There => failures < Failures
    /\ failures' = IF There THEN failures + 1 ELSE failures
    /\ Abandon /\ Invalidate
ExportStep(here, effect, next) == turn = here /\ Does(effect) /\ DriveGoes(next)

ExportBegins == turn = "current" /\ CheckDrive("owned")
\* clear_owned_tmp; nothing is removed when it fails.
ExportClears ==
    /\ turn = "owned"
    /\ \/ Now("tmp") = "absent" /\ Does(UNCHANGED drive) /\ DriveGoes("create")
       \/ Now("tmp") # "absent" /\ Does(Write("tmp", "absent")) /\ DriveGoes("emptied")
       \/ Fails /\ Invalidate
ExportEmpties == turn = "emptied" /\ Clearing(SyncDir, "create")
ExportWrites == ExportStep("create", Write("tmp", "fresh"), "sync")
\* Fault: the report is renamed before its data is on the drive.
ExportHurries == ExportStep("sync", UNCHANGED drive, "recheck")
ExportSyncs == ExportStep("sync", SyncData, "recheck")
ExportChecks ==
    /\ turn = "recheck" /\ UNCHANGED failures
    /\ IF destination_current THEN DriveGoes("rename") /\ UNCHANGED drive ELSE Abandon /\ Invalidate
\* The temporary's own name is gone with the rename.
ExportRenames ==
    ExportStep("rename",
               LET names == drive[dest.drive].names IN
               drive' = [drive EXCEPT ![dest.drive].names =
                  [names EXCEPT !.report = [now |-> names.tmp.now,
                                            may |-> names.report.may \cup Left(names.tmp.now)],
                                !.tmp = Set(names.tmp, "absent")]],
               "dirsync")
ExportEnds ==
    \/ ExportStep("dirsync", SyncDir, "scan")
    \/ turn = "dirsync" /\ Fails /\ Invalidate
ExportFails == turn \in {"create", "sync", "rename"} /\ Gives

-------------------------------------------------------------------------------
Entry(v) == [now |-> v, may |-> {v}]
\* A drive is empty, or was used in an earlier capture that may have been cut off.
DriveInit ==
    /\ drive \in [Drives -> {[mount |-> 0, names |-> [marker |-> Entry(m), report |-> Entry(r),
                                                      tmp |-> Entry(t)]] :
                  m \in {"absent", "here"}, r \in {"absent", "earlier"}, t \in {"absent", "torn"}}]
    /\ \A d \in Drives : LET n == drive[d].names IN
          n.marker.now = "absent" => n.report.now = "absent" /\ n.tmp.now = "absent"
    /\ turn = "scan" /\ dest = [drive |-> CHOOSE d \in Drives : TRUE, mount |-> 0]
    /\ admitted = FALSE /\ valid = TRUE
    /\ mounts = 0 /\ failures = 0 /\ exports = 0

DriveNext ==
    \/ \E d \in Drives : PlugDrive(d) \/ Pull(d)
    \/ Admit \/ MakeMarker \/ KeepMarker \/ Rescan \/ WriteDue
    \/ ClearBegins \/ ClearUnlinks \/ ClearSyncs \/ ClearEnds
    \/ ExportBegins \/ ExportClears \/ ExportEmpties \/ ExportWrites \/ ExportSyncs
    \/ ExportChecks \/ ExportRenames \/ ExportEnds \/ ExportFails

DriveSpec == DriveInit /\ [][DriveNext]_driveVars

-------------------------------------------------------------------------------
DriveTypeOK ==
    /\ drive \in [Drives -> [mount : 0 .. Plugs,
                             names : [Names -> [now : Contents, may : SUBSET Contents]]]]
    /\ dest \in [drive : Drives, mount : 0 .. Plugs] /\ admitted \in BOOLEAN /\ valid \in BOOLEAN
    /\ mounts \in 0 .. Plugs /\ failures \in 0 .. Failures /\ exports \in 0 .. Exports

\* The report's possible contents, were the drive pulled now.
Found(d) == drive[d].names["report"].may

\* atomic_external, clear_previous_report: whenever a drive is pulled, its report is
\* whole; only the admitted drive ever gets one; and while that drive is in place,
\* cleared and valid, it does not show the report of an earlier capture.
ReportsAreTrue ==
    \A d \in Drives :
        /\ "torn" \notin Found(d)
        /\ "this" \in Found(d) => d = dest.drive /\ admitted
        /\ /\ d = dest.drive /\ admitted /\ valid /\ There
           /\ turn \in {"scan", "write", "current"}
           => "earlier" \notin Found(d)
===============================================================================
