------------------------------- MODULE MCTools ---------------------------------
(* The mirror's topology and the programs around the session, for TLC: six systems  *)
(* that share no state, each in parts of its own.  "topology" and "surprised" are   *)
(* the mirror in the application and its reader, "ring" and "windows" its           *)
(* diagnostic ring, "adapter" the forwarder of the controls, "images" the builder,  *)
(* "drive" and "executables" the diagnostics collector.                             *)
EXTENDS MirrorTopology, ProcessorRing, ControlAdapter, ImageBuild, UsbDestination, UsbExecutables

VARIABLE part   \* the system this behaviour belongs to

toolVars == <<part, vars, ringVars, adapterVars, buildVars, driveVars, executableVars>>

\* Two lanes, of which the first may call a getter within a getter.
TwoLanes == {1, 2}
TwoAndOne == <<2, 1>>

Parts == {"topology", "surprised", "ring", "windows", "adapter", "images", "drive", "executables"}
Within(names) ==
  /\ part \in names /\ UNCHANGED part
  /\ {"topology", "surprised"} \cap names = {} => UNCHANGED vars
  /\ {"ring", "windows"} \cap names = {} => UNCHANGED ringVars
  /\ "adapter" \notin names => UNCHANGED adapterVars
  /\ "images" \notin names => UNCHANGED buildVars
  /\ "drive" \notin names => UNCHANGED driveVars
  /\ "executables" \notin names => UNCHANGED executableVars

\* Every part starts in each of its initial states, the others in one of theirs.
ToolsInit ==
  /\ part \in Parts
  /\ Init /\ RingInit /\ AdapterInit /\ BuildInit /\ DriveInit /\ ExecutableInit
  /\ part # "adapter" => bus = [a \in Addresses |-> "none"]
  /\ part # "images" => job = (CHOOSE j \in Jobs : TRUE) /\ input = Image(Official)
  /\ part # "drive" => \A d \in Drives, n \in Names : drive[d].names[n].now = "absent"
  /\ part # "executables" => genuine = {CHOOSE k \in Keys : TRUE}

\* The bounds of each part: only the calls the hooks expect, or a shorter use of the
\* project with one they do not; three observations in one window without getters, or
\* two windows with nested getters and one observation, where the collector stands by.
ToolsNext ==
  \/ Within({"topology"}) /\ Next /\ surprises' = 0
  \/ Within({"surprised"}) /\ Next /\ calls' <= 3
  \/ Within({"ring"}) /\ RingNext /\ generation' <= 2 /\ UNCHANGED getters
  \/ Within({"windows"}) /\ RingNext /\ count' <= 1 /\ UNCHANGED reader
  \/ Within({"adapter"}) /\ AdapterNext
  \/ Within({"images"}) /\ BuildNext
  \/ Within({"drive"}) /\ DriveNext
  \/ Within({"executables"}) /\ ExecutableNext
ToolsSpec == ToolsInit /\ [][ToolsNext]_toolVars

-------------------------------------------------------------------------------
\* The state of every part has its type: among others, no digest without its request,
\* no key twice in the cache and no more rows than Tracks.
ToolsTypeOK == /\ TypeOK /\ RingTypeOK /\ AdapterTypeOK
               /\ BuildTypeOK /\ DriveTypeOK /\ ExecutableTypeOK

\* topology, copy_mirror_view: the mirror is ready whenever an expected project is, and
\* a view it calls ready is the pool's.
TopologyIsTrue == ReadyViewsAreTrue /\ ExpectedUseStaysReady

\* adapter.c:163, :190: nothing from before the order to arm or from a lost connection is
\* forwarded, and the adapter never waits unsubscribed from the device it believes in.
ControlsArePassedOn == NothingIsReplayed /\ NeverDeaf

\* usb-diagnostics.c and processor_publish: what the drive shows, what the report says of
\* an executable and what the collector takes for an observation.
DiagnosticsAreTrue == ReportsAreTrue /\ VerdictsAreTrue /\ ObservationsAreTrue
================================================================================
