------------------------------ MODULE ImageBuild ------------------------------
(* The builder of personal images (builder/*.go): the developer's build on files *)
(* and the browser's build in memory.                                            *)
(*                                                                               *)
(* A root filesystem is what distinguishes it: where it comes from, the recipe   *)
(* applied to it, what its owner-key slot holds, and how often a byte of it was  *)
(* altered behind the program's back; its SHA-256 is the record itself.  While   *)
(* the build on files runs, the medium may alter what is stored and others may   *)
(* put a file under the chosen name; the process may fail or be killed anywhere. *)
EXTENDS Naturals

CONSTANTS Faults,  \* bound: how often something outside interferes in a run
          Runs     \* bound: how many builds are started

ASSUME BuildAssumption == Faults \in Nat /\ Runs \in Nat \ {0}

VARIABLES job,     \* what was asked of this build
          step,    \* the last step it has finished
          input,   \* the selected image, as stored
          root,    \* the root filesystem being worked on
          temp,    \* the image in the work folder
          out,     \* what lies under the chosen name
          sums,    \* the checksums the build has taken and trusts
          struck,  \* the steps after which the medium altered the working root
          outcome, faults, runs

buildVars == <<job, step, input, root, temp, out, sums, struck, outcome, faults, runs>>

-------------------------------------------------------------------------------
(* The data. *)

Recipes == {"no-ssh", "ssh", "diagnostics"}
Official == [base |-> "official", recipe |-> "stock", slot |-> "stock", bad |-> 0]
Nothing == [base |-> "none", recipe |-> "stock", slot |-> "stock", bad |-> 0]
Roots == [base : {"none", "official", "other"}, recipe : Recipes \cup {"stock"},
          slot : {"stock", "closed", "placeholder", "owner"}, bad : 0..Faults]

\* `whole`: the header, table, size and trailer are in form; `match`: the payload
\* has the SHA-1 the header gives.
Image(r) == [root |-> r, whole |-> TRUE, match |-> TRUE]
NoImage == Image(Nothing)
Images == [root : Roots, whole : BOOLEAN, match : BOOLEAN]
Selectable == {Image(Official), Image([Official EXCEPT !.base = "other"]),
               [Image(Official) EXCEPT !.whole = FALSE]}

\* The embedded patch of a recipe may be in order, fail its own checks, be made for
\* another root, or have its owner-key slot at the wrong place.
Jobs == [medium : {"files", "memory"}, key : {"none", "owner", "malformed"},
         diagnostics : BOOLEAN, assets : {"fine", "malformed", "foreign", "misplaced"}]

Kind(j) == CASE j.diagnostics -> "diagnostics"
             [] ~j.diagnostics /\ j.key # "none" -> "ssh"
             [] OTHER -> "no-ssh"
Refused(j) == j.diagnostics /\ j.key # "none"
NormalizedKey(j) == Kind(j) = "ssh" => j.key = "owner"
LoadsPatch(j) == j.assets # "malformed"

KeySlot(j) == CASE Kind(j) # "ssh" -> "closed"
                [] Kind(j) = "ssh" /\ j.assets = "misplaced" -> "stock"
                [] OTHER -> "placeholder"
Patched(r, j) == [r EXCEPT !.recipe = Kind(j), !.slot = KeySlot(j)]
OriginalSum(j) == IF j.assets = "foreign" THEN [Official EXCEPT !.base = "other"] ELSE Official
PatchedSum(j) == Patched(OriginalSum(j), j)
WithKey(r) == [r EXCEPT !.slot = "owner"]

\* The layout read from an image gives the root its header stands for.
Inspects(i) == i.whole
InspectsBytes(i) == i.whole
Decodes(i, layout) == i.match /\ i.root = layout
DecodesBytes(i, layout) == i.match /\ i.root = layout

NoSums == [layout |-> Nothing, root |-> Nothing, image |-> NoImage]

-------------------------------------------------------------------------------
(* One build.  At (m, s): it works on medium m and has just finished step s. *)

BuildAt(m, s) == outcome = "running" /\ job.medium = m /\ step = s
Done(s) == step' = s /\ UNCHANGED <<job, outcome, faults, runs>>

BuildInit ==
    /\ job \in Jobs /\ step = "asked" /\ outcome = "running"
    /\ input \in Selectable
    /\ root = Nothing /\ temp = NoImage /\ sums = NoSums /\ struck = {}
    /\ out = [by |-> "nobody", image |-> NoImage, job |-> job, late |-> FALSE]
    /\ faults = 0 /\ runs = 1

\* selectRecipe, normalizeOwnerPublicKey, loadPatch: nothing is read before.
Accept ==
    /\ outcome = "running" /\ step = "asked"
    /\ ~Refused(job) /\ NormalizedKey(job) /\ LoadsPatch(job)
    /\ Done("accepted") /\ UNCHANGED <<input, root, temp, out, sums, struck>>

\* validateOfficial reads the file twice: for its checksum, then for its layout.
Validate ==
    /\ BuildAt("files", "accepted") /\ input = Image(Official)
    /\ Done("official") /\ UNCHANGED <<input, root, temp, out, sums, struck>>

Layout ==
    /\ BuildAt("files", "official") /\ Inspects(input)
    /\ sums' = [sums EXCEPT !.layout = input.root]
    /\ Done("laid out") /\ UNCHANGED <<input, root, temp, out, struck>>

\* The chosen name must be free; the work folder is made beside it.
Prepare ==
    /\ BuildAt("files", "laid out") /\ out.by = "nobody"
    /\ Done("prepared") /\ UNCHANGED <<input, root, temp, out, sums, struck>>

\* The selected file is read a third time.
Decode ==
    /\ BuildAt("files", "prepared") /\ Decodes(input, sums.layout)
    /\ input.root = OriginalSum(job)
    /\ root' = input.root
    /\ Done("decoded") /\ UNCHANGED <<input, temp, out, sums, struck>>

\* Fault: with a key the root is only hashed once the key is in.
ApplyPatchUnchecked ==
    /\ BuildAt("files", "decoded")
    /\ root' = Patched(root, job)
    /\ Kind(job) # "ssh" => root' = PatchedSum(job)
    /\ sums' = [sums EXCEPT !.root = root']
    /\ Done("patched") /\ UNCHANGED <<input, temp, out, struck>>

ApplyPatch ==
    /\ BuildAt("files", "decoded")
    /\ root' = Patched(root, job)
    /\ root' = PatchedSum(job)
    /\ Kind(job) = "ssh" => root'.slot = "placeholder"
    /\ sums' = [sums EXCEPT !.root = PatchedSum(job)]
    /\ Done("patched") /\ UNCHANGED <<input, temp, out, struck>>

\* With a key the checksum to keep to is taken anew, from the file.
ReplaceOwnerKey ==
    /\ BuildAt("files", "patched") /\ Kind(job) = "ssh"
    /\ root' = WithKey(root)
    /\ sums' = [sums EXCEPT !.root = root']
    /\ Done("keyed") /\ UNCHANGED <<input, temp, out, struck>>

Encode ==
    /\ BuildAt("files", IF Kind(job) = "ssh" THEN "keyed" ELSE "patched")
    /\ temp' = Image(root)
    /\ sums' = [sums EXCEPT !.image = temp']
    /\ Done("encoded") /\ UNCHANGED <<input, root, out, struck>>

\* The finished image is inspected and decoded like the official one.
InspectFinished ==
    /\ BuildAt("files", "encoded") /\ Inspects(temp)
    /\ sums' = [sums EXCEPT !.layout = temp.root]
    /\ Done("inspected") /\ UNCHANGED <<input, root, temp, out, struck>>

VerifyFinished ==
    /\ BuildAt("files", "inspected") /\ Decodes(temp, sums.layout) /\ temp.root = sums.root
    /\ Done("verified") /\ UNCHANGED <<input, root, temp, out, sums, struck>>

\* The rename takes the name whoever holds it by now.
Save ==
    /\ BuildAt("files", "verified")
    /\ out' = [by |-> "builder", image |-> temp, job |-> job, late |-> "patched" \in struck]
    /\ temp' = NoImage
    /\ Done("saved") /\ UNCHANGED <<input, root, sums, struck>>

Confirm ==
    /\ BuildAt("files", "saved") /\ out.image = sums.image
    /\ outcome' = "reported" /\ root' = Nothing
    /\ UNCHANGED <<job, step, input, temp, out, sums, struck, faults, runs>>

-------------------------------------------------------------------------------
(* The build in memory has its own copy of the image. *)

DecodeBytes ==
    /\ BuildAt("memory", "accepted")
    /\ input = Image(Official) /\ InspectsBytes(input) /\ DecodesBytes(input, input.root)
    /\ input.root = OriginalSum(job)
    /\ root' = input.root
    /\ Done("decoded") /\ UNCHANGED <<input, temp, out, sums, struck>>

ApplyPatchBytes ==
    /\ BuildAt("memory", "decoded")
    /\ Patched(root, job) = PatchedSum(job)
    /\ Kind(job) = "ssh" => KeySlot(job) = "placeholder"
    /\ root' = IF Kind(job) = "ssh" THEN WithKey(Patched(root, job)) ELSE Patched(root, job)
    /\ sums' = [sums EXCEPT !.root = root']
    /\ Done("keyed") /\ UNCHANGED <<input, temp, out, struck>>

EncodeBytes ==
    /\ BuildAt("memory", "keyed")
    /\ temp' = Image(root) /\ root' = Nothing
    /\ sums' = [sums EXCEPT !.image = temp']
    /\ Done("encoded") /\ UNCHANGED <<input, out, struck>>

VerifyBytes ==
    /\ BuildAt("memory", "encoded")
    /\ InspectsBytes(temp) /\ DecodesBytes(temp, temp.root) /\ temp.root = sums.root
    /\ outcome' = "reported"
    /\ UNCHANGED <<job, step, input, root, temp, out, sums, struck, faults, runs>>

-------------------------------------------------------------------------------
(* What goes wrong. *)

\* A check that does not hold, or any operation of the step under way, ends the
\* build; the work folder goes, what was saved stays.
Fail ==
    /\ outcome = "running"
    /\ outcome' = "failed" /\ root' = Nothing /\ temp' = NoImage
    /\ UNCHANGED <<job, step, input, out, sums, struck, faults, runs>>

\* Killed: the work folder stays as well, under a name of its own.
Killed ==
    /\ BuildAt("files", step) /\ outcome' = "killed"
    /\ UNCHANGED <<job, step, input, root, temp, out, sums, struck, faults, runs>>

BuildAgain ==
    /\ outcome # "running" /\ runs < Runs /\ runs' = runs + 1
    /\ job' \in Jobs /\ step' = "asked" /\ outcome' = "running"
    /\ root' = Nothing /\ temp' = NoImage /\ sums' = NoSums /\ struck' = {}
    /\ faults' = 0 /\ UNCHANGED <<input, out>>

Interfere ==
    /\ BuildAt("files", step) /\ faults < Faults /\ faults' = faults + 1
    /\ UNCHANGED <<job, step, sums, outcome, runs>>

SwapInput == Interfere /\ input' \in Selectable /\ UNCHANGED <<root, temp, out, struck>>
SpoilRoot ==
    /\ Interfere /\ root # Nothing /\ root' = [root EXCEPT !.bad = @ + 1]
    /\ struck' = struck \cup {step} /\ UNCHANGED <<input, temp, out>>
SpoilImage ==
    /\ Interfere /\ temp # NoImage
    /\ \E field \in {"whole", "match"} : temp' = [temp EXCEPT ![field] = FALSE]
    /\ UNCHANGED <<input, root, out, struck>>
SpoilSaved ==
    /\ Interfere /\ step = "saved" /\ out' = [out EXCEPT !.image.match = FALSE]
    /\ UNCHANGED <<input, root, temp, struck>>
TakeName ==
    /\ Interfere /\ out.by = "nobody" /\ out' = [out EXCEPT !.by = "another"]
    /\ UNCHANGED <<input, root, temp, struck>>

OnDisk == Validate \/ Layout \/ Prepare \/ Decode \/ ApplyPatch \/ ReplaceOwnerKey \/ Encode
             \/ InspectFinished \/ VerifyFinished \/ Save \/ Confirm
Memory == DecodeBytes \/ ApplyPatchBytes \/ EncodeBytes \/ VerifyBytes
Outside == SwapInput \/ SpoilRoot \/ SpoilImage \/ SpoilSaved \/ TakeName
BuildNext == Accept \/ OnDisk \/ Memory \/ Fail \/ Killed \/ BuildAgain \/ Outside

BuildSpec == BuildInit /\ [][BuildNext]_buildVars

-------------------------------------------------------------------------------
BuildTypeOK ==
    /\ job \in Jobs /\ input \in Images /\ root \in Roots /\ temp \in Images
    /\ out \in [by : {"nobody", "builder", "another"}, image : Images, job : Jobs, late : BOOLEAN]
    /\ sums \in [layout : Roots, root : Roots, image : Images]
    /\ outcome \in {"running", "reported", "failed", "killed"}
    /\ faults \in 0..Faults /\ runs \in 1..Runs

\* The root the recipe was made for with that recipe applied, and the owner's key in its slot
\* exactly when one was given.  A byte may be wrong only in a build with a key, and
\* only when the medium altered it between the two checksums of the root (patch.go:120
\* and patch.go:201), where nothing is left to compare with.
AsAsked(r, j, late) ==
    /\ r.base = OriginalSum(j).base /\ r.recipe = Kind(j)
    /\ r.slot = IF Kind(j) = "ssh" THEN "owner" ELSE "closed"
    /\ r.bad # 0 => Kind(j) = "ssh" /\ late

\* An image the build reports is whole and what was asked for; and whatever it has
\* put under the chosen name, even when it then failed or was killed, holds such a
\* root, however files changed between the reads.
ImagesAreAsAsked ==
    /\ outcome = "reported" =>
           /\ sums.image.whole /\ sums.image.match
           /\ AsAsked(sums.image.root, job, "patched" \in struck)
           /\ job.medium = "files" => out.image = sums.image
    /\ out.by = "builder" => AsAsked(out.image.root, out.job, out.late)

===============================================================================
