----------------------------- MODULE Tools_proofs ------------------------------
(* The programs around the session, proved: what the builder saves, what the        *)
(* adapter forwards and what the diagnostics collector shows are as meant.          *)
EXTENDS MCTools, ProcessorRing_proofs, SequenceTheorems

-------------------------------------------------------------------------------
(* The builder's invariant.                                                      *)

Struck == "patched" \in struck
OnFiles(steps) == outcome = "running" /\ job.medium = "files" /\ step \in steps
InMemory(steps) == outcome = "running" /\ job.medium = "memory" /\ step \in steps
BuildSteps == {"asked", "accepted", "official", "laid out", "prepared", "decoded", "patched",
               "keyed", "encoded", "inspected", "verified", "saved"}

\* What is stored has its type, and what is altered was altered by a fault of this build.
BuildKinds == BuildTypeOK /\ step \in BuildSteps /\ input \in Selectable /\ root.bad <= faults

\* A root with the recipe in it, before its slot is filled.
RecipeIn(r) == r.base = OriginalSum(job).base /\ r.recipe = Kind(job) /\ (r.bad # 0 => Struck)

\* On files: the checksum trusted is that of a root as asked once the last check of
\* the root itself is behind, and an image is only saved when it has it.
FilesTrusted ==
  /\ OnFiles({"patched"}) /\ Kind(job) = "ssh" => RecipeIn(root)
  /\ OnFiles({"patched"}) /\ Kind(job) # "ssh" => AsAsked(sums.root, job, Struck)
  /\ OnFiles({"keyed", "encoded", "inspected", "verified", "saved"}) => AsAsked(sums.root, job, Struck)
  /\ OnFiles({"inspected"}) => sums.layout = temp.root
  /\ OnFiles({"encoded", "inspected", "verified"}) => sums.image = Image(temp.root)
  /\ OnFiles({"verified"}) => temp.root = sums.root
  /\ OnFiles({"saved"}) => sums.image = Image(sums.root)
MemoryTrusted ==
  /\ InMemory({"keyed", "encoded"}) => AsAsked(sums.root, job, Struck)
  /\ InMemory({"encoded"}) => sums.image = temp /\ temp = Image(temp.root)

BuildInv == BuildKinds /\ FilesTrusted /\ MemoryTrusted /\ ImagesAreAsAsked
-------------------------------------------------------------------------------
(* The builder.                                                                  *)

\* A patched root, and one with its owner's key.
LEMMA RootsPatched ==
  ASSUME NEW r \in Roots, NEW j \in Jobs
  PROVE /\ Patched(r, j) \in Roots
        /\ Patched(r, j).base = r.base /\ Patched(r, j).recipe = Kind(j)
        /\ Patched(r, j).slot = KeySlot(j) /\ Patched(r, j).bad = r.bad
<1>1. Kind(j) \in Recipes \cup {"stock"}
  BY DEF Kind, Recipes
<1>2. KeySlot(j) \in {"stock", "closed", "placeholder", "owner"}
  BY DEF Kind, KeySlot
<1> HIDE DEF Kind, KeySlot
<1> QED BY <1>1, <1>2 DEF Patched, Roots

LEMMA RootsKeyed ==
  ASSUME NEW r \in Roots
  PROVE /\ WithKey(r) \in Roots /\ WithKey(r).slot = "owner"
        /\ WithKey(r).base = r.base /\ WithKey(r).recipe = r.recipe /\ WithKey(r).bad = r.bad
BY DEF WithKey, Roots

LEMMA ImagesOfRoots == ASSUME NEW r \in Roots PROVE Image(r) \in Images
BY DEF Image, Images

LEMMA SpoiltImages ==
  ASSUME NEW i \in Images
  PROVE [i EXCEPT !.whole = FALSE] \in Images /\ [i EXCEPT !.match = FALSE] \in Images
BY DEF Images

LEMMA SelectedAreImages == Selectable \subseteq Images
<1>1. Official \in Roots /\ [Official EXCEPT !.base = "other"] \in Roots
  BY BuildAssumption DEF Official, Roots, Recipes
<1>2. Image(Official) \in Images
  BY <1>1, ImagesOfRoots
<1>3. [Image(Official) EXCEPT !.whole = FALSE] \in Images
  BY <1>2, SpoiltImages
<1> QED BY <1>1, <1>3, ImagesOfRoots DEF Selectable

LEMMA SumsTaken ==
  ASSUME NEW R, NEW I, NEW s \in [layout : R, root : R, image : I], NEW r \in R, NEW i \in I
  PROVE /\ [s EXCEPT !.layout = r] \in [layout : R, root : R, image : I]
        /\ [s EXCEPT !.root = r] \in [layout : R, root : R, image : I]
        /\ [s EXCEPT !.image = i] \in [layout : R, root : R, image : I]
OBVIOUS

LEMMA NamesTaken ==
  ASSUME NEW I, NEW J, NEW o \in [by : {"nobody", "builder", "another"}, image : I, job : J, late : BOOLEAN],
         [o.image EXCEPT !.match = FALSE] \in I
  PROVE /\ [o EXCEPT !.image.match = FALSE]
             \in [by : {"nobody", "builder", "another"}, image : I, job : J, late : BOOLEAN]
        /\ [o EXCEPT !.by = "another"]
             \in [by : {"nobody", "builder", "another"}, image : I, job : J, late : BOOLEAN]
<1>1. [o EXCEPT !.image.match = FALSE] = [o EXCEPT !.image = [o.image EXCEPT !.match = FALSE]]
  OBVIOUS
<1> QED BY <1>1

LEMMA RootsAltered ==
  ASSUME NEW r \in Roots, NEW f \in Nat, r.bad <= f, f < Faults
  PROVE [r EXCEPT !.bad = @ + 1] \in Roots /\ [r EXCEPT !.bad = @ + 1].bad = r.bad + 1 /\ r.bad \in Nat
BY BuildAssumption DEF Roots

LEMMA BuildStarts == BuildInit => BuildInv
<1> SUFFICES ASSUME BuildInit PROVE BuildInv
  OBVIOUS
<1> USE BuildAssumption DEF BuildInit
<1>1. Nothing \in Roots
  BY DEF Nothing, Roots, Recipes
<1>2. Selectable \subseteq Images
  BY SelectedAreImages
<1>3. BuildTypeOK
  BY <1>1, <1>2, ImagesOfRoots DEF BuildTypeOK, NoImage, NoSums
<1>4. BuildKinds
  BY <1>3 DEF BuildKinds, BuildSteps, Nothing
<1> QED BY <1>4 DEF BuildInv, FilesTrusted, MemoryTrusted, OnFiles, InMemory, ImagesAreAsAsked
\* Each step alone keeps the kinds.
LEMMA BuildKeepsKinds ==
  ASSUME BuildKinds, BuildNext
  PROVE BuildKinds'
<1> USE BuildAssumption DEF BuildKinds
<1>1. CASE Accept
  BY <1>1 DEF Accept, Done, BuildTypeOK, BuildSteps
<1>2. CASE Validate
  BY <1>2 DEF Validate, BuildAt, Done, BuildTypeOK, BuildSteps
<1>3. CASE Layout
  BY <1>3 DEF Layout, BuildAt, Done, BuildTypeOK, BuildSteps, Images
<1>4. CASE Prepare
  BY <1>4 DEF Prepare, BuildAt, Done, BuildTypeOK, BuildSteps
<1>5. CASE Decode
  <2>1. input.root \in Roots /\ input.root.bad = 0
    BY DEF BuildTypeOK, Images, Selectable, Image, Official
  <2> QED BY <1>5, <2>1 DEF Decode, BuildAt, Done, BuildTypeOK, BuildSteps, Images
<1>6. CASE ApplyPatch
  <2>1. PatchedSum(job) = Patched(root, job) /\ Patched(root, job) \in Roots
        /\ Patched(root, job).bad = root.bad
    BY <1>6, RootsPatched DEF ApplyPatch, BuildTypeOK
  <2>2. BuildTypeOK'
    BY <1>6, <2>1, SumsTaken DEF ApplyPatch, Done, BuildTypeOK
  <2> QED BY <1>6, <2>1, <2>2 DEF ApplyPatch, Done, BuildSteps
<1>7. CASE ReplaceOwnerKey
  <2>1. root' \in Roots /\ root'.bad = root.bad
    BY <1>7, RootsKeyed DEF ReplaceOwnerKey, BuildTypeOK
  <2>2. BuildTypeOK'
    BY <1>7, <2>1, SumsTaken DEF ReplaceOwnerKey, Done, BuildTypeOK
  <2> QED BY <1>7, <2>1, <2>2 DEF ReplaceOwnerKey, Done, BuildSteps
<1>8. CASE Encode
  BY <1>8, ImagesOfRoots DEF Encode, BuildAt, Done, BuildTypeOK, BuildSteps
<1>9. CASE InspectFinished
  BY <1>9 DEF InspectFinished, BuildAt, Done, BuildTypeOK, BuildSteps, Images
<1>10. CASE VerifyFinished
  BY <1>10 DEF VerifyFinished, BuildAt, Done, BuildTypeOK, BuildSteps
<1>11. Nothing \in Roots /\ NoImage \in Images /\ Nothing.bad = 0
  BY ImagesOfRoots DEF Nothing, Roots, Recipes, NoImage
<1>12. CASE Save
  BY <1>11, <1>12 DEF Save, BuildAt, Done, BuildTypeOK, BuildSteps
<1>13. CASE Confirm
  BY <1>11, <1>13 DEF Confirm, BuildAt, Done, BuildTypeOK, BuildSteps
<1>14. CASE DecodeBytes
  <2>1. input.root \in Roots /\ input.root.bad = 0
    BY DEF BuildTypeOK, Images, Selectable, Image, Official
  <2> QED BY <1>14, <2>1 DEF DecodeBytes, BuildAt, Done, BuildTypeOK, BuildSteps
<1>15. CASE ApplyPatchBytes
  <2>1. root' \in Roots /\ root'.bad = root.bad
    BY <1>15, RootsKeyed, RootsPatched DEF ApplyPatchBytes, BuildTypeOK
  <2>2. BuildTypeOK'
    BY <1>15, <2>1, SumsTaken DEF ApplyPatchBytes, Done, BuildTypeOK
  <2> QED BY <1>15, <2>1, <2>2 DEF ApplyPatchBytes, Done, BuildSteps
<1>16. CASE EncodeBytes
  BY <1>11, <1>16, ImagesOfRoots DEF EncodeBytes, BuildAt, Done, BuildTypeOK, BuildSteps
<1>17. CASE VerifyBytes
  BY <1>17 DEF VerifyBytes, BuildAt, BuildTypeOK, BuildSteps
<1>18. CASE Fail
  <2>1. BuildTypeOK'
    BY <1>11, <1>18 DEF Fail, BuildTypeOK
  <2>2. root'.bad <= faults'
    BY <1>11, <1>18 DEF Fail, BuildTypeOK
  <2> QED BY <1>18, <2>1, <2>2 DEF Fail
<1>19. CASE Killed
  BY <1>19 DEF Killed, BuildTypeOK, BuildSteps
<1>20. CASE BuildAgain
  <2>1. runs' \in 1 .. Runs
    BY <1>20 DEF BuildAgain, BuildTypeOK
  <2>2. sums' \in [layout : Roots, root : Roots, image : Images]
    BY <1>11, <1>20 DEF BuildAgain, NoSums
  <2>3. BuildTypeOK'
    BY <1>11, <1>20, <2>1, <2>2 DEF BuildAgain, BuildTypeOK
  <2>4. root'.bad <= faults'
    BY <1>11, <1>20 DEF BuildAgain
  <2> QED BY <1>20, <2>3, <2>4 DEF BuildAgain, BuildSteps
<1>21. CASE SwapInput
  <2>1. Selectable \subseteq Images
    BY SelectedAreImages
  <2>2. BuildTypeOK'
    BY <1>21, <2>1 DEF SwapInput, Interfere, BuildTypeOK
  <2>3. root'.bad <= faults'
    BY <1>21 DEF SwapInput, Interfere, BuildTypeOK, Roots
  <2> QED BY <1>21, <2>2, <2>3 DEF SwapInput, Interfere
<1>22. CASE SpoilRoot
  <2>1. root \in Roots /\ faults \in Nat /\ faults < Faults /\ root.bad <= faults
    BY <1>22 DEF SpoilRoot, Interfere, BuildTypeOK
  <2>2. root' = [root EXCEPT !.bad = @ + 1] /\ faults' = faults + 1
    BY <1>22 DEF SpoilRoot, Interfere
  <2>3. root' \in Roots /\ root'.bad <= faults'
    BY <2>1, <2>2, RootsAltered
  <2>4. BuildTypeOK'
    BY <1>22, <2>1, <2>3 DEF SpoilRoot, Interfere, BuildTypeOK
  <2> QED BY <1>22, <2>3, <2>4 DEF SpoilRoot, Interfere
<1>23. CASE SpoilImage
  <2>1. temp' \in Images
    BY <1>23, SpoiltImages DEF SpoilImage, BuildTypeOK
  <2>2. BuildTypeOK'
    BY <1>23, <2>1 DEF SpoilImage, Interfere, BuildTypeOK
  <2>3. root'.bad <= faults'
    BY <1>23 DEF SpoilImage, Interfere, BuildTypeOK, Roots
  <2> QED BY <1>23, <2>2, <2>3 DEF SpoilImage, Interfere
<1>24. CASE SpoilSaved
  <2>1. [out.image EXCEPT !.match = FALSE] \in Images
    BY SpoiltImages DEF BuildTypeOK
  <2>2. out' \in [by : {"nobody", "builder", "another"}, image : Images, job : Jobs, late : BOOLEAN]
    BY <1>24, <2>1, NamesTaken DEF SpoilSaved, BuildTypeOK
  <2>3. BuildTypeOK'
    BY <1>24, <2>2 DEF SpoilSaved, Interfere, BuildTypeOK
  <2>4. root'.bad <= faults'
    BY <1>24 DEF SpoilSaved, Interfere, BuildTypeOK, Roots
  <2> QED BY <1>24, <2>3, <2>4 DEF SpoilSaved, Interfere
<1>25. CASE TakeName
  <2>1. [out.image EXCEPT !.match = FALSE] \in Images
    BY SpoiltImages DEF BuildTypeOK
  <2>2. out' \in [by : {"nobody", "builder", "another"}, image : Images, job : Jobs, late : BOOLEAN]
    BY <1>25, <2>1, NamesTaken DEF TakeName, BuildTypeOK
  <2>3. BuildTypeOK'
    BY <1>25, <2>2 DEF TakeName, Interfere, BuildTypeOK
  <2>4. root'.bad <= faults'
    BY <1>25 DEF TakeName, Interfere, BuildTypeOK, Roots
  <2> QED BY <1>25, <2>3, <2>4 DEF TakeName, Interfere
<1> QED BY <1>1, <1>2, <1>3, <1>4, <1>5, <1>6, <1>7, <1>8, <1>9, <1>10, <1>12, <1>13, <1>14, <1>15,
           <1>16, <1>17, <1>18, <1>19, <1>20, <1>21, <1>22, <1>23, <1>24, <1>25
           DEF BuildNext, OnDisk, Memory, Outside

\* What a patch makes, and when it is what was asked.
LEMMA PatchesAreAsAsked ==
  ASSUME NEW j \in Jobs, NEW late \in BOOLEAN
  PROVE /\ PatchedSum(j).bad = 0 /\ PatchedSum(j).base = OriginalSum(j).base
        /\ PatchedSum(j).recipe = Kind(j) /\ PatchedSum(j).slot = KeySlot(j)
        /\ Kind(j) # "ssh" => AsAsked(PatchedSum(j), j, late)
<1>1. OriginalSum(j) \in Roots /\ OriginalSum(j).bad = 0
  BY BuildAssumption DEF OriginalSum, Official, Roots, Recipes
<1>2. /\ PatchedSum(j).base = OriginalSum(j).base /\ PatchedSum(j).recipe = Kind(j)
      /\ PatchedSum(j).slot = KeySlot(j) /\ PatchedSum(j).bad = 0
  BY <1>1, RootsPatched DEF PatchedSum
<1> QED BY <1>2 DEF AsAsked, KeySlot

\* A root with a key in it, patched before.
LEMMA KeyedAreAsAsked ==
  ASSUME NEW r \in Roots, NEW j \in Jobs, NEW late \in BOOLEAN, Kind(j) = "ssh",
         r.base = OriginalSum(j).base, r.recipe = Kind(j), r.bad # 0 => late
  PROVE AsAsked(WithKey(r), j, late)
BY RootsKeyed DEF AsAsked

LEMMA ImageParts ==
  ASSUME NEW r
  PROVE Image(r).root = r /\ Image(r).whole = TRUE /\ Image(r).match = TRUE
BY DEF Image

LEMMA BuildKeepsTrust ==
  ASSUME BuildInv, BuildKinds', BuildNext
  PROVE FilesTrusted' /\ MemoryTrusted' /\ ImagesAreAsAsked'
<1> USE DEF BuildInv
<1>0. BuildTypeOK /\ BuildTypeOK' /\ job \in Jobs /\ root \in Roots /\ Struck \in BOOLEAN /\ Struck' \in BOOLEAN
  BY DEF BuildKinds, BuildTypeOK, Struck
<1>a. ASSUME outcome' # "reported", out'.by = "builder" => AsAsked(out'.image.root, out'.job, out'.late)
      PROVE ImagesAreAsAsked'
  BY <1>a, Zenon DEF ImagesAreAsAsked
<1>b. ASSUME outcome' # "reported", out' = out
      PROVE ImagesAreAsAsked'
  <2>1. out.by = "builder" => AsAsked(out.image.root, out.job, out.late)
    BY Zenon DEF ImagesAreAsAsked
  <2> QED BY <1>a, <1>b, <2>1
<1>c. ASSUME sums'.image.whole, sums'.image.match, AsAsked(sums'.image.root, job', Struck'), out' = out,
             job'.medium = "files" => out'.image = sums'.image
      PROVE ImagesAreAsAsked'
  <2>1. out.by = "builder" => AsAsked(out.image.root, out.job, out.late)
    BY Zenon DEF ImagesAreAsAsked
  <2> QED BY <1>c, <2>1 DEF ImagesAreAsAsked, Struck
<1>1. CASE Accept
  BY <1>1 DEF Accept, Done, FilesTrusted, MemoryTrusted, ImagesAreAsAsked, OnFiles, InMemory
<1>2. CASE Validate
  BY <1>2 DEF Validate, BuildAt, Done, FilesTrusted, MemoryTrusted, ImagesAreAsAsked, OnFiles, InMemory
<1>3. CASE Layout
  BY <1>3 DEF Layout, BuildAt, Done, FilesTrusted, MemoryTrusted, ImagesAreAsAsked, OnFiles, InMemory
<1>4. CASE Prepare
  BY <1>4 DEF Prepare, BuildAt, Done, FilesTrusted, MemoryTrusted, ImagesAreAsAsked, OnFiles, InMemory
<1>5. CASE Decode
  BY <1>5 DEF Decode, BuildAt, Done, FilesTrusted, MemoryTrusted, ImagesAreAsAsked, OnFiles, InMemory
<1>6. CASE ApplyPatch
  <2>1. /\ outcome = "running" /\ step = "decoded" /\ job.medium = "files"
        /\ outcome' = "running" /\ step' = "patched" /\ UNCHANGED <<job, out, struck>>
        /\ root' = PatchedSum(job) /\ sums'.root = PatchedSum(job)
    BY <1>6 DEF ApplyPatch, BuildAt, Done, BuildTypeOK
  <2>2. RecipeIn(root)'
    BY <1>0, <2>1, PatchesAreAsAsked DEF RecipeIn
  <2>3. Kind(job') # "ssh" => AsAsked(sums'.root, job', Struck')
    BY <1>0, <2>1, PatchesAreAsAsked
  <2>4. FilesTrusted' /\ MemoryTrusted'
    BY <2>1, <2>2, <2>3 DEF FilesTrusted, MemoryTrusted, OnFiles, InMemory
  <2> QED BY <1>b, <2>1, <2>4
<1>7. CASE ReplaceOwnerKey
  <2>1. /\ outcome = "running" /\ step = "patched" /\ job.medium = "files" /\ Kind(job) = "ssh"
        /\ outcome' = "running" /\ step' = "keyed" /\ UNCHANGED <<job, out, struck>>
        /\ sums'.root = WithKey(root)
    BY <1>7 DEF ReplaceOwnerKey, BuildAt, Done, BuildTypeOK, BuildKinds
  <2>2. RecipeIn(root)
    BY <2>1 DEF FilesTrusted, OnFiles
  <2>3. AsAsked(WithKey(root), job, Struck)
    BY <1>0, <2>1, <2>2, KeyedAreAsAsked DEF RecipeIn
  <2>4. FilesTrusted' /\ MemoryTrusted'
    BY <2>1, <2>3 DEF FilesTrusted, MemoryTrusted, OnFiles, InMemory, Struck
  <2> QED BY <1>b, <2>1, <2>4
<1>8. CASE Encode
  BY <1>0, <1>8, ImageParts DEF Encode, BuildAt, Done, FilesTrusted, MemoryTrusted, ImagesAreAsAsked, OnFiles, InMemory, Struck, BuildTypeOK
<1>9. CASE InspectFinished
  BY <1>0, <1>9 DEF InspectFinished, BuildAt, Done, FilesTrusted, MemoryTrusted, ImagesAreAsAsked, OnFiles, InMemory, Struck, BuildTypeOK
<1>10. CASE VerifyFinished
  BY <1>0, <1>10 DEF VerifyFinished, BuildAt, Done, FilesTrusted, MemoryTrusted, ImagesAreAsAsked, OnFiles, InMemory, Struck, BuildTypeOK
<1>12. CASE Save
  <2>1. /\ outcome = "running" /\ step = "verified" /\ job.medium = "files"
        /\ outcome' = "running" /\ step' = "saved" /\ UNCHANGED <<job, sums, struck>>
        /\ out' = [by |-> "builder", image |-> temp, job |-> job, late |-> Struck]
    BY <1>12 DEF Save, BuildAt, Done, Struck
  <2>2. AsAsked(sums.root, job, Struck) /\ sums.image = Image(sums.root) /\ temp.root = sums.root
    BY <2>1 DEF FilesTrusted, OnFiles
  <2>3. FilesTrusted' /\ MemoryTrusted'
    BY <2>1, <2>2 DEF FilesTrusted, MemoryTrusted, OnFiles, InMemory, Struck
  <2>4. AsAsked(out'.image.root, out'.job, out'.late)
    BY <2>1, <2>2
  <2> QED BY <1>a, <2>1, <2>3, <2>4
<1>13. CASE Confirm
  <2>1. /\ outcome = "running" /\ step = "saved" /\ job.medium = "files" /\ outcome' = "reported"
        /\ UNCHANGED <<job, out, struck, sums>> /\ out.image = sums.image
    BY <1>13 DEF Confirm, BuildAt
  <2>2. AsAsked(sums.root, job, Struck) /\ sums.image = Image(sums.root)
    BY <2>1 DEF FilesTrusted, OnFiles
  <2>3. FilesTrusted' /\ MemoryTrusted'
    BY <2>1 DEF FilesTrusted, MemoryTrusted, OnFiles, InMemory
  <2>4. sums'.image.whole /\ sums'.image.match /\ AsAsked(sums'.image.root, job', Struck')
    BY <2>1, <2>2, ImageParts DEF Struck
  <2> QED BY <1>c, <2>1, <2>3, <2>4
<1>14. CASE DecodeBytes
  <2>1. /\ outcome = "running" /\ job.medium = "memory" /\ outcome' = "running" /\ step' = "decoded"
        /\ UNCHANGED <<job, out>>
    BY <1>14 DEF DecodeBytes, BuildAt, Done
  <2>2. FilesTrusted' /\ MemoryTrusted'
    BY <2>1 DEF FilesTrusted, MemoryTrusted, OnFiles, InMemory
  <2> QED BY <1>b, <2>1, <2>2
<1>15. CASE ApplyPatchBytes
  <2>1. /\ outcome = "running" /\ step = "decoded" /\ job.medium = "memory"
        /\ outcome' = "running" /\ step' = "keyed" /\ UNCHANGED <<job, out, struck>>
        /\ sums'.root = IF Kind(job) = "ssh" THEN WithKey(PatchedSum(job)) ELSE PatchedSum(job)
    BY <1>15 DEF ApplyPatchBytes, BuildAt, Done, BuildTypeOK, BuildKinds
  <2>2. PatchedSum(job) \in Roots
    <3>1. OriginalSum(job) \in Roots
      BY BuildAssumption DEF OriginalSum, Official, Roots, Recipes
    <3> QED BY <1>0, <3>1, RootsPatched DEF PatchedSum
  <2>3. AsAsked(sums'.root, job, Struck)
    BY <1>0, <2>1, <2>2, KeyedAreAsAsked, PatchesAreAsAsked
  <2>4. FilesTrusted' /\ MemoryTrusted'
    BY <2>1, <2>3 DEF FilesTrusted, MemoryTrusted, OnFiles, InMemory, Struck
  <2> QED BY <1>b, <2>1, <2>4
<1>16. CASE EncodeBytes
  <2>1. /\ outcome = "running" /\ step = "keyed" /\ job.medium = "memory"
        /\ outcome' = "running" /\ step' = "encoded" /\ UNCHANGED <<job, out, struck>>
        /\ sums'.root = sums.root /\ sums'.image = temp' /\ temp' = Image(root)
    BY <1>16 DEF EncodeBytes, BuildAt, Done, BuildTypeOK
  <2>2. AsAsked(sums.root, job, Struck)
    BY <2>1 DEF MemoryTrusted, InMemory
  <2>3. temp' = Image(temp'.root)
    BY <2>1, ImageParts
  <2>4. FilesTrusted' /\ MemoryTrusted'
    BY <2>1, <2>2, <2>3 DEF FilesTrusted, MemoryTrusted, OnFiles, InMemory, Struck
  <2> QED BY <1>b, <2>1, <2>4
<1>17. CASE VerifyBytes
  <2>1. /\ outcome = "running" /\ step = "encoded" /\ job.medium = "memory" /\ outcome' = "reported"
        /\ UNCHANGED <<job, out, struck, sums>> /\ temp.root = sums.root
    BY <1>17 DEF VerifyBytes, BuildAt
  <2>2. AsAsked(sums.root, job, Struck) /\ sums.image = Image(sums.root)
    BY <2>1 DEF MemoryTrusted, InMemory
  <2>3. FilesTrusted' /\ MemoryTrusted'
    BY <2>1 DEF FilesTrusted, MemoryTrusted, OnFiles, InMemory
  <2>4. sums'.image.whole /\ sums'.image.match /\ AsAsked(sums'.image.root, job', Struck')
    BY <2>1, <2>2, ImageParts DEF Struck
  <2> QED BY <1>c, <2>1, <2>3, <2>4
<1>18. CASE Fail
  BY <1>0, <1>18 DEF Fail, FilesTrusted, MemoryTrusted, ImagesAreAsAsked, OnFiles, InMemory, Struck, BuildTypeOK
<1>19. CASE Killed
  BY <1>0, <1>19 DEF Killed, BuildAt, FilesTrusted, MemoryTrusted, ImagesAreAsAsked, OnFiles, InMemory, Struck, BuildTypeOK
<1>20. CASE BuildAgain
  BY <1>0, <1>20 DEF BuildAgain, FilesTrusted, MemoryTrusted, ImagesAreAsAsked, OnFiles, InMemory, Struck, BuildTypeOK
<1>21. CASE SwapInput
  BY <1>0, <1>21 DEF SwapInput, Interfere, BuildAt, FilesTrusted, MemoryTrusted, ImagesAreAsAsked, OnFiles, InMemory, RecipeIn, Struck, BuildTypeOK
<1>22. CASE SpoilRoot
  <2>1. /\ outcome = "running" /\ job.medium = "files" /\ UNCHANGED <<job, step, outcome, sums, temp, out>>
        /\ root' = [root EXCEPT !.bad = @ + 1] /\ struck' = struck \cup {step}
    BY <1>22 DEF SpoilRoot, Interfere, BuildAt
  <2>2. ASSUME NEW r \in Roots, AsAsked(r, job, Struck) PROVE AsAsked(r, job', Struck')
    BY <2>1, <2>2 DEF AsAsked, Struck
  <2>3. /\ root'.base = root.base /\ root'.recipe = root.recipe
    BY <1>0, <2>1 DEF Roots
  <2>4. step = "patched" => Struck'
    BY <2>1 DEF Struck
  <2>5. step = "patched" /\ Kind(job) = "ssh" => RecipeIn(root)'
    BY <2>1, <2>3, <2>4 DEF RecipeIn, FilesTrusted, OnFiles
  <2>6. sums.root \in Roots
    BY DEF BuildKinds, BuildTypeOK
  <2>7. FilesTrusted'
    BY <2>1, <2>2, <2>5, <2>6 DEF FilesTrusted, OnFiles
  <2>8. MemoryTrusted' /\ ImagesAreAsAsked'
    BY <1>b, <2>1 DEF MemoryTrusted, InMemory
  <2> QED BY <2>7, <2>8
<1>23. CASE SpoilImage
  <2>1. /\ outcome = "running" /\ job.medium = "files" /\ UNCHANGED <<job, step, outcome, sums, root, out, struck>>
        /\ temp'.root = temp.root
    BY <1>23 DEF SpoilImage, Interfere, BuildAt, BuildKinds, BuildTypeOK, Images
  <2>2. FilesTrusted'
    BY <2>1 DEF FilesTrusted, OnFiles, RecipeIn, Struck
  <2> QED BY <1>b, <2>1, <2>2 DEF MemoryTrusted, InMemory
<1>24. CASE SpoilSaved
  <2>1. /\ outcome = "running" /\ job.medium = "files" /\ UNCHANGED <<job, step, outcome, sums, root, temp, struck>>
        /\ out'.by = out.by /\ out'.image.root = out.image.root /\ out'.job = out.job /\ out'.late = out.late
    BY <1>24 DEF SpoilSaved, Interfere, BuildAt, BuildKinds, BuildTypeOK, Images
  <2>2. FilesTrusted' /\ MemoryTrusted'
    BY <2>1 DEF FilesTrusted, MemoryTrusted, OnFiles, InMemory, RecipeIn, Struck
  <2>3. out.by = "builder" => AsAsked(out.image.root, out.job, out.late)
    BY Zenon DEF ImagesAreAsAsked
  <2> QED BY <1>a, <2>1, <2>2, <2>3
<1>25. CASE TakeName
  BY <1>0, <1>25 DEF TakeName, Interfere, BuildAt, FilesTrusted, MemoryTrusted, ImagesAreAsAsked, OnFiles, InMemory, RecipeIn, Struck, BuildTypeOK
<1> QED BY <1>1, <1>2, <1>3, <1>4, <1>5, <1>6, <1>7, <1>8, <1>9, <1>10, <1>12, <1>13, <1>14, <1>15,
           <1>16, <1>17, <1>18, <1>19, <1>20, <1>21, <1>22, <1>23, <1>24, <1>25
           DEF BuildNext, OnDisk, Memory, Outside
LEMMA BuildHolds == BuildSpec => []BuildInv
<1>1. BuildInv /\ [BuildNext]_buildVars => BuildInv'
  <2> SUFFICES ASSUME BuildInv, [BuildNext]_buildVars PROVE BuildInv'
    OBVIOUS
  <2>1. CASE BuildNext
    BY <2>1, BuildKeepsKinds, BuildKeepsTrust DEF BuildInv
  <2>2. CASE UNCHANGED buildVars
    BY <2>2 DEF buildVars, BuildInv, BuildKinds, BuildTypeOK, FilesTrusted, MemoryTrusted, OnFiles, InMemory,
                RecipeIn, Struck, ImagesAreAsAsked
  <2> QED BY <2>1, <2>2
<1> QED BY <1>1, BuildStarts, PTL DEF BuildSpec

-------------------------------------------------------------------------------
(* The adapter's invariant.                                                      *)

QueuedEvents == [kind : {"unsubscribed", "exit", "turn", "key"}, from : Addresses, session : Nat,
                 asked : BOOLEAN]
MainSteps == {"resolve", "change", "connect", "loop", "armed?", "drain", "settle", "arm", "poll",
              "read", "lost", "forget", "off"}
AdapterKinds ==
  /\ AdapterTypeOK /\ queue \in Seq(QueuedEvents) /\ overrun \in BOOLEAN /\ main \in MainSteps
  /\ after \in {"loop", "armed?", "settle", "arm", "off"}
  /\ found \in [mini : Addresses \cup {Absent}, full : Addresses \cup {Absent}]
  /\ asked \in BOOLEAN /\ cut \in BOOLEAN /\ session \in Nat
  /\ sent \in [event : QueuedEvents \cup {NoEvent}, session : Nat, cut : BOOLEAN]

\* Only the devices it believes in are subscribed.
Believed == {a \in {mini, full} : present(a)}
Subscribed == links \subseteq Believed /\ (main = "connect" => links = {})

\* What a device sent came in over the subscription that stands.
OfThisSession == \A i \in DOMAIN queue : queue[i].kind \in {"turn", "key"} =>
                    queue[i].session = session /\ main # "connect"

\* It is armed after one draining, and what is queued then came after the order,
\* unless a loss cut the draining short.
Arming == main \in {"arm", "settle"}
          \/ (main \in {"resolve", "change", "connect"} /\ after \in {"arm", "settle"})
Ordered ==
  /\ request => asked
  /\ main = "drain" \/ Arming \/ armed \/ cut => asked /\ ~request
  /\ main = "drain" => ~cut
  /\ (armed \/ Arming) /\ ~cut => \A i \in DOMAIN queue : queue[i].asked

\* The loss of a device it believes in is on its way to it: both notices, or what is
\* left of them after a draining was cut short.
Notice(i, kind, a) == queue[i].kind = kind /\ queue[i].from = a
Heard(a) ==
  overrun \/ \E i \in DOMAIN queue : /\ Notice(i, "unsubscribed", a)
                                     /\ a \in leaving \/ \E j \in DOMAIN queue : i < j /\ Notice(j, "exit", a)
HalfHeard(a) == overrun \/ a \in leaving \/ \E j \in DOMAIN queue : Notice(j, "exit", a)
Hearing ==
  main \notin {"connect", "lost", "forget", "off"} =>
     \A a \in Believed \ links : Heard(a) \/ (cut /\ HalfHeard(a))

AdapterInv == AdapterKinds /\ Subscribed /\ OfThisSession /\ Ordered /\ Hearing /\ NothingIsReplayed

\* What a delivery does to the queue, and what reading its head does.
LEMMA Deliveries ==
  ASSUME queue \in Seq(QueuedEvents), Len(queue) <= PoolSize, overrun \in BOOLEAN, session \in Nat, asked \in BOOLEAN,
         NEW a \in Addresses, NEW kind \in {"unsubscribed", "exit", "turn", "key"}, Delivered(kind, a)
  PROVE /\ queue' \in Seq(QueuedEvents) /\ Len(queue') <= PoolSize /\ overrun' \in BOOLEAN
        /\ \A i \in DOMAIN queue : i \in DOMAIN queue' /\ queue'[i] = queue[i]
        /\ \A i \in DOMAIN queue' \ DOMAIN queue :
               queue'[i] = [kind |-> kind, from |-> a, session |-> session, asked |-> asked]
        /\ overrun => overrun'
        /\ overrun' \/ \E j \in DOMAIN queue' : /\ queue'[j].kind = kind /\ queue'[j].from = a
                                               /\ \A i \in DOMAIN queue : i < j
<1> USE AdapterAssumption
<1> DEFINE e == [kind |-> kind, from |-> a, session |-> session, asked |-> asked]
<1>1. e \in QueuedEvents /\ e.kind = kind /\ e.from = a
  BY DEF QueuedEvents
<1>2. CASE Len(queue) = PoolSize
  BY <1>2 DEF Delivered
<1>3. CASE Len(queue) # PoolSize
  <2> HIDE DEF e
  <2>1. queue' = Append(queue, e) /\ overrun' = overrun
    BY <1>3 DEF Delivered, e
  <2>2. /\ queue' \in Seq(QueuedEvents) /\ Len(queue') = Len(queue) + 1 /\ queue'[Len(queue) + 1] = e
        /\ \A i \in 1 .. Len(queue) : queue'[i] = queue[i]
    BY <1>1, <2>1
  <2>3. Len(queue) \in Nat /\ Len(queue') <= PoolSize /\ DOMAIN queue = 1 .. Len(queue) /\ DOMAIN queue' = 1 .. Len(queue) + 1
    BY <1>3, <2>2
  <2>4. Len(queue) + 1 \in DOMAIN queue' /\ \A i \in DOMAIN queue : i < Len(queue) + 1
    BY <2>3
  <2>5. \A i \in DOMAIN queue' \ DOMAIN queue : queue'[i] = e
    BY <2>2, <2>3
  <2>6. \A i \in DOMAIN queue : i \in DOMAIN queue' /\ queue'[i] = queue[i]
    BY <2>2, <2>3
  <2>7. \E j \in DOMAIN queue' : queue'[j].kind = kind /\ queue'[j].from = a /\ \A i \in DOMAIN queue : i < j
    BY <1>1, <2>2, <2>4
  <2> QED BY <2>1, <2>2, <2>3, <2>5, <2>6, <2>7 DEF e
<1> QED BY <1>2, <1>3

LEMMA Readings ==
  ASSUME queue \in Seq(QueuedEvents), Len(queue) <= PoolSize, queue # <<>>, queue' = Tail(queue)
  PROVE /\ queue' \in Seq(QueuedEvents) /\ Len(queue') <= PoolSize
        /\ Head(queue) = queue[1] /\ 1 \in DOMAIN queue /\ Head(queue) \in QueuedEvents
        /\ \A i \in DOMAIN queue' : i + 1 \in DOMAIN queue /\ queue'[i] = queue[i + 1]
        /\ \A i \in DOMAIN queue : i # 1 => i - 1 \in DOMAIN queue' /\ queue'[i - 1] = queue[i]
        /\ DOMAIN queue \subseteq Nat /\ DOMAIN queue' \subseteq Nat
<1> USE AdapterAssumption
<1>1. /\ queue' \in Seq(QueuedEvents) /\ Len(queue') = Len(queue) - 1 /\ Len(queue) \in Nat \ {0}
      /\ \A i \in 1 .. Len(queue') : queue'[i] = queue[i + 1]
  OBVIOUS
<1>2. DOMAIN queue = 1 .. Len(queue) /\ DOMAIN queue' = 1 .. Len(queue')
  BY <1>1
<1>3. Head(queue) = queue[1] /\ 1 \in DOMAIN queue /\ Head(queue) \in QueuedEvents
  BY <1>1, <1>2
<1>4. Len(queue') <= PoolSize
  BY <1>1
<1>5. \A i \in DOMAIN queue' : i + 1 \in DOMAIN queue /\ queue'[i] = queue[i + 1]
  BY <1>1, <1>2
<1>6. \A i \in DOMAIN queue : i # 1 => i - 1 \in DOMAIN queue' /\ queue'[i - 1] = queue[i]
  BY <1>1, <1>2
<1> QED BY <1>1, <1>2, <1>3, <1>4, <1>5, <1>6
LEMMA AdapterStarts == AdapterInit => AdapterInv
<1> SUFFICES ASSUME AdapterInit PROVE AdapterInv
  OBVIOUS
<1> USE AdapterAssumption DEF AdapterInit
<1>1. queue \in Seq(QueuedEvents) /\ Len(queue) = 0 /\ DOMAIN queue = {}
  OBVIOUS
<1>2. AdapterTypeOK
  <2>1. bus \in [Addresses -> Kinds] /\ leaving \subseteq Addresses /\ links \subseteq Addresses
    OBVIOUS
  <2>2. Len(queue) <= PoolSize /\ burst \in 0 .. Burst /\ hotplugs \in 0 .. Hotplugs /\ events \in 0 .. Events
    BY <1>1
  <2> QED BY <2>1, <2>2 DEF AdapterTypeOK
<1>3. sent \in [event : QueuedEvents \cup {NoEvent}, session : Nat, cut : BOOLEAN]
  OBVIOUS
<1>4. AdapterKinds
  BY <1>1, <1>2, <1>3 DEF AdapterKinds, MainSteps
<1>5. Subscribed /\ OfThisSession /\ Ordered
  BY <1>1 DEF Subscribed, OfThisSession, Ordered, Arming
<1>6. Believed = {}
  BY DEF Believed, present
<1>7. Hearing /\ NothingIsReplayed
  BY <1>6 DEF Hearing, NothingIsReplayed, NoEvent
<1> QED BY <1>4, <1>5, <1>7 DEF AdapterInv

\* What the adapter's own steps leave alone, and every step of the world.
LEMMA AdapterKeepsKinds ==
  ASSUME AdapterKinds, AdapterNext
  PROVE AdapterKinds'
<1> USE AdapterAssumption DEF AdapterKinds
<1>0. /\ queue \in Seq(QueuedEvents) /\ Len(queue) <= PoolSize /\ overrun \in BOOLEAN /\ session \in Nat
      /\ asked \in BOOLEAN
  BY DEF AdapterTypeOK
<1> DEFINE Sent == [event : QueuedEvents \cup {NoEvent}, session : Nat, cut : BOOLEAN]
           Pairs == [mini : Addresses \cup {Absent}, full : Addresses \cup {Absent}]
<1>00. sent \in Sent /\ found \in Pairs
  OBVIOUS
<1> HIDE DEF Sent, Pairs
<1>1. ASSUME NEW a \in Addresses, PlugIn(a) PROVE AdapterKinds'
  BY <1>1, <1>0 DEF PlugIn, adapter, AdapterTypeOK, Kinds
<1>2. ASSUME NEW a \in Addresses, Unplug(a) PROVE AdapterKinds'
  <2>1. queue' \in Seq(QueuedEvents) /\ Len(queue') <= PoolSize /\ overrun' \in BOOLEAN
    BY <1>0, <1>2, Deliveries DEF Unplug
  <2>2. AdapterTypeOK'
    BY <1>2, <2>1 DEF Unplug, adapter, AdapterTypeOK, Kinds
  <2> QED BY <1>2, <2>1, <2>2 DEF Unplug, adapter
<1>3. ASSUME NEW a \in Addresses, Gone(a) PROVE AdapterKinds'
  <2>1. queue' \in Seq(QueuedEvents) /\ Len(queue') <= PoolSize /\ overrun' \in BOOLEAN
    BY <1>0, <1>3, Deliveries DEF Gone
  <2>2. AdapterTypeOK'
    BY <1>3, <2>1 DEF Gone, adapter, AdapterTypeOK
  <2> QED BY <1>3, <2>1, <2>2 DEF Gone, adapter
<1>4. ASSUME NEW a \in Addresses, Send(a) PROVE AdapterKinds'
  <2>1. queue' \in Seq(QueuedEvents) /\ Len(queue') <= PoolSize /\ overrun' \in BOOLEAN
    BY <1>0, <1>4, Deliveries DEF Send
  <2>2. AdapterTypeOK'
    BY <1>4, <2>1 DEF Send, adapter, AdapterTypeOK
  <2> QED BY <1>4, <2>1, <2>2 DEF Send, adapter
<1>5. CASE GiveUp
  BY <1>5, <1>0 DEF GiveUp, device, AdapterTypeOK, MainSteps
<1>6. CASE Resolve
  <2>1. CASE Ambiguous
    BY <1>5, <1>6, <2>1 DEF Resolve
  <2>2. CASE ~Ambiguous
    <3>1. resolve("mini") \in Addresses \cup {Absent} /\ resolve("full") \in Addresses \cup {Absent}
      BY DEF resolve, Attached
    <3>2. found' \in Pairs /\ found'.mini \in Addresses \cup {Absent} /\ found'.full \in Addresses \cup {Absent}
      BY <1>6, <2>2, <3>1 DEF Resolve, Pairs
    <3>3. main' \in MainSteps
      BY <1>6, <2>2 DEF Resolve, MainSteps
    <3>4. AdapterTypeOK'
      BY <1>6, <2>2, <3>2 DEF Resolve, device, AdapterTypeOK
    <3> QED BY <1>6, <1>0, <1>00, <2>2, <3>2, <3>3, <3>4 DEF Resolve, device, Pairs, Sent
  <2> QED BY <2>1, <2>2
<1>7. CASE Resubscribe
  <2>1. queue' \in Seq(QueuedEvents) /\ Len(queue') <= PoolSize
    BY <1>7 DEF Resubscribe
  <2> QED BY <1>7, <1>0, <2>1 DEF Resubscribe, AdapterTypeOK, MainSteps
<1>8. CASE Connect
  BY <1>5, <1>8, <1>0 DEF Connect, AdapterTypeOK, MainSteps, present
<1>9. CASE Loop
  BY <1>9, <1>0 DEF Loop, RefreshSources, device, AdapterTypeOK, MainSteps
<1>10. CASE ArmRequested
  <2>0. main' \in {"drain", "poll"} /\ burst' = 0
    BY <1>10 DEF ArmRequested
  <2>1. burst' \in 0 .. Burst /\ main' \in MainSteps
    BY <2>0 DEF MainSteps
  <2>3. request' \in BOOLEAN
    BY <1>10 DEF ArmRequested
  <2>2. AdapterTypeOK'
    BY <1>10, <2>1, <2>3 DEF ArmRequested, device, AdapterTypeOK
  <2> QED BY <1>10, <1>0, <1>00, <2>1, <2>2 DEF ArmRequested, device, Sent, Pairs
<1>11. CASE Drain
  <2>1. CASE overrun \/ burst = Burst
    BY <1>5, <1>11, <2>1 DEF Drain, AdapterTypeOK
  <2>2. CASE queue = <<>> /\ ~overrun /\ burst < Burst
    <3>1. RefreshSources("arm") /\ UNCHANGED <<asked, device, found, mini, full, armed, request, burst, session, cut, sent>>
      BY <1>5, <1>11, <2>2 DEF Drain, GiveUp
    <3> QED BY <1>0, <3>1 DEF RefreshSources, device, AdapterTypeOK, MainSteps
  <2>3. CASE queue # <<>> /\ ~overrun /\ burst < Burst
    <3>1. queue' \in Seq(QueuedEvents) /\ Len(queue') <= PoolSize
      BY <1>0, <1>11, <2>3, Readings DEF Drain, GiveUp, device
    <3>2. burst' \in 0 .. Burst /\ main' \in MainSteps /\ after' \in {"loop", "armed?", "settle", "arm", "off"}
          /\ cut' \in BOOLEAN
      <4>1. burst \in 0 .. Burst /\ burst < Burst /\ Burst \in Nat
        BY <2>3 DEF AdapterTypeOK
      <4>2. \/ main' = "resolve" /\ after' = "settle" /\ cut' = TRUE /\ burst' = burst
            \/ main' = main /\ after' = after /\ cut' = cut /\ burst' = burst + 1
        BY <1>11, <2>3 DEF Drain, RefreshSources
      <4>3. CASE main' = "resolve" /\ after' = "settle" /\ cut' = TRUE /\ burst' = burst
        BY <4>1, <4>3 DEF MainSteps
      <4>4. CASE main' = main /\ after' = after /\ cut' = cut /\ burst' = burst + 1
        BY <4>1, <4>4
      <4> QED BY <4>2, <4>3, <4>4
    <3>3. AdapterTypeOK'
      BY <1>11, <2>3, <3>1, <3>2 DEF Drain, AdapterTypeOK
    <3> QED BY <1>11, <1>0, <1>00, <2>3, <3>1, <3>2, <3>3 DEF Drain, Sent, Pairs
  <2> QED BY <1>11, <2>1, <2>2, <2>3 DEF Drain
<1>12. CASE SettleSources
  BY <1>12, <1>0 DEF SettleSources, RefreshSources, device, AdapterTypeOK, MainSteps
<1>13. CASE Arm
  BY <1>13, <1>0 DEF Arm, device, AdapterTypeOK, MainSteps
<1>14. CASE Poll
  <2>0. main' \in {"loop", "read"} /\ burst' = 0
    BY <1>14 DEF Poll
  <2>1. burst' \in 0 .. Burst /\ main' \in MainSteps
    BY <2>0 DEF MainSteps
  <2>2. AdapterTypeOK'
    BY <1>14, <2>1 DEF Poll, device, AdapterTypeOK
  <2> QED BY <1>14, <1>0, <1>00, <2>1, <2>2 DEF Poll, device, Sent, Pairs
<1>15. CASE ReadEvent
  <2>1. queue' \in Seq(QueuedEvents) /\ Len(queue') <= PoolSize /\ Head(queue) \in QueuedEvents
    BY <1>0, <1>15, Readings DEF ReadEvent
  <2>2. burst' \in 0 .. Burst /\ main' \in MainSteps
    BY <1>15 DEF ReadEvent, AdapterTypeOK, MainSteps
  <2>3. sent' \in Sent
    BY <1>15, <1>00, <2>1 DEF ReadEvent, Sent
  <2>4. AdapterTypeOK'
    BY <1>15, <2>1, <2>2 DEF ReadEvent, AdapterTypeOK
  <2> QED BY <1>15, <1>00, <2>1, <2>2, <2>3, <2>4 DEF ReadEvent, Sent, Pairs
<1>16. CASE ReadDone
  <2>1. \/ GiveUp
        \/ main' = "loop" /\ UNCHANGED <<asked, device, after, found, mini, full, armed, request, burst, session, cut, sent>>
    BY <1>16 DEF ReadDone
  <2>2. CASE main' = "loop" /\ UNCHANGED <<asked, device, after, found, mini, full, armed, request, burst, session, cut, sent>>
    BY <1>0, <2>2 DEF device, AdapterTypeOK, MainSteps
  <2> QED BY <1>5, <2>1, <2>2
<1>17. CASE Lost
  <2>1. queue' \in Seq(QueuedEvents) /\ Len(queue') <= PoolSize
    BY <1>17 DEF Lost
  <2> QED BY <1>17, <1>0, <2>1 DEF Lost, AdapterTypeOK, MainSteps
<1>18. CASE Forget
  BY <1>18, <1>0 DEF Forget, AdapterTypeOK, MainSteps
<1>19. CASE Signal
  BY <1>19, <1>0 DEF Signal, device, AdapterTypeOK, MainSteps
<1> QED BY <1>1, <1>2, <1>3, <1>4, <1>6, <1>7, <1>8, <1>9, <1>10, <1>11, <1>12, <1>13, <1>14,
           <1>15, <1>16, <1>17, <1>18, <1>19 DEF AdapterNext, Adapter
\* The subscriptions, and the session what is queued belongs to.
LEMMA AdapterKeepsSession ==
  ASSUME AdapterInv, AdapterKinds', AdapterNext
  PROVE Subscribed' /\ OfThisSession'
<1> USE DEF AdapterInv
<1>0. /\ queue \in Seq(QueuedEvents) /\ Len(queue) <= PoolSize /\ overrun \in BOOLEAN /\ session \in Nat
      /\ asked \in BOOLEAN /\ links \subseteq {mini, full}
  BY DEF AdapterKinds, AdapterTypeOK, Subscribed, Believed
<1>a. ASSUME UNCHANGED <<links, mini, full>>, main' = "connect" => main = "connect"
      PROVE Subscribed'
  BY <1>a DEF Subscribed, Believed, present
<1>b. ASSUME UNCHANGED <<queue, session>>, main' = "connect" => main = "connect"
      PROVE OfThisSession'
  BY <1>b DEF OfThisSession
<1>c. ASSUME queue' = <<>> PROVE OfThisSession'
  BY <1>c DEF OfThisSession
<1>d. ASSUME queue # <<>>, queue' = Tail(queue), session' = session, main' # "connect"
      PROVE OfThisSession'
  BY <1>0, <1>d, Readings DEF OfThisSession
<1>1. ASSUME NEW a \in Addresses, PlugIn(a) PROVE Subscribed' /\ OfThisSession'
  BY <1>1, <1>a, <1>b DEF PlugIn, adapter
<1>2. ASSUME NEW a \in Addresses, Unplug(a) PROVE Subscribed' /\ OfThisSession'
  <2>1. Subscribed'
    BY <1>2 DEF Unplug, adapter, Subscribed, Believed
  <2>2. CASE a \in links
    <3>1. Delivered("unsubscribed", a) /\ UNCHANGED <<session, main>>
      BY <1>2, <2>2 DEF Unplug, adapter
    <3>2. \A i \in DOMAIN queue' : queue'[i].kind \in {"turn", "key"} => i \in DOMAIN queue /\ queue'[i] = queue[i]
      BY <1>0, <3>1, Deliveries
    <3> QED BY <2>1, <3>1, <3>2 DEF OfThisSession
  <2>3. CASE a \notin links
    BY <1>2, <1>b, <2>1, <2>3 DEF Unplug, adapter
  <2> QED BY <2>2, <2>3
<1>3. ASSUME NEW a \in Addresses, Gone(a) PROVE Subscribed' /\ OfThisSession'
  <2>1. Delivered("exit", a) /\ UNCHANGED <<session, main, links, mini, full>>
    BY <1>3 DEF Gone, adapter
  <2>2. \A i \in DOMAIN queue' : queue'[i].kind \in {"turn", "key"} => i \in DOMAIN queue /\ queue'[i] = queue[i]
    BY <1>0, <2>1, Deliveries
  <2> QED BY <1>a, <2>1, <2>2 DEF OfThisSession
<1>4. ASSUME NEW a \in Addresses, Send(a) PROVE Subscribed' /\ OfThisSession'
  <2>1. UNCHANGED <<session, main, links, mini, full>> /\ a \in links
    BY <1>4 DEF Send, adapter
  <2>2. PICK kind \in {"turn", "key"} : Delivered(kind, a)
    BY <1>4 DEF Send
  <2>3. \A i \in DOMAIN queue' : (i \in DOMAIN queue /\ queue'[i] = queue[i]) \/ queue'[i].session = session
    BY <1>0, <2>2, Deliveries
  <2>4. main # "connect"
    BY <2>1 DEF Subscribed
  <2> QED BY <1>a, <2>1, <2>3, <2>4 DEF OfThisSession
<1>5. CASE GiveUp
  BY <1>5, <1>a, <1>b DEF GiveUp, device
<1>6. CASE Resolve
  BY <1>5, <1>6, <1>a, <1>b DEF Resolve, device, AdapterKinds
<1>7. CASE Resubscribe
  BY <1>7, <1>0, <1>c DEF Resubscribe, Subscribed
<1>8. CASE Connect
  <2>1. CASE \E a \in {mini, full} : present(a) /\ bus[a] = "none"
    BY <1>5, <1>8, <2>1 DEF Connect
  <2>2. CASE ~ \E a \in {mini, full} : present(a) /\ bus[a] = "none"
    <3>1. main = "connect" /\ main' = after /\ queue' = queue /\ links' = links \cup Believed
          /\ mini' = mini /\ full' = full /\ main' # "connect"
      BY <1>8, <2>2 DEF Connect, Believed, AdapterKinds
    <3>2. Subscribed'
      BY <3>1 DEF Subscribed, Believed
    <3> QED BY <3>1, <3>2 DEF OfThisSession
  <2> QED BY <2>1, <2>2
<1>9. CASE Loop
  BY <1>9, <1>a, <1>b DEF Loop, RefreshSources, device
<1>10. CASE ArmRequested
  BY <1>10, <1>a, <1>b DEF ArmRequested, device
<1>11. CASE Drain
  <2>1. CASE queue = <<>> \/ overrun \/ burst = Burst
    <3>1. \/ GiveUp
          \/ main' = "resolve" /\ UNCHANGED <<queue, session, links, mini, full>>
      BY <1>11, <2>1, AdapterAssumption DEF Drain, RefreshSources, device
    <3>2. CASE main' = "resolve" /\ UNCHANGED <<queue, session, links, mini, full>>
      BY <1>a, <1>b, <3>2
    <3> QED BY <1>5, <3>1, <3>2
  <2>2. CASE queue # <<>> /\ ~overrun /\ burst # Burst
    <3>1. queue' = Tail(queue) /\ main' \in {"drain", "resolve"} /\ UNCHANGED <<session, links, mini, full>>
      BY <1>11, <2>2 DEF Drain, GiveUp, RefreshSources, device
    <3> QED BY <1>a, <1>d, <2>2, <3>1
  <2> QED BY <2>1, <2>2
<1>12. CASE SettleSources
  BY <1>12, <1>a, <1>b DEF SettleSources, RefreshSources, device
<1>13. CASE Arm
  BY <1>13, <1>a, <1>b DEF Arm, device
<1>14. CASE Poll
  BY <1>14, <1>a, <1>b DEF Poll, device
<1>15. CASE ReadEvent
  BY <1>15, <1>a, <1>d DEF ReadEvent
<1>16. CASE ReadDone
  BY <1>5, <1>16, <1>a, <1>b DEF ReadDone, device
<1>17. CASE Lost
  BY <1>17, <1>a, <1>c DEF Lost
<1>18. CASE Forget
  BY <1>18, <1>0, <1>b DEF Forget, Subscribed
<1>19. CASE Signal
  BY <1>19, <1>a, <1>b DEF Signal, device
<1> QED BY <1>1, <1>2, <1>3, <1>4, <1>6, <1>7, <1>8, <1>9, <1>10, <1>11, <1>12, <1>13, <1>14,
           <1>15, <1>16, <1>17, <1>18, <1>19 DEF AdapterNext, Adapter
\* It is armed after one draining, so that what is forwarded came after the order.
LEMMA AdapterKeepsOrder ==
  ASSUME AdapterInv, AdapterKinds', AdapterNext
  PROVE Ordered' /\ NothingIsReplayed'
<1> USE DEF AdapterInv
<1>0. /\ queue \in Seq(QueuedEvents) /\ Len(queue) <= PoolSize /\ overrun \in BOOLEAN /\ session \in Nat
      /\ asked \in BOOLEAN /\ request \in BOOLEAN /\ armed \in BOOLEAN /\ cut \in BOOLEAN
      /\ DOMAIN queue \subseteq Nat
  BY DEF AdapterKinds, AdapterTypeOK
<1>a. ASSUME UNCHANGED sent PROVE NothingIsReplayed'
  BY <1>a DEF NothingIsReplayed
<1>b. ASSUME UNCHANGED <<main, after, armed, request, asked, cut>>,
             asked => \A i \in DOMAIN queue' : queue'[i].asked \/ (i \in DOMAIN queue /\ queue'[i] = queue[i])
      PROVE Ordered'
  BY <1>0, <1>b DEF Ordered, Arming
<1>c. ASSUME UNCHANGED <<queue, armed, request, asked, cut>>, main' = "drain" => main = "drain",
             Arming' => Arming
      PROVE Ordered'
  BY <1>0, <1>c DEF Ordered
<1>1. ASSUME NEW a \in Addresses, PlugIn(a) PROVE Ordered' /\ NothingIsReplayed'
  BY <1>1, <1>a, <1>b DEF PlugIn, adapter
<1>2. ASSUME NEW a \in Addresses, Unplug(a) PROVE Ordered' /\ NothingIsReplayed'
  <2>1. UNCHANGED <<main, after, armed, request, asked, cut, sent>>
    BY <1>2 DEF Unplug, adapter
  <2>2. CASE a \in links
    <3>1. Delivered("unsubscribed", a)
      BY <1>2, <2>2 DEF Unplug
    <3>2. asked => \A i \in DOMAIN queue' : queue'[i].asked \/ (i \in DOMAIN queue /\ queue'[i] = queue[i])
      BY <1>0, <3>1, Deliveries
    <3> QED BY <1>a, <1>b, <2>1, <3>2
  <2>3. CASE a \notin links
    BY <1>2, <1>a, <1>b, <2>1, <2>3 DEF Unplug
  <2> QED BY <2>2, <2>3
<1>3. ASSUME NEW a \in Addresses, Gone(a) PROVE Ordered' /\ NothingIsReplayed'
  <2>1. Delivered("exit", a) /\ UNCHANGED <<main, after, armed, request, asked, cut, sent>>
    BY <1>3 DEF Gone, adapter
  <2>2. asked => \A i \in DOMAIN queue' : queue'[i].asked \/ (i \in DOMAIN queue /\ queue'[i] = queue[i])
    BY <1>0, <2>1, Deliveries
  <2> QED BY <1>a, <1>b, <2>1, <2>2
<1>4. ASSUME NEW a \in Addresses, Send(a) PROVE Ordered' /\ NothingIsReplayed'
  <2>1. UNCHANGED <<main, after, armed, request, asked, cut, sent>>
    BY <1>4 DEF Send, adapter
  <2>2. PICK kind \in {"turn", "key"} : Delivered(kind, a)
    BY <1>4 DEF Send
  <2>3. asked => \A i \in DOMAIN queue' : queue'[i].asked \/ (i \in DOMAIN queue /\ queue'[i] = queue[i])
    BY <1>0, <2>2, Deliveries
  <2> QED BY <1>a, <1>b, <2>1, <2>3
<1>5. CASE GiveUp
  BY <1>5, <1>a, <1>c DEF GiveUp, device, Arming
<1>6. CASE Resolve
  <2>1. CASE Ambiguous
    BY <1>5, <1>6, <2>1 DEF Resolve
  <2>2. CASE ~Ambiguous
    BY <1>6, <1>a, <1>c, <2>2 DEF Resolve, device, Arming, AdapterKinds
  <2> QED BY <2>1, <2>2
<1>7. CASE Resubscribe
  <2>1. DOMAIN queue' = {}
    BY <1>7 DEF Resubscribe
  <2> QED BY <1>7, <1>a, <2>1 DEF Resubscribe, Ordered, Arming
<1>8. CASE Connect
  BY <1>5, <1>8, <1>a, <1>c DEF Connect, Arming, AdapterKinds
<1>9. CASE Loop
  BY <1>9, <1>a, <1>c DEF Loop, RefreshSources, device, Arming
<1>10. CASE ArmRequested
  <2>1. main = "armed?" /\ request' = FALSE /\ UNCHANGED <<queue, armed, asked, cut, sent, after>>
        /\ main' \in {"drain", "poll"} /\ (main' = "drain" => request /\ ~armed)
    BY <1>10 DEF ArmRequested, device
  <2>2. main' = "drain" => asked /\ ~cut
    BY <2>1 DEF Ordered
  <2> QED BY <1>0, <1>a, <2>1, <2>2 DEF Ordered, Arming
<1>11. CASE Drain
  <2>1. CASE overrun \/ burst = Burst
    BY <1>5, <1>11, <2>1, AdapterAssumption DEF Drain
  <2>2. CASE queue = <<>> /\ ~overrun /\ burst # Burst
    <3>1. CASE GiveUp
      BY <1>5, <3>1
    <3>2. CASE ~GiveUp
      <4>1. main = "drain" /\ main' = "resolve" /\ after' = "arm" /\ DOMAIN queue' = {}
            /\ UNCHANGED <<asked, armed, request, cut, sent>>
        BY <1>11, <2>2, <3>2 DEF Drain, RefreshSources, device
      <4> QED BY <1>a, <4>1 DEF Ordered, Arming
    <3> QED BY <3>1, <3>2
  <2>3. CASE queue # <<>> /\ ~overrun /\ burst # Burst
    <3>1. /\ main = "drain" /\ queue' = Tail(queue) /\ UNCHANGED <<asked, armed, request, sent>>
          /\ \/ main' = "resolve" /\ after' = "settle" /\ cut' = TRUE
             \/ UNCHANGED <<main, after, cut>>
      BY <1>11, <2>3 DEF Drain, RefreshSources, GiveUp, device
    <3>2. CASE main' = "resolve" /\ after' = "settle" /\ cut' = TRUE
      BY <1>a, <3>1, <3>2 DEF Ordered, Arming
    <3>3. CASE UNCHANGED <<main, after, cut>>
      <4>1. (\A i \in DOMAIN queue : queue[i].asked) => \A i \in DOMAIN queue' : queue'[i].asked
        BY <1>0, <2>3, <3>1, Readings
      <4> QED BY <1>a, <3>1, <3>3, <4>1 DEF Ordered, Arming
    <3> QED BY <3>1, <3>2, <3>3
  <2> QED BY <2>1, <2>2, <2>3
<1>12. CASE SettleSources
  BY <1>12, <1>a, <1>c DEF SettleSources, RefreshSources, device, Arming
<1>13. CASE Arm
  BY <1>13, <1>a DEF Arm, device, Arming, Ordered
<1>14. CASE Poll
  BY <1>14, <1>a, <1>c DEF Poll, device, Arming
<1>15. CASE ReadEvent
  <2> DEFINE e == Head(queue)
  <2>1. /\ e \in QueuedEvents /\ e = queue[1] /\ 1 \in DOMAIN queue
        /\ (\A i \in DOMAIN queue : queue[i].asked) => \A i \in DOMAIN queue' : queue'[i].asked
    BY <1>0, <1>15, Readings DEF ReadEvent
  <2>2. main = "read" /\ main' \in {"read", "lost"} /\ UNCHANGED <<after, armed, request, asked, cut, session>>
        /\ \/ sent' = sent
           \/ armed /\ translate(e) /\ sent' = [event |-> e, session |-> session, cut |-> cut]
    BY <1>15 DEF ReadEvent
  <2> HIDE DEF e
  <2>3. Ordered'
    BY <2>1, <2>2 DEF Ordered, Arming
  <2>4. CASE armed /\ translate(e) /\ sent' = [event |-> e, session |-> session, cut |-> cut]
    <3>1. e.kind = "turn" /\ e.session = session
      BY <2>1, <2>4 DEF translate, OfThisSession
    <3>2. e.asked \/ cut
      BY <1>0, <2>1, <2>4 DEF Ordered
    <3>3. sent'.event = e /\ sent'.session = session /\ sent'.cut = cut
      BY <2>4
    <3>4. NothingIsReplayed'
      BY <3>1, <3>2, <3>3 DEF NothingIsReplayed
    <3> QED BY <2>3, <3>4
  <2> QED BY <1>a, <2>2, <2>3, <2>4
<1>16. CASE ReadDone
  BY <1>5, <1>16, <1>a, <1>c DEF ReadDone, device, Arming
<1>17. CASE Lost
  <2>1. DOMAIN queue' = {}
    BY <1>17 DEF Lost
  <2> QED BY <1>17, <1>a, <2>1 DEF Lost, Ordered, Arming
<1>18. CASE Forget
  BY <1>18, <1>a, <1>c DEF Forget, Arming
<1>19. CASE Signal
  BY <1>19, <1>a, <1>0 DEF Signal, device, Ordered, Arming
<1> QED BY <1>1, <1>2, <1>3, <1>4, <1>6, <1>7, <1>8, <1>9, <1>10, <1>11, <1>12, <1>13, <1>14,
           <1>15, <1>16, <1>17, <1>18, <1>19 DEF AdapterNext, Adapter
\* The loss of a device it believes in reaches it.
LEMMA AdapterKeepsHearing ==
  ASSUME AdapterInv, AdapterKinds', AdapterNext
  PROVE Hearing'
<1> USE DEF AdapterInv
<1>0. /\ queue \in Seq(QueuedEvents) /\ Len(queue) <= PoolSize /\ overrun \in BOOLEAN /\ session \in Nat
      /\ asked \in BOOLEAN /\ cut \in BOOLEAN /\ main \in MainSteps
  BY DEF AdapterKinds, AdapterTypeOK
<1> DEFINE Away == {"connect", "lost", "forget", "off"}
<1>a. ASSUME UNCHANGED <<queue, overrun, leaving, links, mini, full, cut>>, main \in Away => main' \in Away
      PROVE Hearing'
  BY <1>a DEF Hearing, Heard, HalfHeard, Notice, Believed, present
<1>b. ASSUME main' \in Away PROVE Hearing'
  BY <1>b DEF Hearing
\* What is delivered takes nothing away.
<1>c. ASSUME UNCHANGED <<mini, full, cut, main>>, NEW a \in Addresses, NEW kind \in {"unsubscribed", "exit", "turn", "key"},
             Delivered(kind, a), NEW b \in Believed, leaving \ {a} \subseteq leaving',
             kind # "exit" => leaving \subseteq leaving'
      PROVE /\ Heard(b) => Heard(b)'
            /\ HalfHeard(b) => HalfHeard(b)'
            /\ kind = "unsubscribed" /\ b = a /\ a \in leaving' => Heard(b)'
  <2>1. /\ \A i \in DOMAIN queue : i \in DOMAIN queue' /\ queue'[i] = queue[i]
        /\ overrun => overrun'
        /\ overrun' \/ \E j \in DOMAIN queue' : /\ queue'[j].kind = kind /\ queue'[j].from = a
                                               /\ \A i \in DOMAIN queue : i < j
    BY <1>0, <1>c, Deliveries
  <2>2. ASSUME Heard(b) PROVE Heard(b)'
    BY <1>c, <2>1, <2>2 DEF Heard, Notice
  <2>3. ASSUME HalfHeard(b) PROVE HalfHeard(b)'
    BY <1>c, <2>1, <2>3 DEF HalfHeard, Notice
  <2>4. ASSUME kind = "unsubscribed", b = a, a \in leaving' PROVE Heard(b)'
    BY <2>1, <2>4 DEF Heard, Notice
  <2> QED BY <2>2, <2>3, <2>4
<1>1. ASSUME NEW a \in Addresses, PlugIn(a) PROVE Hearing'
  BY <1>1, <1>a DEF PlugIn, adapter
<1>2. ASSUME NEW a \in Addresses, Unplug(a) PROVE Hearing'
  <2>1. /\ UNCHANGED <<mini, full, cut, main>> /\ leaving' = leaving \cup {a} /\ links' = links \ {a}
        /\ Believed' = Believed
    BY <1>2 DEF Unplug, adapter, Believed, present
  <2>2. SUFFICES ASSUME main \notin Away, NEW b \in Believed, b \notin links'
                 PROVE Heard(b)' \/ (cut' /\ HalfHeard(b)')
    BY <2>1 DEF Hearing
  <2>3. b = a \/ Heard(b) \/ (cut /\ HalfHeard(b))
    BY <2>1, <2>2 DEF Hearing
  <2>4. CASE a \in links
    <3>1. Delivered("unsubscribed", a)
      BY <1>2, <2>4 DEF Unplug
    <3>2. leaving \subseteq leaving' /\ leaving \ {a} \subseteq leaving' /\ a \in leaving'
      BY <2>1
    <3>3. (Heard(b) => Heard(b)') /\ (HalfHeard(b) => HalfHeard(b)') /\ (b = a => Heard(b)')
      BY <1>c, <2>1, <2>2, <3>1, <3>2
    <3> QED BY <2>1, <2>3, <3>3
  <2>5. CASE a \notin links
    <3>1. UNCHANGED <<queue, overrun>>
      BY <1>2, <2>5 DEF Unplug
    <3>2. Heard(b) \/ (cut /\ HalfHeard(b))
      BY <2>1, <2>2, <2>5 DEF Hearing
    <3> QED BY <2>1, <3>1, <3>2 DEF Heard, HalfHeard, Notice
  <2> QED BY <2>4, <2>5
<1>3. ASSUME NEW a \in Addresses, Gone(a) PROVE Hearing'
  <2>1. /\ UNCHANGED <<mini, full, cut, main, links>> /\ leaving' = leaving \ {a} /\ a \in leaving
        /\ Believed' = Believed /\ Delivered("exit", a)
    BY <1>3 DEF Gone, adapter, Believed, present
  <2>2. SUFFICES ASSUME main \notin Away, NEW b \in Believed, b \notin links
                 PROVE Heard(b)' \/ (cut' /\ HalfHeard(b)')
    BY <2>1 DEF Hearing
  <2>3. Heard(b) \/ (cut /\ HalfHeard(b))
    BY <2>2 DEF Hearing
  <2>4. /\ \A i \in DOMAIN queue : i \in DOMAIN queue' /\ queue'[i] = queue[i]
        /\ overrun => overrun'
        /\ overrun' \/ \E j \in DOMAIN queue' : /\ queue'[j].kind = "exit" /\ queue'[j].from = a
                                               /\ \A i \in DOMAIN queue : i < j
    BY <1>0, <2>1, Deliveries
  <2>5. ASSUME Heard(b) PROVE Heard(b)'
    <3>1. CASE overrun'
      BY <3>1 DEF Heard
    <3>2. CASE ~overrun'
      <4>1. PICK i \in DOMAIN queue : Notice(i, "unsubscribed", b)
                   /\ (b \in leaving \/ \E j \in DOMAIN queue : i < j /\ Notice(j, "exit", b))
        BY <2>4, <2>5, <3>2 DEF Heard
      <4>2. i \in DOMAIN queue' /\ Notice(i, "unsubscribed", b)'
        BY <2>4, <4>1 DEF Notice
      <4>3. CASE \E j \in DOMAIN queue : i < j /\ Notice(j, "exit", b)
        BY <2>4, <4>2, <4>3 DEF Heard, Notice
      <4>4. CASE b \in leaving
        BY <2>1, <2>4, <3>2, <4>1, <4>2, <4>4 DEF Heard, Notice
      <4> QED BY <4>1, <4>3, <4>4
    <3> QED BY <3>1, <3>2
  <2>6. ASSUME HalfHeard(b) PROVE HalfHeard(b)'
    BY <2>1, <2>4, <2>6 DEF HalfHeard, Notice
  <2> QED BY <2>1, <2>3, <2>5, <2>6
<1>4. ASSUME NEW a \in Addresses, Send(a) PROVE Hearing'
  <2>1. UNCHANGED <<main, mini, full, cut, links, leaving>> /\ Believed' = Believed
    BY <1>4 DEF Send, adapter, Believed, present
  <2>2. PICK kind \in {"turn", "key"} : Delivered(kind, a)
    BY <1>4 DEF Send
  <2>3. SUFFICES ASSUME main \notin Away, NEW b \in Believed, b \notin links
                 PROVE Heard(b)' \/ (cut' /\ HalfHeard(b)')
    BY <2>1 DEF Hearing
  <2>4. Heard(b) \/ (cut /\ HalfHeard(b))
    BY <2>3 DEF Hearing
  <2>5. leaving \subseteq leaving' /\ leaving \ {a} \subseteq leaving'
    BY <2>1
  <2>6. (Heard(b) => Heard(b)') /\ (HalfHeard(b) => HalfHeard(b)')
    BY <1>c, <2>1, <2>2, <2>3, <2>5
  <2> QED BY <2>1, <2>4, <2>6
<1>5. CASE GiveUp
  BY <1>5, <1>b DEF GiveUp
<1>6. CASE Resolve
  <2>1. CASE Ambiguous
    BY <1>5, <1>6, <2>1 DEF Resolve
  <2>2. CASE ~Ambiguous
    BY <1>6, <1>a, <2>2 DEF Resolve, device
  <2> QED BY <2>1, <2>2
<1>7. CASE Resubscribe
  BY <1>7, <1>b DEF Resubscribe
<1>8. CASE Connect
  <2>1. CASE \E a \in {mini, full} : present(a) /\ bus[a] = "none"
    BY <1>5, <1>8, <2>1 DEF Connect
  <2>2. CASE ~ \E a \in {mini, full} : present(a) /\ bus[a] = "none"
    <3>1. links' = links \cup Believed /\ Believed' = Believed
      BY <1>8, <2>2 DEF Connect, Believed, present
    <3> QED BY <3>1 DEF Hearing
  <2> QED BY <2>1, <2>2
<1>9. CASE Loop
  BY <1>9, <1>a DEF Loop, RefreshSources, device
<1>10. CASE ArmRequested
  BY <1>10, <1>a DEF ArmRequested, device
\* An event read that is no loss of a device it believes in.
<1>d. ASSUME queue # <<>>, queue' = Tail(queue), ~source_lost(Head(queue)),
             UNCHANGED <<overrun, leaving, mini, full, cut>>, NEW b \in Believed
      PROVE (Heard(b) => Heard(b)') /\ (HalfHeard(b) => HalfHeard(b)')
  <2>1. /\ Head(queue) = queue[1]
        /\ \A i \in DOMAIN queue : i # 1 => i - 1 \in DOMAIN queue' /\ queue'[i - 1] = queue[i]
        /\ DOMAIN queue \subseteq Nat
    BY <1>0, <1>d, Readings
  <2>2. ~Notice(1, "unsubscribed", b) /\ ~Notice(1, "exit", b)
    BY <1>d, <2>1 DEF source_lost, Believed, Notice
  <2>3. ASSUME Heard(b) PROVE Heard(b)'
    <3>1. CASE overrun
      BY <1>d, <3>1 DEF Heard
    <3>2. CASE ~overrun
      <4>1. PICK i \in DOMAIN queue : Notice(i, "unsubscribed", b)
                   /\ (b \in leaving \/ \E j \in DOMAIN queue : i < j /\ Notice(j, "exit", b))
        BY <2>3, <3>2 DEF Heard
      <4>2. i # 1 /\ i - 1 \in DOMAIN queue' /\ Notice(i - 1, "unsubscribed", b)'
        BY <2>1, <2>2, <4>1 DEF Notice
      <4>3. CASE \E j \in DOMAIN queue : i < j /\ Notice(j, "exit", b)
        <5>1. PICK j \in DOMAIN queue : i < j /\ Notice(j, "exit", b)
          BY <4>3
        <5>2. j # 1 /\ j - 1 \in DOMAIN queue' /\ Notice(j - 1, "exit", b)' /\ i - 1 < j - 1
          BY <2>1, <2>2, <5>1 DEF Notice
        <5> QED BY <4>2, <5>2 DEF Heard
      <4>4. CASE b \in leaving
        BY <1>d, <4>2, <4>4 DEF Heard
      <4> QED BY <4>1, <4>3, <4>4
    <3> QED BY <3>1, <3>2
  <2>4. ASSUME HalfHeard(b) PROVE HalfHeard(b)'
    <3>1. CASE overrun \/ b \in leaving
      BY <1>d, <3>1 DEF HalfHeard
    <3>2. CASE ~(overrun \/ b \in leaving)
      <4>1. PICK j \in DOMAIN queue : Notice(j, "exit", b)
        BY <2>4, <3>2 DEF HalfHeard
      <4>2. j # 1 /\ j - 1 \in DOMAIN queue' /\ Notice(j - 1, "exit", b)'
        BY <2>1, <2>2, <4>1 DEF Notice
      <4> QED BY <4>2 DEF HalfHeard
    <3> QED BY <3>1, <3>2
  <2> QED BY <2>3, <2>4
<1>11. CASE Drain
  <2>0. main = "drain" /\ ~cut
    BY <1>11 DEF Drain, Ordered
  <2>1. CASE overrun \/ burst = Burst
    BY <1>5, <1>11, <2>1, AdapterAssumption DEF Drain
  <2>2. CASE queue = <<>> /\ ~overrun /\ burst # Burst
    <3>1. CASE GiveUp
      BY <1>5, <3>1
    <3>2. CASE ~GiveUp
      BY <1>11, <1>a, <2>2, <3>2 DEF Drain, RefreshSources, device
    <3> QED BY <3>1, <3>2
  <2>3. CASE queue # <<>> /\ ~overrun /\ burst # Burst
    <3>1. /\ queue' = Tail(queue) /\ UNCHANGED <<overrun, leaving, links, mini, full>> /\ Believed' = Believed
          /\ source_lost(Head(queue)) => cut' = TRUE
          /\ ~source_lost(Head(queue)) => cut' = cut
      BY <1>11, <2>3 DEF Drain, RefreshSources, GiveUp, device, Believed, present
    <3>2. SUFFICES ASSUME NEW b \in Believed, b \notin links
                   PROVE Heard(b)' \/ (cut' /\ HalfHeard(b)')
      BY <3>1 DEF Hearing
    <3>3. Heard(b)
      BY <2>0, <3>2 DEF Hearing
    <3>4. CASE ~source_lost(Head(queue))
      BY <1>d, <2>3, <3>1, <3>3, <3>4
    <3>5. CASE source_lost(Head(queue))
      <4>1. /\ \A i \in DOMAIN queue : i # 1 => i - 1 \in DOMAIN queue' /\ queue'[i - 1] = queue[i]
            /\ DOMAIN queue \subseteq Nat /\ 1 \in DOMAIN queue
            /\ \A i \in DOMAIN queue : 1 <= i
        BY <1>0, <2>3, <3>1, Readings
      <4>2. PICK i \in DOMAIN queue : b \in leaving \/ \E j \in DOMAIN queue : i < j /\ Notice(j, "exit", b)
        BY <2>3, <3>3 DEF Heard
      <4>3. CASE b \in leaving
        BY <3>1, <3>5, <4>3 DEF HalfHeard
      <4>4. CASE \E j \in DOMAIN queue : i < j /\ Notice(j, "exit", b)
        <5>1. PICK j \in DOMAIN queue : i < j /\ Notice(j, "exit", b)
          BY <4>4
        <5>2. j # 1 /\ j - 1 \in DOMAIN queue' /\ Notice(j - 1, "exit", b)'
          BY <4>1, <5>1 DEF Notice
        <5> QED BY <3>1, <3>5, <5>2 DEF HalfHeard
      <4> QED BY <4>2, <4>3, <4>4
    <3> QED BY <3>4, <3>5
  <2> QED BY <2>1, <2>2, <2>3
<1>12. CASE SettleSources
  BY <1>12, <1>a DEF SettleSources, RefreshSources, device
<1>13. CASE Arm
  BY <1>13, <1>a DEF Arm, device
<1>14. CASE Poll
  BY <1>14, <1>a DEF Poll, device
<1>15. CASE ReadEvent
  <2>1. CASE source_lost(Head(queue))
    BY <1>15, <1>b, <2>1 DEF ReadEvent
  <2>2. CASE ~source_lost(Head(queue))
    <3>1. /\ queue # <<>> /\ queue' = Tail(queue) /\ UNCHANGED <<overrun, leaving, links, mini, full, cut>>
          /\ Believed' = Believed /\ main = "read"
      BY <1>15 DEF ReadEvent, Believed, present
    <3>2. SUFFICES ASSUME NEW b \in Believed, b \notin links
                   PROVE Heard(b)' \/ (cut' /\ HalfHeard(b)')
      BY <3>1 DEF Hearing
    <3>3. Heard(b) \/ (cut /\ HalfHeard(b))
      BY <3>1, <3>2 DEF Hearing
    <3> QED BY <1>d, <2>2, <3>1, <3>3
  <2> QED BY <2>1, <2>2
<1>16. CASE ReadDone
  BY <1>5, <1>16, <1>a DEF ReadDone, device
<1>17. CASE Lost
  BY <1>17, <1>b DEF Lost
<1>18. CASE Forget
  <2>1. Believed' = {}
    BY <1>18 DEF Forget, Believed, present
  <2> QED BY <2>1 DEF Hearing
<1>19. CASE Signal
  BY <1>19, <1>a DEF Signal, device
<1> QED BY <1>1, <1>2, <1>3, <1>4, <1>6, <1>7, <1>8, <1>9, <1>10, <1>11, <1>12, <1>13, <1>14,
           <1>15, <1>16, <1>17, <1>18, <1>19 DEF AdapterNext, Adapter
LEMMA AdapterHolds == AdapterSpec => []AdapterInv
<1>1. AdapterInv /\ [AdapterNext]_adapterVars => AdapterInv'
  <2> SUFFICES ASSUME AdapterInv, [AdapterNext]_adapterVars PROVE AdapterInv'
    OBVIOUS
  <2>1. CASE AdapterNext
    <3>1. AdapterKinds'
      BY <2>1, AdapterKeepsKinds DEF AdapterInv
    <3> QED BY <2>1, <3>1, AdapterKeepsSession, AdapterKeepsOrder, AdapterKeepsHearing DEF AdapterInv
  <2>2. CASE UNCHANGED adapterVars
    BY <2>2 DEF adapterVars, AdapterInv, AdapterKinds, AdapterTypeOK, Subscribed, Believed, present, OfThisSession,
                Ordered, Arming, Hearing, Heard, HalfHeard, Notice, NothingIsReplayed
  <2> QED BY <2>1, <2>2
<1> QED BY <1>1, AdapterStarts, PTL DEF AdapterSpec

LEMMA NoDeafness == AdapterInv => NeverDeaf
BY DEF AdapterInv, NeverDeaf, Hearing, Heard, HalfHeard, Believed

-------------------------------------------------------------------------------
(* The drive's invariant.                                                        *)

Clearings == {"clear", "unlink", "forget", "cleared"}
Exporting == {"current", "owned", "emptied", "create", "sync", "recheck", "rename", "dirsync"}
DriveTurns == {"scan", "mark", "keep", "write"} \cup Clearings \cup Exporting
TheReport(d) == drive[d].names["report"]

DriveKinds ==
  /\ DriveTypeOK /\ turn \in DriveTurns
  /\ dest.mount <= mounts /\ \A d \in Drives : drive[d].mount <= mounts
  /\ turn \in Clearings \cup Exporting => admitted /\ valid
  /\ turn \in {"mark", "keep"} => ~admitted /\ valid
  /\ admitted \/ turn \in {"mark", "keep"} => dest.mount # 0

\* A report is whole, is this capture's only where it was put, and may only be another
\* than it is now where it was changed.
WholeReports ==
  \A d \in Drives :
     /\ TheReport(d).may \subseteq {"absent", "earlier", "this"} /\ TheReport(d).now \in TheReport(d).may
     /\ "this" \in TheReport(d).may => d = dest.drive /\ admitted
     /\ d # dest.drive \/ ~admitted \/ turn \in {"clear", "unlink"}
           => TheReport(d).may = {TheReport(d).now}
\* The clearing, and the temporary that takes the report's place.
Cleared ==
  admitted /\ valid /\ There =>
     /\ turn = "forget" => TheReport(dest.drive).now = "absent"
     /\ turn \notin {"clear", "unlink", "forget"} => "earlier" \notin TheReport(dest.drive).may
Written == turn \in {"recheck", "rename"} /\ There => Now("tmp") = "this"

DriveInv == DriveKinds /\ WholeReports /\ Cleared /\ Written

\* The types of what a drive holds.
EntrySet == [now : Contents, may : SUBSET Contents]
HoldingSet == [mount : 0 .. Plugs, names : [Names -> EntrySet]]

LEMMA DriveStarts == DriveInit => DriveInv
<1> SUFFICES ASSUME DriveInit PROVE DriveInv
  OBVIOUS
<1> USE DriveAssumption DEF DriveInit
<1>1. \A d \in Drives : \E m \in {"absent", "here"}, r \in {"absent", "earlier"}, t \in {"absent", "torn"} :
         drive[d] = [mount |-> 0, names |-> [marker |-> Entry(m), report |-> Entry(r), tmp |-> Entry(t)]]
  OBVIOUS
<1>2. ASSUME NEW d \in Drives PROVE drive[d] \in HoldingSet /\ drive[d].mount = 0
                                    /\ TheReport(d).now \in {"absent", "earlier"} /\ TheReport(d).may = {TheReport(d).now}
  <2>1. PICK m \in {"absent", "here"}, r \in {"absent", "earlier"}, t \in {"absent", "torn"} :
         drive[d] = [mount |-> 0, names |-> [marker |-> Entry(m), report |-> Entry(r), tmp |-> Entry(t)]]
    BY <1>1
  <2>2. Entry(m) \in EntrySet /\ Entry(r) \in EntrySet /\ Entry(t) \in EntrySet
    BY DEF Entry, EntrySet, Contents
  <2>3. [marker |-> Entry(m), report |-> Entry(r), tmp |-> Entry(t)] \in [Names -> EntrySet]
    BY <2>2 DEF Names
  <2>4. drive[d] \in HoldingSet
    BY <2>1, <2>3 DEF HoldingSet
  <2> QED BY <2>1, <2>4 DEF TheReport, Entry
<1>3. drive \in [Drives -> HoldingSet]
  BY <1>2
<1>4. DriveTypeOK
  <2>1. drive \in [Drives -> [mount : 0 .. Plugs, names : [Names -> [now : Contents, may : SUBSET Contents]]]]
    BY <1>3 DEF HoldingSet, EntrySet
  <2>2. dest \in [drive : Drives, mount : 0 .. Plugs] /\ mounts \in 0 .. Plugs
        /\ failures \in 0 .. Failures /\ exports \in 0 .. Exports
    OBVIOUS
  <2> QED BY <2>1, <2>2 DEF DriveTypeOK
<1>5. DriveKinds
  BY <1>2, <1>4 DEF DriveKinds, DriveTurns, Clearings, Exporting
<1>6. WholeReports
  BY <1>2 DEF WholeReports
<1> QED BY <1>5, <1>6 DEF DriveInv, Cleared, Written

\* What the calls do to the destination's names; another drive is as it was.
OnlyNames == /\ drive' \in [Drives -> HoldingSet]
             /\ \A d \in Drives : drive'[d].mount = drive[d].mount
             /\ \A d \in Drives : d # dest.drive => drive'[d] = drive[d]
             /\ dest.drive \in Drives

LEMMA NamesReplaced ==
  ASSUME drive \in [Drives -> HoldingSet], dest.drive \in Drives, NEW N \in [Names -> EntrySet],
         drive' = [drive EXCEPT ![dest.drive].names = N]
  PROVE OnlyNames /\ drive'[dest.drive].names = N
<1>1. drive[dest.drive] \in HoldingSet
  OBVIOUS
<1>2. [drive[dest.drive] EXCEPT !.names = N] \in HoldingSet
      /\ [drive[dest.drive] EXCEPT !.names = N].mount = drive[dest.drive].mount
      /\ [drive[dest.drive] EXCEPT !.names = N].names = N
  BY <1>1 DEF HoldingSet
<1>3. drive' = [drive EXCEPT ![dest.drive] = [drive[dest.drive] EXCEPT !.names = N]]
  OBVIOUS
<1> QED BY <1>1, <1>2, <1>3 DEF OnlyNames

LEMMA EntriesSet ==
  ASSUME NEW e \in EntrySet, NEW v \in Contents
  PROVE /\ Left(v) \subseteq Contents /\ Set(e, v) \in EntrySet
        /\ Set(e, v).now = v /\ Set(e, v).may = e.may \cup Left(v)
        /\ SettleEntry(e) \in EntrySet /\ SettleEntry(e).now = e.now /\ SettleEntry(e).may = Left(e.now)
BY DEF EntrySet, Contents, Left, Set, SettleEntry

LEMMA Writing ==
  ASSUME drive \in [Drives -> HoldingSet], dest.drive \in Drives, NEW n \in Names, NEW v \in Contents, Write(n, v)
  PROVE /\ OnlyNames
        /\ drive'[dest.drive].names[n] = Set(drive[dest.drive].names[n], v)
        /\ \A k \in Names \ {n} : drive'[dest.drive].names[k] = drive[dest.drive].names[k]
<1> DEFINE old == drive[dest.drive].names
           N == [old EXCEPT ![n] = Set(old[n], v)]
<1>1. old \in [Names -> EntrySet] /\ old[n] \in EntrySet
  BY DEF HoldingSet
<1>2. N \in [Names -> EntrySet] /\ N[n] = Set(old[n], v) /\ \A k \in Names \ {n} : N[k] = old[k]
  BY <1>1, EntriesSet
<1>3. drive' = [drive EXCEPT ![dest.drive].names = N]
  BY DEF Write
<1> HIDE DEF N
<1> QED BY <1>2, <1>3, NamesReplaced

LEMMA SyncingDir ==
  ASSUME drive \in [Drives -> HoldingSet], dest.drive \in Drives, SyncDir
  PROVE /\ OnlyNames
        /\ \A k \in Names : drive'[dest.drive].names[k] = SettleEntry(drive[dest.drive].names[k])
<1> DEFINE old == drive[dest.drive].names
           N == [k \in Names |-> SettleEntry(old[k])]
<1>1. old \in [Names -> EntrySet]
  BY DEF HoldingSet
<1>2. \A k \in Names : SettleEntry(old[k]) \in EntrySet
  <2> TAKE k \in Names
  <2>1. old[k] \in EntrySet /\ old[k].now \in Contents
    BY <1>1 DEF EntrySet
  <2> QED BY <2>1, EntriesSet
<1>3. N \in [Names -> EntrySet]
  BY <1>2
<1>4. drive' = [drive EXCEPT ![dest.drive].names = N]
  BY DEF SyncDir
<1>5. \A k \in Names : N[k] = SettleEntry(old[k])
  OBVIOUS
<1> HIDE DEF N
<1> QED BY <1>3, <1>4, <1>5, NamesReplaced

LEMMA SyncingData ==
  ASSUME drive \in [Drives -> HoldingSet], dest.drive \in Drives, SyncData
  PROVE /\ OnlyNames
        /\ drive'[dest.drive].names["tmp"].now = "this"
        /\ \A k \in Names \ {"tmp"} : drive'[dest.drive].names[k] = drive[dest.drive].names[k]
<1> DEFINE old == drive[dest.drive].names
           e == [now |-> "this", may |-> (old["tmp"].may \ {"torn"}) \cup {"this"}]
           N == [old EXCEPT !["tmp"] = e]
<1>1. old \in [Names -> EntrySet] /\ old["tmp"] \in EntrySet /\ "tmp" \in Names
  BY DEF HoldingSet, Names
<1>2. e \in EntrySet /\ e.now = "this"
  BY <1>1 DEF EntrySet, Contents
<1>3. drive' = [drive EXCEPT ![dest.drive].names = N]
  BY DEF SyncData
<1> HIDE DEF e
<1>4. N \in [Names -> EntrySet] /\ N["tmp"] = e /\ \A k \in Names \ {"tmp"} : N[k] = old[k]
  BY <1>1, <1>2
<1> HIDE DEF N
<1> QED BY <1>2, <1>3, <1>4, NamesReplaced

LEMMA Renaming ==
  ASSUME drive \in [Drives -> HoldingSet], dest.drive \in Drives,
         NEW t \in Contents, drive[dest.drive].names["tmp"].now = t,
         drive' = [drive EXCEPT ![dest.drive].names =
                  [drive[dest.drive].names EXCEPT
                      !.report = [now |-> drive[dest.drive].names.tmp.now,
                                  may |-> drive[dest.drive].names.report.may \cup Left(drive[dest.drive].names.tmp.now)],
                      !.tmp = Set(drive[dest.drive].names.tmp, "absent")]]
  PROVE /\ OnlyNames
        /\ drive'[dest.drive].names["report"]
             = [now |-> t, may |-> drive[dest.drive].names["report"].may \cup Left(t)]
<1> DEFINE old == drive[dest.drive].names
           e == [now |-> t, may |-> old["report"].may \cup Left(t)]
           x == Set(old["tmp"], "absent")
           N == [[old EXCEPT !["report"] = e] EXCEPT !["tmp"] = x]
<1>1. old \in [Names -> EntrySet] /\ old["tmp"] \in EntrySet /\ old["report"] \in EntrySet
      /\ "tmp" \in Names /\ "report" \in Names /\ "absent" \in Contents
  BY DEF HoldingSet, Names, Contents
<1>2. e \in EntrySet /\ x \in EntrySet
  <2>1. Left(t) \subseteq Contents
    BY <1>1, EntriesSet
  <2> QED BY <1>1, <2>1, EntriesSet DEF EntrySet
<1>3. drive' = [drive EXCEPT ![dest.drive].names = N]
  OBVIOUS
<1> HIDE DEF e, x
<1>4. N \in [Names -> EntrySet] /\ N["report"] = e
  BY <1>1, <1>2
<1> HIDE DEF N
<1> QED BY <1>3, <1>4, NamesReplaced DEF e

\* The invariant holds after a turn of the collector that leaves the mounts alone, when
\* the turn it goes to is one it may go to with the report it then finds.
TurnAfter ==
  /\ UNCHANGED <<dest, mounts>> /\ failures' \in 0 .. Failures /\ exports' \in 0 .. Exports
  /\ admitted' \in BOOLEAN /\ valid' \in BOOLEAN /\ turn' \in DriveTurns
  /\ turn' \in Clearings \cup Exporting => admitted' /\ valid'
  /\ turn' \in {"mark", "keep"} => ~admitted' /\ valid'
  /\ admitted' \/ turn' \in {"mark", "keep"} => dest.mount # 0
ReportAfter(r) ==
  /\ r.may \subseteq {"absent", "earlier", "this"} /\ r.now \in r.may
  /\ "this" \in r.may => admitted'
  /\ ~admitted' \/ turn' \in {"clear", "unlink"} => r.may = {r.now}
  /\ admitted' /\ valid' /\ There =>
        /\ turn' = "forget" => r.now = "absent"
        /\ turn' \notin {"clear", "unlink", "forget"} => "earlier" \notin r.may

LEMMA DriveParts ==
  ASSUME DriveKinds
  PROVE drive \in [Drives -> HoldingSet] /\ dest.drive \in Drives /\ dest \in [drive : Drives, mount : 0 .. Plugs]
BY DEF DriveKinds, DriveTypeOK, HoldingSet, EntrySet

LEMMA DriveTakesTurns ==
  ASSUME DriveInv, OnlyNames, TurnAfter, ReportAfter(drive'[dest.drive].names["report"]),
         turn' \in {"recheck", "rename"} /\ There => drive'[dest.drive].names["tmp"].now = "this"
  PROVE DriveInv'
<1> USE DEF DriveInv
<1>1. /\ drive' \in [Drives -> HoldingSet] /\ dest' = dest /\ dest.drive \in Drives
      /\ \A d \in Drives : drive'[d].mount = drive[d].mount
      /\ \A d \in Drives : d # dest.drive => drive'[d] = drive[d]
  BY DEF OnlyNames, TurnAfter
<1>2. DriveKinds'
  <2>1. DriveTypeOK'
    BY <1>1, DriveParts DEF DriveKinds, DriveTypeOK, TurnAfter, HoldingSet, EntrySet
  <2> QED BY <1>1, <2>1 DEF DriveKinds, TurnAfter
<1>3. There' = There
  BY <1>1 DEF There
<1>4. WholeReports'
  <2> SUFFICES ASSUME NEW d \in Drives
               PROVE /\ TheReport(d)'.may \subseteq {"absent", "earlier", "this"} /\ TheReport(d)'.now \in TheReport(d)'.may
                     /\ "this" \in TheReport(d)'.may => d = dest'.drive /\ admitted'
                     /\ (d # dest'.drive \/ ~admitted' \/ turn' \in {"clear", "unlink"})
                           => TheReport(d)'.may = {TheReport(d)'.now}
    BY DEF WholeReports, TheReport
  <2>1. CASE d = dest.drive
    BY <1>1, <2>1 DEF ReportAfter, TheReport
  <2>2. CASE d # dest.drive
    BY <1>1, <2>2 DEF WholeReports, TheReport
  <2> QED BY <2>1, <2>2
<1>5. Cleared'
  BY <1>1, <1>3 DEF Cleared, ReportAfter, TheReport
<1>6. Written'
  BY <1>1, <1>3 DEF Written, Now
<1> QED BY <1>2, <1>4, <1>5, <1>6

\* Nothing is written, or not to the report.
LEMMA DriveUntouched ==
  ASSUME drive \in [Drives -> HoldingSet], dest.drive \in Drives, UNCHANGED drive
  PROVE OnlyNames
BY DEF OnlyNames

LEMMA CollectorKeeps ==
  ASSUME DriveInv, \/ MakeMarker \/ KeepMarker \/ Rescan \/ WriteDue
                   \/ ClearBegins \/ ClearUnlinks \/ ClearSyncs \/ ClearEnds
                   \/ ExportBegins \/ ExportClears \/ ExportEmpties \/ ExportWrites \/ ExportSyncs
                   \/ ExportChecks \/ ExportRenames \/ ExportEnds \/ ExportFails
  PROVE DriveInv'
<1> DEFINE r == TheReport(dest.drive)
           r2 == drive'[dest.drive].names["report"]
<1>0. /\ drive \in [Drives -> HoldingSet] /\ dest.drive \in Drives
      /\ failures \in 0 .. Failures /\ exports \in 0 .. Exports /\ Failures \in Nat /\ Exports \in Nat
      /\ admitted \in BOOLEAN /\ valid \in BOOLEAN /\ turn \in DriveTurns
      /\ "report" \in Names /\ "tmp" \in Names /\ "marker" \in Names
  BY DriveParts, DriveAssumption DEF DriveInv, DriveKinds, DriveTypeOK, Names
<1>1. /\ r.may \subseteq {"absent", "earlier", "this"} /\ r.now \in r.may
      /\ "this" \in r.may => admitted
      /\ ~admitted \/ turn \in {"clear", "unlink"} => r.may = {r.now}
      /\ admitted /\ valid /\ There =>
            /\ turn = "forget" => r.now = "absent"
            /\ turn \notin {"clear", "unlink", "forget"} => "earlier" \notin r.may
  BY <1>0 DEF DriveInv, WholeReports, Cleared
<1>2. /\ turn \in Clearings \cup Exporting => admitted /\ valid
      /\ turn \in {"mark", "keep"} => ~admitted /\ valid
      /\ admitted \/ turn \in {"mark", "keep"} => dest.mount # 0
  BY DEF DriveInv, DriveKinds
<1>t. \A x \in {"scan", "mark", "keep", "write"} \cup Clearings \cup Exporting : x \in DriveTurns
  BY DEF DriveTurns
<1> HIDE DEF r
\* A failure: the destination is no longer valid.
<1>i. ASSUME OnlyNames, r2 = r, Invalidate, failures' \in 0 .. Failures PROVE DriveInv'
  <2>1. turn' = "write" /\ valid' = FALSE /\ UNCHANGED <<dest, admitted, mounts, exports>>
    BY <1>i DEF Invalidate
  <2>2. TurnAfter
    BY <1>0, <1>2, <1>i, <2>1 DEF TurnAfter, DriveTurns, Clearings, Exporting
  <2>3. ReportAfter(r2)
    BY <1>1, <1>i, <2>1 DEF ReportAfter
  <2> QED BY <1>i, <2>1, <2>2, <2>3, DriveTakesTurns
<1>f. ASSUME Fails, Invalidate PROVE DriveInv'
  <2>1. failures' \in 0 .. Failures /\ UNCHANGED drive
    BY <1>0, <1>f DEF Fails
  <2>2. OnlyNames /\ r2 = r
    BY <1>0, <2>1, DriveUntouched DEF r, TheReport
  <2> QED BY <1>f, <1>i, <2>1, <2>2
\* On to the next turn, with the report as it was.
<1>g. ASSUME OnlyNames, r2 = r, UNCHANGED <<dest, admitted, valid, mounts>>, failures' \in 0 .. Failures, exports' \in 0 .. Exports,
             turn' \in DriveTurns, turn' \notin {"mark", "forget", "rename", "recheck"}, turn' = "keep" => turn = "mark",
             turn' \in Clearings \cup Exporting => admitted /\ valid,
             turn' \in {"clear", "unlink"} => turn \in {"clear", "unlink"},
             turn' \notin {"clear", "unlink", "mark", "keep"} => turn \notin {"clear", "unlink", "forget"} \/ ~(admitted /\ valid /\ There)
                                                     \/ r.may = {"absent"}
      PROVE DriveInv'
  <2>2. TurnAfter
    BY <1>0, <1>2, <1>g DEF TurnAfter
  <2>3. ReportAfter(r2)
    BY <1>1, <1>2, <1>g DEF ReportAfter
  <2> QED BY <1>g, <2>2, <2>3, DriveTakesTurns
<1>u. ASSUME UNCHANGED drive PROVE OnlyNames /\ r2 = r
  BY <1>0, <1>u, DriveUntouched DEF r, TheReport
<1>w. ASSUME NEW n \in Names, n # "report", NEW v \in Contents, Write(n, v) PROVE OnlyNames /\ r2 = r
  BY <1>0, <1>w, Writing DEF r, TheReport
<1>3. CASE MakeMarker
  <2>1. CASE Now("marker") = "absent" /\ Does(Write("marker", "here")) /\ DriveGoes("keep")
    <3>1. OnlyNames /\ r2 = r
      BY <1>0, <1>w, <2>1 DEF Does, Contents
    <3>2. turn = "mark" /\ turn' = "keep" /\ UNCHANGED <<dest, admitted, valid, mounts, exports, failures>>
      BY <1>3, <2>1 DEF MakeMarker, Does, DriveGoes
    <3> QED BY <1>0, <1>g, <3>1, <3>2 DEF DriveTurns, Clearings, Exporting
  <2> QED BY <1>3, <1>f, <2>1 DEF MakeMarker
<1>4. CASE KeepMarker
  <2>1. CASE Does(SyncDir) /\ turn' = "clear" /\ admitted' = TRUE /\ UNCHANGED <<dest, valid, mounts, exports>>
    <3>1. turn = "keep" /\ ~admitted /\ valid /\ dest.mount # 0 /\ UNCHANGED failures
      BY <1>4, <1>2, <2>1 DEF KeepMarker, Does
    <3>2. OnlyNames /\ r2 = SettleEntry(r)
      BY <1>0, <2>1, SyncingDir DEF Does, r, TheReport
    <3>3. r \in EntrySet /\ r.now \in {"absent", "earlier", "this"} /\ r.may = {r.now} /\ r.now # "this"
      BY <1>0, <1>1, <3>1 DEF r, TheReport, HoldingSet
    <3>4. r2.may = {r.now} /\ r2.now = r.now
      BY <3>2, <3>3 DEF SettleEntry, Left, EntrySet
    <3>5. TurnAfter
      BY <1>0, <2>1, <3>1 DEF TurnAfter, DriveTurns, Clearings, Exporting
    <3>6. ReportAfter(r2)
      BY <2>1, <3>3, <3>4 DEF ReportAfter
    <3> QED BY <2>1, <3>2, <3>5, <3>6, DriveTakesTurns
  <2> QED BY <1>4, <1>f, <2>1 DEF KeepMarker
\* A look at the mounts.
<1>c. ASSUME NEW next \in {"write", "unlink", "owned"}, CheckDrive(next),
             next # "write" => admitted /\ valid,
             next = "unlink" => turn = "clear", next = "write" => turn \in {"scan", "cleared"},
             next = "owned" => turn = "current"
      PROVE DriveInv'
  <2>1. OnlyNames /\ r2 = r /\ UNCHANGED failures
    BY <1>c, <1>u DEF CheckDrive
  <2>2. CASE destination_current
    <3>1. turn' = next /\ UNCHANGED <<dest, admitted, valid, mounts, exports>>
      BY <1>c, <2>2 DEF CheckDrive, DriveGoes
    <3> QED BY <1>0, <1>c, <1>g, <2>1, <3>1 DEF DriveTurns, Clearings, Exporting
  <2>3. CASE ~destination_current
    BY <1>0, <1>c, <1>i, <2>1, <2>3 DEF CheckDrive
  <2> QED BY <2>2, <2>3
<1>5. CASE Rescan
  <2>1. CASE admitted /\ valid /\ CheckDrive("write")
    BY <1>5, <1>c, <2>1 DEF Rescan
  <2>2. CASE ~valid /\ DriveGoes("write") /\ UNCHANGED <<drive, failures>>
    BY <1>0, <1>5, <1>g, <1>u, <2>2 DEF Rescan, DriveGoes, DriveTurns, Clearings, Exporting
  <2> QED BY <1>5, <2>1, <2>2 DEF Rescan
<1>6. CASE WriteDue
  <2>1. OnlyNames /\ r2 = r /\ turn = "write" /\ UNCHANGED <<dest, admitted, valid, mounts, failures>>
    BY <1>6, <1>u DEF WriteDue
  <2>2. exports' \in 0 .. Exports /\ (turn' = "scan" \/ (turn' = "current" /\ admitted /\ valid))
    BY <1>0, <1>6 DEF WriteDue
  <2> QED BY <1>0, <1>g, <2>1, <2>2 DEF DriveTurns, Clearings, Exporting
<1>7. CASE ClearBegins
  BY <1>2, <1>7, <1>c DEF ClearBegins, Clearings
<1>8. CASE ClearUnlinks
  <2>0. turn = "unlink" /\ admitted /\ valid /\ r.may = {r.now} /\ dest.mount # 0
    BY <1>1, <1>2, <1>8 DEF ClearUnlinks, Clearings
  <2>1. CASE Now("report") = "absent" /\ Does(UNCHANGED drive) /\ DriveGoes("write")
    <3>1. OnlyNames /\ r2 = r /\ UNCHANGED failures /\ r.may = {"absent"}
      BY <1>u, <2>0, <2>1 DEF Does, Now, r, TheReport
    <3> QED BY <1>0, <1>g, <2>1, <3>1 DEF DriveGoes, DriveTurns, Clearings, Exporting
  <2>2. CASE Now("report") # "absent" /\ Does(Write("report", "absent")) /\ DriveGoes("forget")
    <3>1. OnlyNames /\ r2 = Set(r, "absent") /\ UNCHANGED failures
      BY <1>0, <2>2, Writing DEF Does, r, TheReport, Contents
    <3>2. r2.now = "absent" /\ r2.may = r.may \cup {"absent"}
      BY <3>1 DEF Set, Left
    <3>3. turn' = "forget" /\ UNCHANGED <<dest, admitted, valid, mounts, exports>>
      BY <2>2 DEF DriveGoes
    <3>4. TurnAfter
      BY <1>0, <2>0, <3>1, <3>3 DEF TurnAfter, DriveTurns, Clearings, Exporting
    <3>5. ReportAfter(r2)
      BY <1>1, <2>0, <3>2, <3>3 DEF ReportAfter
    <3> QED BY <3>1, <3>3, <3>4, <3>5, DriveTakesTurns
  <2> QED BY <1>8, <1>f, <2>1, <2>2 DEF ClearUnlinks
<1>9. CASE ClearSyncs
  <2>0. turn = "forget" /\ admitted /\ valid /\ dest.mount # 0
    BY <1>2, <1>9 DEF ClearSyncs, Clearings
  <2>1. CASE Does(SyncDir) /\ DriveGoes("cleared")
    <3>1. OnlyNames /\ r2 = SettleEntry(r) /\ UNCHANGED failures /\ r.now = "absent"
      BY <1>0, <1>1, <2>0, <2>1, SyncingDir DEF Does, r, TheReport
    <3>2. r \in EntrySet
      BY <1>0 DEF r, TheReport, HoldingSet
    <3>3. r2.now = "absent" /\ r2.may = {"absent"}
      BY <3>1, <3>2 DEF SettleEntry, Left, EntrySet
    <3>4. turn' = "cleared" /\ UNCHANGED <<dest, admitted, valid, mounts, exports>>
      BY <2>1 DEF DriveGoes
    <3>5. TurnAfter
      BY <1>0, <2>0, <3>1, <3>4 DEF TurnAfter, DriveTurns, Clearings, Exporting
    <3>6. ReportAfter(r2)
      BY <2>0, <3>3, <3>4 DEF ReportAfter
    <3> QED BY <3>1, <3>4, <3>5, <3>6, DriveTakesTurns
  <2> QED BY <1>9, <1>f, <2>1 DEF ClearSyncs, Clearing
<1>10. CASE ClearEnds
  BY <1>2, <1>10, <1>c DEF ClearEnds, Clearings
<1>11. CASE ExportBegins
  BY <1>2, <1>11, <1>c DEF ExportBegins, Exporting
<1>e. turn \in Exporting => admitted /\ valid /\ turn \notin {"clear", "unlink", "forget"}
  BY <1>2 DEF Exporting
<1>12. CASE ExportClears
  <2>0. turn = "owned" /\ admitted /\ valid
    BY <1>e, <1>12 DEF ExportClears, Exporting
  <2>1. CASE Now("tmp") = "absent" /\ Does(UNCHANGED drive) /\ DriveGoes("create")
    BY <1>0, <1>g, <1>u, <2>0, <2>1 DEF Does, DriveGoes, DriveTurns, Clearings, Exporting
  <2>2. CASE Now("tmp") # "absent" /\ Does(Write("tmp", "absent")) /\ DriveGoes("emptied")
    <3>1. OnlyNames /\ r2 = r /\ UNCHANGED failures
      BY <1>0, <1>w, <2>2 DEF Does, Contents
    <3> QED BY <1>0, <1>g, <2>0, <2>2, <3>1 DEF DriveGoes, DriveTurns, Clearings, Exporting
  <2> QED BY <1>12, <1>f, <2>1, <2>2 DEF ExportClears
\* The directory synced, the report with it.
<1>s. ASSUME Does(SyncDir), turn \in {"emptied", "dirsync"}, turn' \in {"create", "scan"},
             UNCHANGED <<dest, admitted, valid, mounts, exports>>
      PROVE DriveInv'
  <2>0. admitted /\ valid
    BY <1>e, <1>s DEF Exporting
  <2>1. OnlyNames /\ r2 = SettleEntry(r) /\ UNCHANGED failures
    BY <1>0, <1>s, SyncingDir DEF Does, r, TheReport
  <2>2. r \in EntrySet /\ r.now # "fresh"
    BY <1>0, <1>1 DEF r, TheReport, HoldingSet
  <2>3. r2.now = r.now /\ r2.may = {r.now}
    BY <2>1, <2>2 DEF SettleEntry, Left, EntrySet
  <2>4. TurnAfter
    BY <1>0, <1>2, <1>s, <2>0, <2>1 DEF TurnAfter, DriveTurns, Clearings, Exporting
  <2>5. ReportAfter(r2)
    BY <1>1, <1>s, <2>0, <2>3 DEF ReportAfter
  <2> QED BY <1>s, <2>1, <2>4, <2>5, DriveTakesTurns
<1>13. CASE ExportEmpties
  BY <1>13, <1>f, <1>s DEF ExportEmpties, Clearing, DriveGoes
<1>14. CASE ExportWrites
  <2>0. turn = "create" /\ admitted /\ valid
    BY <1>e, <1>14 DEF ExportWrites, ExportStep, Exporting
  <2>1. OnlyNames /\ r2 = r /\ UNCHANGED failures
    BY <1>0, <1>w, <1>14 DEF ExportWrites, ExportStep, Does, Contents
  <2> QED BY <1>0, <1>14, <1>g, <2>0, <2>1 DEF ExportWrites, ExportStep, DriveGoes, DriveTurns, Clearings, Exporting
<1>15. CASE ExportSyncs
  <2>0. turn = "sync" /\ admitted /\ valid /\ turn' = "recheck" /\ UNCHANGED <<dest, admitted, valid, mounts, exports, failures>>
    BY <1>e, <1>15 DEF ExportSyncs, ExportStep, Exporting, Does, DriveGoes
  <2>1. OnlyNames /\ r2 = r /\ drive'[dest.drive].names["tmp"].now = "this"
    BY <1>0, <1>15, SyncingData DEF ExportSyncs, ExportStep, Does, r, TheReport
  <2>2. TurnAfter
    BY <1>0, <1>2, <2>0 DEF TurnAfter, DriveTurns, Clearings, Exporting
  <2>3. ReportAfter(r2)
    BY <1>1, <2>0, <2>1 DEF ReportAfter
  <2> QED BY <2>1, <2>2, <2>3, DriveTakesTurns
\* What a failed export leaves of its temporary.
<1>a. ASSUME Abandon PROVE OnlyNames /\ r2 = r
  <2>1. CASE There
    <3>1. PICK v \in {"absent", IF turn = "create" THEN "torn" ELSE Now("tmp")} : Write("tmp", v)
      BY <1>a, <2>1 DEF Abandon
    <3>2. v \in Contents
      <4>1. drive[dest.drive].names["tmp"] \in EntrySet
        BY <1>0 DEF HoldingSet
      <4>2. Now("tmp") \in Contents
        BY <4>1 DEF Now, EntrySet
      <4> QED BY <3>1, <4>2 DEF Contents
    <3> QED BY <1>0, <1>w, <3>1, <3>2
  <2>2. CASE ~There
    BY <1>a, <1>u, <2>2 DEF Abandon
  <2> QED BY <2>1, <2>2
<1>16. CASE ExportChecks
  <2>0. turn = "recheck" /\ admitted /\ valid /\ UNCHANGED failures
    BY <1>e, <1>16 DEF ExportChecks, Exporting
  <2>1. CASE destination_current
    <3>1. UNCHANGED drive /\ turn' = "rename" /\ UNCHANGED <<dest, admitted, valid, mounts, exports>>
      BY <1>16, <2>1 DEF ExportChecks, DriveGoes
    <3>2. OnlyNames /\ r2 = r
      BY <1>u, <3>1
    <3>3. There => drive'[dest.drive].names["tmp"].now = "this"
      BY <2>0, <3>1 DEF DriveInv, Written, Now
    <3>4. TurnAfter
      BY <1>0, <1>2, <2>0, <3>1 DEF TurnAfter, DriveTurns, Clearings, Exporting
    <3>5. ReportAfter(r2)
      BY <1>1, <2>0, <3>1, <3>2 DEF ReportAfter
    <3> QED BY <3>2, <3>3, <3>4, <3>5, DriveTakesTurns
  <2>2. CASE ~destination_current
    BY <1>0, <1>16, <1>a, <1>i, <2>0, <2>2 DEF ExportChecks
  <2> QED BY <2>1, <2>2
<1>17. CASE ExportRenames
  <2>0. turn = "rename" /\ admitted /\ valid /\ There /\ turn' = "dirsync"
        /\ UNCHANGED <<dest, admitted, valid, mounts, exports, failures>>
    BY <1>e, <1>17 DEF ExportRenames, ExportStep, Exporting, Does, DriveGoes
  <2>1. drive[dest.drive].names["tmp"].now = "this"
    BY <2>0 DEF DriveInv, Written, Now
  <2>2. OnlyNames /\ r2 = [now |-> "this", may |-> r.may \cup Left("this")]
    BY <1>0, <1>17, <2>1, Renaming DEF ExportRenames, ExportStep, Does, r, TheReport, Contents
  <2>3. r2.now = "this" /\ r2.may = r.may \cup {"this"}
    BY <2>2 DEF Left
  <2>4. TurnAfter
    BY <1>0, <1>2, <2>0 DEF TurnAfter, DriveTurns, Clearings, Exporting
  <2>5. ReportAfter(r2)
    BY <1>1, <2>0, <2>3 DEF ReportAfter
  <2> QED BY <2>0, <2>2, <2>4, <2>5, DriveTakesTurns
<1>18. CASE ExportEnds
  <2>1. CASE ExportStep("dirsync", SyncDir, "scan")
    BY <1>s, <2>1 DEF ExportStep, DriveGoes
  <2> QED BY <1>18, <1>f, <2>1 DEF ExportEnds
<1>19. CASE ExportFails
  <2>1. failures' \in 0 .. Failures /\ Abandon /\ Invalidate
    BY <1>0, <1>19 DEF ExportFails, Gives
  <2> QED BY <1>a, <1>i, <2>1
<1> QED BY <1>3, <1>4, <1>5, <1>6, <1>7, <1>8, <1>9, <1>10, <1>11, <1>12, <1>13, <1>14, <1>15,
           <1>16, <1>17, <1>18, <1>19

LEMMA UserKeeps ==
  ASSUME DriveInv, NEW d \in Drives, PlugDrive(d) \/ Pull(d)
  PROVE DriveInv'
<1>0. /\ drive \in [Drives -> HoldingSet] /\ dest.drive \in Drives /\ dest \in [drive : Drives, mount : 0 .. Plugs]
      /\ mounts \in 0 .. Plugs /\ Plugs \in Nat /\ DriveTypeOK
  BY DriveParts, DriveAssumption DEF DriveInv, DriveKinds, DriveTypeOK
<1>1. /\ dest.mount <= mounts /\ \A c \in Drives : drive[c].mount <= mounts /\ drive[c].mount \in Nat
      /\ admitted \/ turn \in {"mark", "keep"} => dest.mount # 0
      /\ dest.mount \in Nat
      /\ turn \in {"recheck", "rename"} => admitted
  BY <1>0 DEF DriveInv, DriveKinds, HoldingSet, Exporting
<1>2. \A c \in Drives :
        /\ TheReport(c).may \subseteq {"absent", "earlier", "this"} /\ TheReport(c).now \in TheReport(c).may
        /\ "this" \in TheReport(c).may => c = dest.drive /\ admitted
        /\ c # dest.drive \/ ~admitted \/ turn \in {"clear", "unlink"} => TheReport(c).may = {TheReport(c).now}
  BY DEF DriveInv, WholeReports
<1>3. UNCHANGED <<turn, dest, admitted, valid, failures, exports>>
  BY DEF PlugDrive, Pull
\* Plugged in or pulled, a destination is no longer there; another drive does not matter.
<1>4. ASSUME drive' \in [Drives -> HoldingSet], mounts' \in mounts .. Plugs,
             \A c \in Drives \ {d} : drive'[c] = drive[c],
             drive'[d].mount <= mounts', drive'[d].mount = 0 \/ drive'[d].mount = mounts + 1,
             TheReport(d)'.may \subseteq TheReport(d).may \cup {"absent"}, TheReport(d)'.now \in TheReport(d)'.may,
             TheReport(d)'.may = {TheReport(d)'.now} \/ TheReport(d)' = TheReport(d)
      PROVE DriveInv'
  <2>1. DriveTypeOK'
    BY <1>0, <1>3, <1>4 DEF DriveTypeOK, HoldingSet, EntrySet
  <2>2. \A c \in Drives : drive'[c].mount <= mounts'
    <3> SUFFICES ASSUME NEW c \in Drives PROVE drive'[c].mount <= mounts'
      OBVIOUS
    <3>1. CASE c = d
      BY <1>4, <3>1
    <3>2. CASE c # d
      BY <1>0, <1>1, <1>4, <3>2
    <3> QED BY <3>1, <3>2
  <2>3. dest.mount <= mounts'
    BY <1>0, <1>1, <1>4
  <2>4. DriveKinds'
    BY <1>3, <2>1, <2>2, <2>3 DEF DriveInv, DriveKinds
  <2>5. WholeReports'
    <3> SUFFICES ASSUME NEW c \in Drives
                 PROVE /\ TheReport(c)'.may \subseteq {"absent", "earlier", "this"} /\ TheReport(c)'.now \in TheReport(c)'.may
                       /\ "this" \in TheReport(c)'.may => c = dest'.drive /\ admitted'
                       /\ (c # dest'.drive \/ ~admitted' \/ turn' \in {"clear", "unlink"})
                             => TheReport(c)'.may = {TheReport(c)'.now}
      BY DEF WholeReports, TheReport
    <3>1. CASE c = d
      BY <1>2, <1>3, <1>4, <3>1
    <3>2. CASE c # d
      <4>1. TheReport(c)' = TheReport(c)
        BY <1>4, <3>2 DEF TheReport
      <4> QED BY <1>2, <1>3, <4>1
    <3> QED BY <3>1, <3>2
  <2>6. CASE d = dest.drive /\ dest.mount # 0
    <3>1. ~There'
      BY <1>0, <1>1, <1>3, <1>4, <2>6 DEF There
    <3> QED BY <2>4, <2>5, <3>1 DEF DriveInv, Cleared, Written
  <2>7. CASE dest.mount = 0
    <3>1. ~admitted' /\ turn' \notin {"recheck", "rename"}
      BY <1>1, <1>3, <2>7
    <3> QED BY <2>4, <2>5, <3>1 DEF DriveInv, Cleared, Written
  <2>8. CASE d # dest.drive
    <3>1. drive'[dest'.drive] = drive[dest.drive] /\ dest' = dest
      BY <1>0, <1>3, <1>4, <2>8
    <3>2. There' = There /\ Now("tmp")' = Now("tmp") /\ TheReport(dest.drive)' = TheReport(dest.drive)
      BY <1>0, <1>4, <2>8, <3>1 DEF There, Now, TheReport
    <3> QED BY <1>3, <2>4, <2>5, <3>1, <3>2 DEF DriveInv, Cleared, Written, TheReport
  <2> QED BY <2>6, <2>7, <2>8
<1>5. CASE PlugDrive(d)
  <2>1. mounts < Plugs /\ mounts' = mounts + 1 /\ drive' = [drive EXCEPT ![d] = [drive[d] EXCEPT !.mount = mounts + 1]]
    BY <1>5 DEF PlugDrive
  <2>2. drive[d] \in HoldingSet
    BY <1>0
  <2>3. /\ [drive[d] EXCEPT !.mount = mounts + 1] \in HoldingSet
        /\ [drive[d] EXCEPT !.mount = mounts + 1].mount = mounts + 1
        /\ [drive[d] EXCEPT !.mount = mounts + 1].names = drive[d].names
    BY <1>0, <2>1, <2>2 DEF HoldingSet
  <2>4. drive' \in [Drives -> HoldingSet] /\ \A c \in Drives \ {d} : drive'[c] = drive[c]
    BY <1>0, <2>1, <2>3
  <2>5. drive'[d].mount = mounts + 1 /\ TheReport(d)' = TheReport(d)
    BY <1>0, <2>1, <2>3 DEF TheReport
  <2>6. mounts' \in mounts .. Plugs /\ drive'[d].mount <= mounts'
    BY <1>0, <2>1, <2>5
  <2>7. TheReport(d)'.may \subseteq TheReport(d).may \cup {"absent"} /\ TheReport(d)'.now \in TheReport(d)'.may
    BY <1>2, <2>5
  <2> QED BY <1>4, <2>4, <2>5, <2>6, <2>7
<1>6. CASE Pull(d)
  <2>1. PICK left \in [Names -> Contents] :
          /\ \A n \in Names : \/ left[n] \in drive[d].names[n].may
                              \/ left["marker"] = "absent" /\ left[n] = "absent"
          /\ drive' = [drive EXCEPT ![d] =
                [mount |-> 0, names |-> [n \in Names |-> [now |-> left[n], may |-> {left[n]}]]]]
    BY <1>6 DEF Pull
  <2> DEFINE N == [n \in Names |-> [now |-> left[n], may |-> {left[n]}]]
             h == [mount |-> 0, names |-> N]
  <2>2. N \in [Names -> EntrySet]
    BY DEF EntrySet
  <2>3. "report" \in Names /\ N["report"] = [now |-> left["report"], may |-> {left["report"]}]
    BY DEF Names
  <2>4. drive' = [drive EXCEPT ![d] = h]
    BY <2>1
  <2>5. left["report"] \in TheReport(d).may \cup {"absent"}
    BY <2>1, <2>3 DEF TheReport
  <2> HIDE DEF N
  <2>6. h \in HoldingSet /\ h.mount = 0 /\ h.names = N
    BY <1>0, <2>2 DEF HoldingSet
  <2> HIDE DEF h
  <2>7. drive' \in [Drives -> HoldingSet] /\ (\A c \in Drives \ {d} : drive'[c] = drive[c]) /\ drive'[d] = h
    BY <1>0, <2>4, <2>6
  <2>8. TheReport(d)' = [now |-> left["report"], may |-> {left["report"]}]
    BY <2>3, <2>6, <2>7 DEF TheReport
  <2>9. /\ TheReport(d)'.may \subseteq TheReport(d).may \cup {"absent"} /\ TheReport(d)'.now \in TheReport(d)'.may
        /\ TheReport(d)'.may = {TheReport(d)'.now}
    BY <2>5, <2>8
  <2>10. mounts' \in mounts .. Plugs /\ drive'[d].mount <= mounts' /\ drive'[d].mount = 0
    BY <1>0, <1>6, <2>6, <2>7 DEF Pull
  <2> QED BY <1>4, <2>7, <2>9, <2>10
<1> QED BY <1>5, <1>6

LEMMA AdmissionKeeps ==
  ASSUME DriveInv, Admit
  PROVE DriveInv'
<1>0. /\ drive \in [Drives -> HoldingSet] /\ dest.drive \in Drives /\ DriveTypeOK /\ Failures \in Nat
      /\ failures \in 0 .. Failures /\ turn = "scan" /\ ~admitted /\ valid
      /\ UNCHANGED <<drive, valid, mounts, exports>>
  BY DriveParts, DriveAssumption DEF DriveInv, DriveKinds, DriveTypeOK, Admit
<1>1. \A c \in Drives :
        /\ TheReport(c).may \subseteq {"absent", "earlier", "this"} /\ TheReport(c).now \in TheReport(c).may
        /\ "this" \notin TheReport(c).may /\ TheReport(c).may = {TheReport(c).now}
  BY <1>0 DEF DriveInv, WholeReports
<1>2. \/ turn' = "write" /\ UNCHANGED <<dest, admitted>> /\ failures' \in {failures, failures + 1} /\ failures' \in 0 .. Failures
      \/ \E d \in Drives : /\ dest' = [drive |-> d, mount |-> drive[d].mount] /\ UNCHANGED failures /\ drive[d].mount # 0
                           /\ (admitted' = TRUE /\ turn' = "clear") \/ (turn' = "mark" /\ UNCHANGED admitted)
  BY <1>0 DEF Admit, Marked, Mounted
<1>3. \A c \in Drives : TheReport(c)' = TheReport(c)
  BY <1>0 DEF TheReport
<1>4. WholeReports'
  BY <1>1, <1>3 DEF WholeReports, TheReport
<1>5. CASE turn' = "write" /\ UNCHANGED <<dest, admitted>> /\ failures' \in 0 .. Failures
  <2>1. DriveTypeOK'
    BY <1>0, <1>5 DEF DriveTypeOK
  <2>2. DriveKinds'
    BY <1>0, <1>5, <2>1 DEF DriveInv, DriveKinds, DriveTurns, Clearings, Exporting
  <2> QED BY <1>0, <1>4, <1>5, <2>2 DEF DriveInv, Cleared, Written
<1>6. ASSUME NEW d \in Drives, dest' = [drive |-> d, mount |-> drive[d].mount], UNCHANGED failures, drive[d].mount # 0,
             (admitted' = TRUE /\ turn' = "clear") \/ (turn' = "mark" /\ UNCHANGED admitted)
      PROVE DriveInv'
  <2>1. drive[d].mount \in 0 .. Plugs /\ drive[d].mount <= mounts
    BY <1>0 DEF DriveInv, DriveKinds, HoldingSet
  <2>2. dest' \in [drive : Drives, mount : 0 .. Plugs] /\ dest'.mount = drive[d].mount
    BY <1>6, <2>1
  <2>3. DriveTypeOK'
    BY <1>0, <1>6, <2>2 DEF DriveTypeOK
  <2>4. DriveKinds'
    BY <1>0, <1>6, <2>1, <2>2, <2>3 DEF DriveInv, DriveKinds, DriveTurns, Clearings, Exporting
  <2> QED BY <1>0, <1>4, <1>6, <2>4 DEF DriveInv, Cleared, Written
<1> QED BY <1>2, <1>5, <1>6

LEMMA DriveHolds == DriveSpec => []DriveInv
<1>1. DriveInv /\ [DriveNext]_driveVars => DriveInv'
  <2> SUFFICES ASSUME DriveInv, [DriveNext]_driveVars PROVE DriveInv'
    OBVIOUS
  <2>1. CASE DriveNext
    BY <2>1, CollectorKeeps, UserKeeps, AdmissionKeeps DEF DriveNext
  <2>2. CASE UNCHANGED driveVars
    BY <2>2 DEF driveVars, DriveInv, DriveKinds, DriveTypeOK, WholeReports, TheReport, Cleared, Written, There, Now
  <2> QED BY <2>1, <2>2
<1> QED BY <1>1, DriveStarts, PTL DEF DriveSpec

LEMMA WholeReportsAreTrue == DriveInv => ReportsAreTrue
BY DEF DriveInv, WholeReports, Cleared, ReportsAreTrue, Found, TheReport

-------------------------------------------------------------------------------
(* The invariant of the executables' verdicts.                                   *)

Processes == [pid : Pids \cup {0}, start : 0 .. Starts]
Rows == [key : Keys, state : {"pending", "hashing", "exact", "mismatch", "unavailable"},
         who : Processes]
Epochs == [who : Processes, key : Keys \cup {NoKey}, verdict : Verdicts]
ExecutableKinds ==
  /\ procs \in [Pids -> [file : Files \cup {NoFile}, start : 0 .. Starts]]
  /\ version \in [Files -> 1 .. Versions] /\ genuine \subseteq Keys
  /\ ran \in Seq(SUBSET Keys) /\ Len(ran) <= Starts
  /\ loop \in {"scan", "compare", "add", "refresh", "step"} /\ seen \in Processes
  /\ epochs \in Seq(Epochs) /\ cache \in Seq(Rows)
  /\ hash \in [file : Files \cup {NoFile}, read : SUBSET Keys, portions : 0 .. Portions]

\* A process has run what it runs, and an epoch names what its process has run.
RanIt(who, key) == who.start \in DOMAIN ran /\ key \in ran[who.start]
ProcessesRan == \A p \in Running : RanIt([pid |-> p, start |-> procs[p].start], KeyOf(procs[p].file))
EpochsRan == \A i \in DOMAIN epochs : epochs[i].key # NoKey => RanIt(epochs[i].who, epochs[i].key)
Executed == ProcessesRan /\ EpochsRan

\* A verdict is true of its key.
Agrees(key, verdict) == /\ verdict = "exact" => key \in genuine
                        /\ verdict = "mismatch" => key \notin genuine
Judged == /\ \A i \in DOMAIN cache : Agrees(cache[i].key, cache[i].state)
          /\ \A i \in DOMAIN epochs : Agrees(epochs[i].key, epochs[i].verdict)

\* One digest is in progress; it reads the file asked for, from the content asked for on.
Between(k, key) == k[1] = key[1] /\ key[2] <= k[2] /\ k[2] <= version[key[1]]
Hashed ==
  /\ \A i, j \in In("hashing") : i = j
  /\ \A i \in In("hashing") : /\ hash.file = cache[i].key[1]
                              /\ Between(cache[i].key, cache[i].key)
                              /\ \A k \in hash.read : Between(k, cache[i].key)
                              /\ hash.portions # 0 => hash.read # {}

ExecutableInv == ExecutableKinds /\ Executed /\ Judged /\ Hashed

LEMMA KeysOfFiles ==
  ASSUME ExecutableKinds, NEW f \in Files
  PROVE KeyOf(f) \in Keys /\ KeyOf(f)[1] = f /\ KeyOf(f)[2] = version[f]
BY ExecutableAssumption DEF ExecutableKinds, KeyOf, Keys

LEMMA NoKeyIsNone == NoKey \notin Keys
BY ExecutableAssumption DEF NoKey, Keys

\* A row taken out and one put at the end.
RowMoved(c, i, x, d) ==
  /\ Len(d) = Len(c)
  /\ \A k \in DOMAIN d : \/ k = Len(c) /\ d[k] = x
                         \/ k < Len(c) /\ k < i /\ k \in DOMAIN c /\ d[k] = c[k]
                         \/ k < Len(c) /\ k >= i /\ k + 1 \in DOMAIN c /\ d[k] = c[k + 1]
LEMMA RowsMoved ==
  ASSUME NEW S, NEW c \in Seq(S), NEW i \in DOMAIN c, NEW x \in S, NEW d, d = Append(RemoveAt(c, i), x)
  PROVE d \in Seq(S) /\ RowMoved(c, i, x, d)
<1> DEFINE n == Len(c)
           a == SubSeq(c, 1, i - 1)
           b == SubSeq(c, i + 1, n)
           r == a \o b
<1>1. n \in Nat /\ i \in 1 .. n /\ DOMAIN c = 1 .. n /\ \A k \in 1 .. n : c[k] \in S
  OBVIOUS
<1>2. /\ a \in Seq(S) /\ Len(a) = i - 1 /\ \A k \in 1 .. (i - 1) : a[k] = c[k]
      /\ b \in Seq(S) /\ Len(b) = n - i /\ \A k \in 1 .. (n - i) : b[k] = c[k + i]
  <2>1. a = [k \in 1 .. (i - 1) |-> c[k]]
    BY <1>1
  <2>2. b = [k \in 1 .. (n - i) |-> c[k + i]]
    BY <1>1
  <2>3. i - 1 \in Nat /\ n - i \in Nat
    BY <1>1
  <2>4. \A k \in 1 .. (i - 1) : k \in 1 .. n
    BY <1>1
  <2>5. \A k \in 1 .. (n - i) : k + i \in 1 .. n
    BY <1>1
  <2>6. a \in Seq(S) /\ Len(a) = i - 1
    BY <1>1, <2>1, <2>3, <2>4
  <2>7. b \in Seq(S) /\ Len(b) = n - i
    BY <1>1, <2>2, <2>3, <2>5
  <2> QED BY <2>1, <2>2, <2>6, <2>7
<1> HIDE DEF a, b
<1>3. /\ r \in Seq(S) /\ Len(r) = n - 1
      /\ \A k \in 1 .. (n - 1) : r[k] = IF k < i THEN c[k] ELSE c[k + 1]
  <2>1. r \in Seq(S) /\ Len(r) = Len(a) + Len(b)
        /\ \A k \in 1 .. (Len(a) + Len(b)) : r[k] = IF k <= Len(a) THEN a[k] ELSE b[k - Len(a)]
    BY <1>2
  <2>2. Len(a) + Len(b) = n - 1
    BY <1>1, <1>2
  <2>3. ASSUME NEW k \in 1 .. (n - 1) PROVE r[k] = IF k < i THEN c[k] ELSE c[k + 1]
    <3>1. CASE k < i
      BY <1>1, <1>2, <2>1, <2>2, <3>1
    <3>2. CASE ~(k < i)
      <4>1. k - Len(a) \in 1 .. (n - i) /\ (k - Len(a)) + i = k + 1 /\ ~(k <= Len(a))
        BY <1>1, <1>2, <3>2
      <4> QED BY <1>2, <2>1, <2>2, <3>2, <4>1
    <3> QED BY <3>1, <3>2
  <2> QED BY <2>1, <2>2, <2>3
<1>4. d = Append(r, x)
  BY DEF RemoveAt, a, b
<1> HIDE DEF r
<1>5. /\ d \in Seq(S) /\ Len(d) = n /\ d[n] = x
      /\ \A k \in 1 .. (n - 1) : d[k] = r[k]
  <2>1. d \in Seq(S) /\ Len(d) = Len(r) + 1 /\ d[Len(r) + 1] = x /\ \A k \in 1 .. Len(r) : d[k] = r[k]
    BY <1>3, <1>4
  <2>2. Len(r) = n - 1 /\ Len(r) + 1 = n
    BY <1>1, <1>3
  <2> QED BY <2>1, <2>2
<1>6. ASSUME NEW k \in DOMAIN d
      PROVE \/ k = n /\ d[k] = x
            \/ k < n /\ k < i /\ k \in DOMAIN c /\ d[k] = c[k]
            \/ k < n /\ k >= i /\ k + 1 \in DOMAIN c /\ d[k] = c[k + 1]
  BY <1>1, <1>3, <1>5
<1> QED BY <1>5, <1>6 DEF RowMoved

\* Rows of which none, or only the one moved, is of a kind: still at most one is.
LEMMA MovedApart ==
  ASSUME NEW c \in Seq(Rows), NEW i \in DOMAIN c, NEW x, NEW d \in Seq(Rows), RowMoved(c, i, x, d),
         x.state = "hashing" => c[i].state = "hashing",
         \A k, l \in DOMAIN c : c[k].state = "hashing" /\ c[l].state = "hashing" => k = l,
         NEW k \in DOMAIN d, NEW l \in DOMAIN d, d[k].state = "hashing", d[l].state = "hashing"
  PROVE k = l
<1> DEFINE At(m) == IF m = Len(c) THEN i ELSE IF m < i THEN m ELSE m + 1
<1>1. /\ Len(c) \in Nat /\ DOMAIN c = 1 .. Len(c) /\ Len(d) = Len(c) /\ DOMAIN d = 1 .. Len(d)
      /\ i \in 1 .. Len(c) /\ k \in 1 .. Len(c) /\ l \in 1 .. Len(c)
  BY DEF RowMoved
<1>2. ASSUME NEW m \in DOMAIN d, d[m].state = "hashing"
      PROVE At(m) \in DOMAIN c /\ c[At(m)].state = "hashing"
  <2>1. \/ m = Len(c) /\ d[m] = x
        \/ m < Len(c) /\ m < i /\ m \in DOMAIN c /\ d[m] = c[m]
        \/ m < Len(c) /\ m >= i /\ m + 1 \in DOMAIN c /\ d[m] = c[m + 1]
    BY DEF RowMoved
  <2>2. CASE m = Len(c) /\ d[m] = x
    BY <1>2, <2>2
  <2>3. CASE m < Len(c) /\ m < i /\ m \in DOMAIN c /\ d[m] = c[m]
    <3>1. At(m) = m
      BY <1>1, <2>3
    <3> QED BY <1>2, <2>3, <3>1
  <2>4. CASE m < Len(c) /\ m >= i /\ m + 1 \in DOMAIN c /\ d[m] = c[m + 1]
    <3>1. At(m) = m + 1
      BY <1>1, <2>4
    <3> QED BY <1>2, <2>4, <3>1
  <2> QED BY <2>1, <2>2, <2>3, <2>4
<1>3. At(k) = At(l)
  BY <1>2
<1>4. ASSUME At(k) = At(l) PROVE k = l
  BY <1>1, <1>4
<1> QED BY <1>3, <1>4

\* A first and a last position: of the intervals below them one contains no other.
LEMMA LeastExists ==
  ASSUME NEW S \in SUBSET Nat, S # {}
  PROVE \E i \in S : \A j \in S : i <= j
<1>1. PICK b \in S : TRUE
  OBVIOUS
<1> DEFINE I == 0 .. b
           T(i) == {x \in I : x < i}
           TT == {T(i) : i \in S}
<1>2. b \in Nat /\ IsFiniteSet(I)
  BY <1>1, FS_Interval
<1>3. IsWellFoundedOn(StrictSubsetOrdering(I), SUBSET I)
  BY <1>2, FS_StrictSubsetOrderingWellFounded, FS_FiniteSubsetsOfFinite
<1>4. TT \subseteq SUBSET I /\ TT # {}
  OBVIOUS
<1>5. \E X \in TT : \A Y \in TT : ~(<<Y, X>> \in StrictSubsetOrdering(I))
  BY <1>3, <1>4, WFMin
<1>6. PICK i \in S : \A j \in S : ~(<<T(j), T(i)>> \in StrictSubsetOrdering(I))
  BY <1>5
<1>7. \A j \in S : ~(T(j) \subseteq T(i) /\ T(j) # T(i))
  BY <1>6 DEF StrictSubsetOrdering
<1>8. \A j \in S : j < i /\ j <= b => T(j) \subseteq T(i) /\ j \in T(i) /\ j \notin T(j)
  BY <1>2
<1>9. \A j \in S : ~(j < i /\ j <= b)
  BY <1>7, <1>8
<1>10. i <= b
  BY <1>1, <1>2, <1>9
<1>11. \A j \in S : i <= j
  BY <1>2, <1>9, <1>10
<1> QED BY <1>11

LEMMA GreatestExists ==
  ASSUME NEW n \in Nat, NEW S \in SUBSET (0 .. n), S # {}
  PROVE \E i \in S : \A j \in S : j <= i
<1> DEFINE R == {n - i : i \in S}
<1>1. R \in SUBSET Nat /\ R # {}
  <2>1. \A i \in S : i \in 0 .. n
    OBVIOUS
  <2>2. \A i \in 0 .. n : n - i \in Nat
    OBVIOUS
  <2>3. R \subseteq Nat
    BY <2>1, <2>2
  <2> QED BY <2>3
<1>2. PICK r \in R : \A q \in R : r <= q
  BY <1>1, LeastExists
<1>3. PICK i \in S : r = n - i
  BY <1>2
<1>4. \A j \in S : n - j \in R
  OBVIOUS
<1>5. \A j \in S : j <= i
  BY <1>2, <1>3, <1>4
<1> QED BY <1>5

\* A request moves a row, makes one or takes the place of one that nothing is read for.
LEMMA RequestsKeepRows ==
  ASSUME NEW c \in Seq(Rows), NEW key \in Keys, NEW who \in Processes, NEW d \in verification_request(c, key, who)
  PROVE /\ d \in Seq(Rows)
        /\ \A k \in DOMAIN d : \/ d[k].state \in {"pending", "unavailable"}
                               \/ \E i \in DOMAIN c : c[i].key = d[k].key /\ c[i].state = d[k].state
        /\ (\A i, j \in DOMAIN c : c[i].state = "hashing" /\ c[j].state = "hashing" => i = j)
              => \A k, l \in DOMAIN d : d[k].state = "hashing" /\ d[l].state = "hashing" => k = l
<1> DEFINE New == [key |-> key, state |-> "pending", who |-> who]
<1>0. Len(c) \in Nat /\ DOMAIN c = 1 .. Len(c) /\ New \in Rows
  BY DEF Rows
<1>1. CASE verification_find(c, key) # {}
  <2> DEFINE i == CHOOSE k \in verification_find(c, key) : TRUE
  <2>1. i \in DOMAIN c
    BY <1>1 DEF verification_find
  <2>2. PICK s \in {c[i].state, "unavailable", "pending"} :
           d = Append(RemoveAt(c, i), [c[i] EXCEPT !.who = who, !.state = s]) /\ (s = "unavailable" => c[i].state = "unavailable")
    BY <1>1 DEF verification_request
  <2> HIDE DEF i
  <2> DEFINE x == [c[i] EXCEPT !.who = who, !.state = s]
  <2>3. x \in Rows /\ x.state = s /\ x.key = c[i].key
    <3>1. c[i] \in Rows
      BY <1>0, <2>1
    <3>2. s \in {"pending", "hashing", "exact", "mismatch", "unavailable"}
      BY <3>1 DEF Rows
    <3> QED BY <3>1, <3>2 DEF Rows
  <2>31. d = Append(RemoveAt(c, i), x)
    BY <2>2
  <2> HIDE DEF x
  <2>4. d \in Seq(Rows) /\ RowMoved(c, i, x, d)
    BY <2>1, <2>3, <2>31, RowsMoved, Zenon
  <2>5. \A k \in DOMAIN d : \/ d[k].state \in {"pending", "unavailable"}
                            \/ \E j \in DOMAIN c : c[j].key = d[k].key /\ c[j].state = d[k].state
    BY <2>1, <2>2, <2>3, <2>4 DEF RowMoved
  <2>6. ASSUME \A k, l \in DOMAIN c : c[k].state = "hashing" /\ c[l].state = "hashing" => k = l,
               NEW k \in DOMAIN d, NEW l \in DOMAIN d, d[k].state = "hashing", d[l].state = "hashing"
        PROVE k = l
    <3>1. x.state = "hashing" => c[i].state = "hashing"
      BY <2>2, <2>3
    <3> QED BY <2>1, <2>4, <2>6, <3>1, MovedApart, Zenon
  <2> QED BY <2>4, <2>5, <2>6
<1>2. CASE verification_find(c, key) = {} /\ Len(c) < CacheSize
  <2>1. d = Append(c, New)
    BY <1>2 DEF verification_request
  <2> HIDE DEF New
  <2>2. /\ d \in Seq(Rows) /\ Len(d) = Len(c) + 1 /\ d[Len(c) + 1] = New /\ \A k \in 1 .. Len(c) : d[k] = c[k]
    BY <1>0, <2>1
  <2>3. \A k \in DOMAIN d : k = Len(c) + 1 \/ (k \in DOMAIN c /\ d[k] = c[k])
    BY <1>0, <2>2
  <2>4. New.state = "pending"
    BY DEF New
  <2> QED BY <2>2, <2>3, <2>4
<1>3. CASE verification_find(c, key) = {} /\ ~(Len(c) < CacheSize) /\ Evictable(c) # {}
  <2>1. d = Append(RemoveAt(c, Oldest(c)), New)
    BY <1>3 DEF verification_request
  <2>2. Oldest(c) \in DOMAIN c
    <3>1. Evictable(c) \subseteq Nat /\ Evictable(c) \subseteq DOMAIN c
      BY <1>0 DEF Evictable
    <3>2. \E i \in Evictable(c) : \A j \in Evictable(c) : i <= j
      BY <1>3, <3>1, LeastExists
    <3> QED BY <3>1, <3>2 DEF Oldest
  <2> DEFINE o == Oldest(c)
  <2>3. o \in DOMAIN c /\ d = Append(RemoveAt(c, o), New) /\ New \in Rows
    BY <1>0, <2>1, <2>2
  <2>31. New.state = "pending" /\ New.state # "hashing"
    BY DEF New
  <2> HIDE DEF o, New
  <2>4. d \in Seq(Rows) /\ RowMoved(c, o, New, d)
    BY <2>3, RowsMoved, Zenon
  <2>5. \A k \in DOMAIN d : \/ d[k].state \in {"pending", "unavailable"}
                            \/ \E j \in DOMAIN c : c[j].key = d[k].key /\ c[j].state = d[k].state
    BY <2>31, <2>4 DEF RowMoved
  <2>6. ASSUME \A k, l \in DOMAIN c : c[k].state = "hashing" /\ c[l].state = "hashing" => k = l,
               NEW k \in DOMAIN d, NEW l \in DOMAIN d, d[k].state = "hashing", d[l].state = "hashing"
        PROVE k = l
    BY <2>3, <2>31, <2>4, <2>6, MovedApart, Zenon
  <2> QED BY <2>4, <2>5, <2>6
<1>4. CASE verification_find(c, key) = {} /\ ~(Len(c) < CacheSize) /\ Evictable(c) = {}
  <2>1. d = c
    BY <1>4 DEF verification_request
  <2> QED BY <2>1
<1> QED BY <1>1, <1>2, <1>3, <1>4

\* A verdict is a row's.
LEMMA SyncedVerdicts ==
  ASSUME NEW e \in Epochs, NEW c \in Seq(Rows), \A i \in DOMAIN c : Agrees(c[i].key, c[i].state)
  PROVE /\ Synced(e, c) \in Epochs /\ Synced(e, c).key = e.key /\ Synced(e, c).who = e.who
        /\ Agrees(Synced(e, c).key, Synced(e, c).verdict)
<1> DEFINE row == verification_find(c, e.key)
           i == CHOOSE k \in row : TRUE
           v == IF e.key = NoKey \/ row = {} THEN "unavailable"
                ELSE IF c[i].state = "hashing" THEN "pending" ELSE c[i].state
<1>1. Synced(e, c) = [e EXCEPT !.verdict = v]
  BY DEF Synced
<1>2. CASE e.key = NoKey \/ row = {}
  BY <1>1, <1>2 DEF Epochs, Verdicts, Agrees
<1>3. CASE ~(e.key = NoKey \/ row = {})
  <2>1. i \in DOMAIN c /\ c[i].key = e.key
    BY <1>3 DEF verification_find
  <2>2. Agrees(e.key, c[i].state) /\ c[i].state \in {"pending", "hashing", "exact", "mismatch", "unavailable"}
    <3>1. c[i] \in Rows
      BY <2>1
    <3>2. Agrees(c[i].key, c[i].state)
      BY <2>1
    <3> QED BY <2>1, <3>1, <3>2 DEF Rows
  <2>3. v \in Verdicts /\ Agrees(e.key, v)
    BY <1>3, <2>2 DEF Verdicts, Agrees
  <2> HIDE DEF v
  <2>4. [e EXCEPT !.verdict = v] \in Epochs /\ [e EXCEPT !.verdict = v].key = e.key
        /\ [e EXCEPT !.verdict = v].who = e.who /\ [e EXCEPT !.verdict = v].verdict = v
    BY <2>3 DEF Epochs
  <2> QED BY <1>1, <2>3, <2>4
<1> QED BY <1>2, <1>3

\* process_exe_key names what that process has run, and runs now.
LEMMA KeyOfProcess ==
  ASSUME ExecutableKinds, Executed, NEW who \in Processes, process_exe_key(who) # NoKey
  PROVE /\ who.pid \in Running /\ procs[who.pid].file \in Files
        /\ process_exe_key(who) = KeyOf(procs[who.pid].file)
        /\ process_exe_key(who) \in Keys /\ RanIt(who, process_exe_key(who))
<1>1. /\ who.pid \in Running /\ procs[who.pid].start = who.start
      /\ process_exe_key(who) = KeyOf(procs[who.pid].file)
  BY DEF process_exe_key
<1>2. who.pid \in Pids /\ procs[who.pid].file \in Files
  BY <1>1 DEF Running, ExecutableKinds
<1>3. KeyOf(procs[who.pid].file) \in Keys
  BY <1>2, KeysOfFiles
<1>4. who = [pid |-> who.pid, start |-> procs[who.pid].start]
  BY <1>1 DEF Processes
<1>5. RanIt(who, KeyOf(procs[who.pid].file))
  BY <1>1, <1>4 DEF Executed, ProcessesRan, EpochsRan
<1> QED BY <1>1, <1>2, <1>3, <1>5

LEMMA ExecutableStarts == ExecutableInit => ExecutableInv
<1> SUFFICES ASSUME ExecutableInit PROVE ExecutableInv
  OBVIOUS
<1>1. DOMAIN epochs = {} /\ DOMAIN cache = {} /\ DOMAIN ran = {} /\ In("hashing") = {}
  BY DEF ExecutableInit, In
<1>2. ExecutableKinds
  <2>1. procs \in [Pids -> [file : Files \cup {NoFile}, start : 0 .. Starts]]
    BY ExecutableAssumption DEF ExecutableInit
  <2>2. version \in [Files -> 1 .. Versions] /\ genuine \subseteq Keys
    BY ExecutableAssumption DEF ExecutableInit
  <2>3. ran \in Seq(SUBSET Keys) /\ Len(ran) <= Starts
    BY ExecutableAssumption DEF ExecutableInit
  <2>4. loop \in {"scan", "compare", "add", "refresh", "step"} /\ seen \in Processes
    BY ExecutableAssumption DEF ExecutableInit, Nobody, Processes
  <2>5. epochs \in Seq(Epochs) /\ cache \in Seq(Rows)
    BY DEF ExecutableInit
  <2>6. hash \in [file : Files \cup {NoFile}, read : SUBSET Keys, portions : 0 .. Portions]
    BY ExecutableAssumption DEF ExecutableInit, NoHash
  <2> QED BY <2>1, <2>2, <2>3, <2>4, <2>5, <2>6 DEF ExecutableKinds
<1>3. Executed
  <2>1. Running = {}
    BY DEF ExecutableInit, Running
  <2> QED BY <1>1, <2>1 DEF Executed, ProcessesRan, EpochsRan
<1>4. Judged /\ Hashed
  BY <1>1 DEF Judged, Hashed
<1> QED BY <1>2, <1>3, <1>4 DEF ExecutableInv

-------------------------------------------------------------------------------
(* Processes and files.                                                          *)

\* What a process has run stays run.
LEMMA StillRan ==
  ASSUME ExecutableKinds, Executed, epochs' = epochs,
         \A s \in DOMAIN ran : s \in DOMAIN ran' /\ ran[s] \subseteq ran'[s]
  PROVE EpochsRan'
<1> SUFFICES ASSUME NEW i \in DOMAIN epochs, epochs[i].key # NoKey
             PROVE RanIt(epochs[i].who, epochs[i].key)'
  BY Zenon DEF EpochsRan
<1>1. RanIt(epochs[i].who, epochs[i].key)
  BY DEF Executed, ProcessesRan, EpochsRan
<1> QED BY <1>1 DEF RanIt

LEMMA JudgedStill ==
  ASSUME Judged, UNCHANGED <<genuine, cache, epochs>>
  PROVE Judged'
BY DEF Judged, Agrees

LEMMA HashedStill ==
  ASSUME Hashed, UNCHANGED <<version, cache, hash>>
  PROVE Hashed'
BY DEF Hashed, Between, In

LEMMA StartKeeps ==
  ASSUME ExecutableInv, NEW p \in Pids, NEW f \in Files, Start(p, f)
  PROVE ExecutableInv'
<1>0. ExecutableKinds /\ Executed /\ Judged /\ Hashed
  BY DEF ExecutableInv
<1>1. /\ UNCHANGED <<version, genuine, loop, seen, epochs, cache, hash>>
      /\ ran' = Append(ran, {KeyOf(f)}) /\ Len(ran) < Starts
      /\ procs' = [procs EXCEPT ![p] = [file |-> f, start |-> Len(ran) + 1]]
  BY DEF Start, Changed, collector, Clock
<1>2. KeyOf(f) \in Keys
  BY <1>0, KeysOfFiles
<1>3. ran \in Seq(SUBSET Keys) /\ Len(ran) \in Nat /\ Starts \in Nat
  BY <1>0, ExecutableAssumption DEF ExecutableKinds
<1>4. /\ ran' \in Seq(SUBSET Keys) /\ Len(ran') = Len(ran) + 1 /\ Len(ran') <= Starts
      /\ \A s \in 1 .. Len(ran) : ran'[s] = ran[s]
      /\ ran'[Len(ran) + 1] = {KeyOf(f)}
  BY <1>1, <1>2, <1>3
<1>5. \A s \in DOMAIN ran : s \in DOMAIN ran' /\ ran[s] \subseteq ran'[s]
  BY <1>3, <1>4
<1>6. ExecutableKinds'
  <2>1. procs' \in [Pids -> [file : Files \cup {NoFile}, start : 0 .. Starts]]
    <3>1. Len(ran) + 1 \in 0 .. Starts
      BY <1>1, <1>3
    <3>2. [file |-> f, start |-> Len(ran) + 1] \in [file : Files \cup {NoFile}, start : 0 .. Starts]
      BY <3>1
    <3> QED BY <1>0, <1>1, <3>2 DEF ExecutableKinds
  <2> QED BY <1>0, <1>1, <1>4, <2>1 DEF ExecutableKinds
<1>7. Executed'
  <2>1. ASSUME NEW q \in Running' PROVE RanIt([pid |-> q, start |-> procs[q].start], KeyOf(procs[q].file))'
    <3>1. CASE q = p
      <4>1. procs'[q] = [file |-> f, start |-> Len(ran) + 1]
        BY <1>0, <1>1, <3>1 DEF ExecutableKinds
      <4>2. KeyOf(procs[q].file)' = KeyOf(f)
        BY <1>1, <4>1 DEF KeyOf
      <4>3. Len(ran) + 1 \in DOMAIN ran' /\ KeyOf(f) \in ran'[Len(ran) + 1]
        BY <1>3, <1>4
      <4> QED BY <4>1, <4>2, <4>3 DEF RanIt
    <3>2. CASE q # p
      <4>1. procs'[q] = procs[q] /\ q \in Running
        BY <1>0, <1>1, <3>2 DEF ExecutableKinds, Running
      <4>2. KeyOf(procs[q].file)' = KeyOf(procs[q].file)
        BY <1>1, <4>1 DEF KeyOf
      <4>3. RanIt([pid |-> q, start |-> procs[q].start], KeyOf(procs[q].file))
        BY <1>0, <4>1 DEF Executed, ProcessesRan, EpochsRan
      <4> QED BY <1>5, <4>1, <4>2, <4>3 DEF RanIt
    <3> QED BY <3>1, <3>2
  <2> QED BY <1>0, <1>1, <1>5, <2>1, StillRan DEF Executed, ProcessesRan
<1>8. Judged' /\ Hashed'
  BY <1>0, <1>1, JudgedStill, HashedStill
<1> QED BY <1>6, <1>7, <1>8 DEF ExecutableInv

LEMMA ExecKeeps ==
  ASSUME ExecutableInv, NEW p \in Pids, NEW f \in Files, Exec(p, f)
  PROVE ExecutableInv'
<1>0. ExecutableKinds /\ Executed /\ Judged /\ Hashed
  BY DEF ExecutableInv
<1> DEFINE t == procs[p].start
<1>1. /\ UNCHANGED <<version, genuine, loop, seen, epochs, cache, hash>> /\ p \in Running
      /\ ran' = [ran EXCEPT ![t] = @ \cup {KeyOf(f)}]
      /\ procs' = [procs EXCEPT ![p].file = f]
  BY DEF Exec, Changed, collector
<1>2. KeyOf(f) \in Keys
  BY <1>0, KeysOfFiles
<1>3. ran \in Seq(SUBSET Keys) /\ t \in DOMAIN ran /\ ran[t] \subseteq Keys
  BY <1>0, <1>1 DEF ExecutableKinds, Executed, ProcessesRan, EpochsRan, RanIt
<1> HIDE DEF t
<1>4. /\ ran' \in Seq(SUBSET Keys) /\ Len(ran') = Len(ran) /\ DOMAIN ran' = DOMAIN ran
      /\ \A s \in DOMAIN ran : ran[s] \subseteq ran'[s]
      /\ KeyOf(f) \in ran'[t]
  <2>1. ran[t] \cup {KeyOf(f)} \in SUBSET Keys
    BY <1>2, <1>3
  <2> QED BY <1>1, <1>3, <2>1
<1>5. \A s \in DOMAIN ran : s \in DOMAIN ran' /\ ran[s] \subseteq ran'[s]
  BY <1>4
<1>51. procs'[p].file = f /\ procs'[p].start = t /\ \A q \in Pids : q # p => procs'[q] = procs[q]
  BY <1>0, <1>1 DEF ExecutableKinds, t
<1>6. ExecutableKinds'
  <2>1. procs' \in [Pids -> [file : Files \cup {NoFile}, start : 0 .. Starts]]
    BY <1>0, <1>1 DEF ExecutableKinds
  <2> QED BY <1>0, <1>1, <1>4, <2>1 DEF ExecutableKinds
<1>7. Executed'
  <2>1. ASSUME NEW q \in Running' PROVE RanIt([pid |-> q, start |-> procs[q].start], KeyOf(procs[q].file))'
    <3>1. CASE q = p
      <4>2. KeyOf(procs[q].file)' = KeyOf(f)
        BY <1>1, <1>51, <3>1 DEF KeyOf
      <4> QED BY <1>3, <1>4, <1>51, <3>1, <4>2 DEF RanIt
    <3>2. CASE q # p
      <4>1. procs'[q] = procs[q] /\ q \in Running
        BY <1>51, <3>2 DEF Running
      <4>2. KeyOf(procs[q].file)' = KeyOf(procs[q].file)
        BY <1>1, <4>1 DEF KeyOf
      <4>3. RanIt([pid |-> q, start |-> procs[q].start], KeyOf(procs[q].file))
        BY <1>0, <4>1 DEF Executed, ProcessesRan, EpochsRan
      <4> QED BY <1>5, <4>1, <4>2, <4>3 DEF RanIt
    <3> QED BY <3>1, <3>2
  <2> QED BY <1>0, <1>1, <1>5, <2>1, StillRan DEF Executed, ProcessesRan
<1>8. Judged' /\ Hashed'
  BY <1>0, <1>1, JudgedStill, HashedStill
<1> QED BY <1>6, <1>7, <1>8 DEF ExecutableInv

LEMMA ExitProcessKeeps ==
  ASSUME ExecutableInv, NEW p \in Pids, ExitProcess(p)
  PROVE ExecutableInv'
<1>0. ExecutableKinds /\ Executed /\ Judged /\ Hashed
  BY DEF ExecutableInv
<1>1. /\ UNCHANGED <<version, genuine, ran, loop, seen, epochs, cache, hash>>
      /\ procs' = [procs EXCEPT ![p].file = NoFile]
  BY DEF ExitProcess, Changed, collector
<1>2. procs'[p].file = NoFile /\ \A q \in Pids : q # p => procs'[q] = procs[q]
  BY <1>0, <1>1 DEF ExecutableKinds
<1>3. ExecutableKinds'
  <2>1. procs' \in [Pids -> [file : Files \cup {NoFile}, start : 0 .. Starts]]
    BY <1>0, <1>1 DEF ExecutableKinds
  <2> QED BY <1>0, <1>1, <2>1 DEF ExecutableKinds
<1>4. Executed'
  <2>1. ASSUME NEW q \in Running' PROVE RanIt([pid |-> q, start |-> procs[q].start], KeyOf(procs[q].file))'
    <3>1. procs'[q] = procs[q] /\ q \in Running
      BY <1>2 DEF Running
    <3>2. KeyOf(procs[q].file)' = KeyOf(procs[q].file)
      BY <1>1, <3>1 DEF KeyOf
    <3> QED BY <1>0, <1>1, <3>1, <3>2 DEF Executed, ProcessesRan, EpochsRan, RanIt
  <2> QED BY <1>0, <1>1, <2>1, StillRan DEF Executed, ProcessesRan
<1>5. Judged' /\ Hashed'
  BY <1>0, <1>1, JudgedStill, HashedStill
<1> QED BY <1>3, <1>4, <1>5 DEF ExecutableInv

LEMMA RewriteKeeps ==
  ASSUME ExecutableInv, NEW f \in Files, Rewrite(f)
  PROVE ExecutableInv'
<1>0. ExecutableKinds /\ Executed /\ Judged /\ Hashed
  BY DEF ExecutableInv
<1>1. /\ UNCHANGED <<procs, genuine, ran, loop, seen, epochs, cache, hash>>
      /\ \A p \in Pids : procs[p].file # f
      /\ version[f] < Versions /\ version' = [version EXCEPT ![f] = @ + 1]
  BY DEF Rewrite, Changed, collector
<1>2. version \in [Files -> 1 .. Versions] /\ Versions \in Nat
  BY <1>0, ExecutableAssumption DEF ExecutableKinds
<1>3. /\ version' \in [Files -> 1 .. Versions]
      /\ \A g \in Files : version[g] <= version'[g] /\ (g # f => version'[g] = version[g])
  BY <1>1, <1>2
<1>4. ExecutableKinds'
  BY <1>0, <1>1, <1>3 DEF ExecutableKinds
<1>5. Executed'
  <2>1. ASSUME NEW q \in Running' PROVE RanIt([pid |-> q, start |-> procs[q].start], KeyOf(procs[q].file))'
    <3>1. q \in Running /\ procs'[q] = procs[q] /\ procs[q].file \in Files /\ procs[q].file # f
      BY <1>0, <1>1 DEF Running, ExecutableKinds
    <3>2. KeyOf(procs[q].file)' = KeyOf(procs[q].file)
      BY <1>3, <3>1 DEF KeyOf
    <3> QED BY <1>0, <1>1, <3>1, <3>2 DEF Executed, ProcessesRan, EpochsRan, RanIt
  <2> QED BY <1>0, <1>1, <2>1, StillRan DEF Executed, ProcessesRan
<1>6. Judged'
  BY <1>0, <1>1, JudgedStill
<1>7. Hashed'
  <2>1. In("hashing")' = In("hashing") /\ cache' = cache /\ hash' = hash
    BY <1>1 DEF In
  <2>2. ASSUME NEW i \in In("hashing"), NEW k \in Keys, Between(k, cache[i].key)
        PROVE Between(k, cache[i].key)'
    <3>1. cache[i].key \in Keys
      <4>1. cache[i] \in Rows
        BY <1>0 DEF In, ExecutableKinds
      <4> QED BY <4>1 DEF Rows
    <3>2. cache[i].key[1] \in Files /\ k[2] \in Nat
      BY <3>1 DEF Keys
    <3>3. version[cache[i].key[1]] <= version'[cache[i].key[1]]
      BY <1>3, <3>2
    <3>4. version[cache[i].key[1]] \in Nat /\ version'[cache[i].key[1]] \in Nat
      BY <1>2, <1>3, <3>2
    <3> QED BY <1>1, <2>2, <3>2, <3>3, <3>4 DEF Between
  <2>3. \A i \in In("hashing") : cache[i].key \in Keys
    <3>1. \A i \in In("hashing") : cache[i] \in Rows
      BY <1>0 DEF In, ExecutableKinds
    <3> QED BY <3>1 DEF Rows
  <2>4. hash.read \subseteq Keys
    BY <1>0 DEF ExecutableKinds
  <2> QED BY <1>0, <2>1, <2>2, <2>3, <2>4 DEF Hashed
<1> QED BY <1>4, <1>5, <1>6, <1>7 DEF ExecutableInv

-------------------------------------------------------------------------------
(* The steps of a scan.                                                          *)

\* The collector leaves processes and files as they are.
BesideLoop == UNCHANGED <<procs, version, genuine, ran>>

\* Epochs whose verdicts are read again from the rows.
LEMMA ExecutedStill ==
  ASSUME Executed, BesideLoop, EpochsRan'
  PROVE Executed'
<1>1. ProcessesRan'
  BY DEF Executed, ProcessesRan, BesideLoop, Running, KeyOf, RanIt
<1> QED BY <1>1 DEF Executed

LEMMA FindMpcKeeps ==
  ASSUME ExecutableInv, FindMpc
  PROVE ExecutableInv'
<1>0. ExecutableKinds /\ Executed /\ Judged /\ Hashed
  BY DEF ExecutableInv
<1>1. /\ UNCHANGED <<procs, version, genuine, ran, epochs, cache, hash>>
      /\ loop' \in {"scan", "compare", "add", "refresh", "step"}
  BY DEF FindMpc
<1>2. seen' \in Processes
  <2>1. CASE Cardinality(Running) = 1
    <3> DEFINE p == CHOOSE q \in Running : TRUE
    <3>1. Running # {}
      BY <2>1, FS_EmptySet
    <3>2. p \in Running /\ seen' = [pid |-> p, start |-> procs[p].start]
      BY <2>1, <3>1 DEF FindMpc
    <3> HIDE DEF p
    <3>3. p \in Pids /\ procs[p].start \in 0 .. Starts
      BY <1>0, <3>2 DEF Running, ExecutableKinds
    <3> QED BY <3>2, <3>3 DEF Processes
  <2>2. CASE Cardinality(Running) # 1
    BY <2>2, ExecutableAssumption DEF FindMpc, Nobody, Processes
  <2> QED BY <2>1, <2>2
<1>3. ExecutableKinds'
  BY <1>0, <1>1, <1>2 DEF ExecutableKinds
<1>4. Executed'
  BY <1>0, <1>1 DEF Executed, ProcessesRan, EpochsRan, Running, KeyOf, RanIt
<1>5. Judged' /\ Hashed'
  BY <1>0, <1>1, JudgedStill, HashedStill
<1> QED BY <1>3, <1>4, <1>5 DEF ExecutableInv

LEMMA CompareKeyKeeps ==
  ASSUME ExecutableInv, CompareKey
  PROVE ExecutableInv'
<1>0. ExecutableKinds /\ Executed /\ Judged /\ Hashed
  BY DEF ExecutableInv
<1>1. /\ UNCHANGED <<procs, version, genuine, ran, seen, epochs, cache, hash>>
      /\ loop' \in {"scan", "compare", "add", "refresh", "step"}
  BY DEF CompareKey
<1>2. ExecutableKinds'
  BY <1>0, <1>1 DEF ExecutableKinds
<1>3. Executed'
  BY <1>0, <1>1 DEF Executed, ProcessesRan, EpochsRan, Running, KeyOf, RanIt
<1>4. Judged' /\ Hashed'
  BY <1>0, <1>1, JudgedStill, HashedStill
<1> QED BY <1>2, <1>3, <1>4 DEF ExecutableInv

\* The rows a request leaves keep what the rows before it had.
RowsAgree(c) == \A i \in DOMAIN c : Agrees(c[i].key, c[i].state)
OneDigest(c) == \A i, j \in DOMAIN c : c[i].state = "hashing" /\ c[j].state = "hashing" => i = j
RowsKeep(d) == /\ d \in Seq(Rows) /\ RowsAgree(d) /\ OneDigest(d)
               /\ \A k \in DOMAIN d : d[k].state = "hashing" =>
                      \E i \in DOMAIN cache : cache[i].key = d[k].key /\ cache[i].state = "hashing"
LEMMA RequestsKeep ==
  ASSUME ExecutableInv, NEW key \in Keys, NEW who \in Processes,
         NEW d \in verification_request(cache, key, who)
  PROVE RowsKeep(d)
<1>1. cache \in Seq(Rows) /\ RowsAgree(cache) /\ OneDigest(cache)
  BY DEF ExecutableInv, ExecutableKinds, Judged, RowsAgree, Hashed, OneDigest, In
<1>2. /\ d \in Seq(Rows)
      /\ \A k \in DOMAIN d : \/ d[k].state \in {"pending", "unavailable"}
                             \/ \E i \in DOMAIN cache : cache[i].key = d[k].key /\ cache[i].state = d[k].state
  BY <1>1, RequestsKeepRows
<1>3. OneDigest(d)
  BY <1>1, RequestsKeepRows DEF OneDigest
<1>4. RowsAgree(d)
  BY <1>1, <1>2 DEF RowsAgree, Agrees
<1> QED BY <1>2, <1>3, <1>4 DEF RowsKeep

\* With the digest in progress the one it was.
LEMMA HashedAgain ==
  ASSUME Hashed, RowsKeep(cache'), UNCHANGED <<version, hash>>
  PROVE Hashed'
<1>1. \A i, j \in In("hashing")' : i = j
  BY DEF RowsKeep, OneDigest, In
<1>2. ASSUME NEW k \in In("hashing")'
      PROVE (/\ hash.file = cache[k].key[1]
             /\ Between(cache[k].key, cache[k].key)
             /\ \A r \in hash.read : Between(r, cache[k].key)
             /\ hash.portions # 0 => hash.read # {})'
  <2>1. PICK i \in DOMAIN cache : cache[i].key = cache'[k].key /\ cache[i].state = "hashing"
    BY <1>2 DEF RowsKeep, In
  <2>2. i \in In("hashing")
    BY <2>1 DEF In
  <2> QED BY <2>1, <2>2 DEF Hashed, Between
<1> QED BY <1>1, <1>2 DEF Hashed

\* Epochs of processes that ran their keys, with verdicts that are true.
EpochKept(e) == /\ e \in Epochs /\ Agrees(e.key, e.verdict)
                /\ e.key # NoKey => RanIt(e.who, e.key)
LEMMA SyncedKeeps ==
  ASSUME NEW e \in Epochs, e.key # NoKey => RanIt(e.who, e.key), NEW c \in Seq(Rows), RowsAgree(c)
  PROVE EpochKept(Synced(e, c))
<1>1. /\ Synced(e, c) \in Epochs /\ Synced(e, c).key = e.key /\ Synced(e, c).who = e.who
      /\ Agrees(Synced(e, c).key, Synced(e, c).verdict)
  BY SyncedVerdicts DEF RowsAgree
<1> QED BY <1>1 DEF EpochKept

LEMMA EpochsAreKept ==
  ASSUME ExecutableInv
  PROVE epochs \in Seq(Epochs) /\ \A i \in DOMAIN epochs : EpochKept(epochs[i])
<1>1. epochs \in Seq(Epochs)
  BY DEF ExecutableInv, ExecutableKinds
<1> QED BY <1>1 DEF ExecutableInv, Executed, EpochsRan, Judged, EpochKept

\* What a step of the collector has to show.
LEMMA LoopKept ==
  ASSUME ExecutableInv, BesideLoop, RowsAgree(cache'), cache' \in Seq(Rows),
         epochs' \in Seq(Epochs), \A i \in DOMAIN epochs' : EpochKept(epochs'[i]),
         loop' \in {"scan", "compare", "add", "refresh", "step"}, seen' = seen,
         hash' \in [file : Files \cup {NoFile}, read : SUBSET Keys, portions : 0 .. Portions],
         Hashed'
  PROVE ExecutableInv'
<1>1. ExecutableKinds'
  BY DEF ExecutableInv, ExecutableKinds, BesideLoop
<1>2. EpochsRan'
  BY DEF EpochsRan, EpochKept, RanIt, BesideLoop
<1>3. Executed'
  BY <1>2, ExecutedStill DEF ExecutableInv
<1>4. Judged'
  BY DEF Judged, RowsAgree, EpochKept, Agrees, BesideLoop
<1> QED BY <1>1, <1>3, <1>4 DEF ExecutableInv

\* The rows as they are are rows that keep.
LEMMA RowsAsTheyAre ==
  ASSUME ExecutableInv
  PROVE RowsKeep(cache)
BY DEF ExecutableInv, ExecutableKinds, Judged, Hashed, In, RowsKeep, RowsAgree, OneDigest

LEMMA AddEpochKeeps ==
  ASSUME ExecutableInv, AddEpoch
  PROVE ExecutableInv'
<1> DEFINE key == process_exe_key(seen)
           kept == IF Len(epochs) = EpochsKept THEN Tail(epochs) ELSE epochs
           fresh == [who |-> seen, key |-> key, verdict |-> "unavailable"]
           e == Synced(fresh, cache')
<1>0. ExecutableKinds /\ Executed /\ Judged /\ Hashed /\ seen \in Processes
  BY DEF ExecutableInv, ExecutableKinds
<1>1. /\ UNCHANGED <<procs, version, genuine, ran, seen, hash>> /\ loop' = "refresh"
      /\ IF key = NoKey THEN UNCHANGED cache ELSE cache' \in verification_request(cache, key, seen)
      /\ epochs' = Append(kept, e)
  BY DEF AddEpoch
<1>2. key = NoKey \/ (key \in Keys /\ RanIt(seen, key))
  BY <1>0, KeyOfProcess
<1>3. fresh \in Epochs /\ fresh.key = key /\ fresh.who = seen
  BY <1>0, <1>2 DEF Epochs, Verdicts
<1>4. RowsKeep(cache')
  <2>1. CASE key = NoKey
    BY <1>1, <2>1, RowsAsTheyAre
  <2>2. CASE key # NoKey
    <3>1. key \in Keys /\ cache' \in verification_request(cache, key, seen)
      BY <1>1, <1>2, <2>2
    <3> HIDE DEF key
    <3> QED BY <1>0, <3>1, RequestsKeep
  <2> QED BY <2>1, <2>2
<1>5. EpochKept(e)
  <2>1. cache' \in Seq(Rows) /\ RowsAgree(cache')
    BY <1>4 DEF RowsKeep
  <2>2. fresh.key # NoKey => RanIt(fresh.who, fresh.key)
    BY <1>2, <1>3
  <2> HIDE DEF fresh
  <2> QED BY <1>3, <2>1, <2>2, SyncedKeeps
<1> HIDE DEF e, key, fresh
<1>6. epochs \in Seq(Epochs) /\ \A i \in DOMAIN epochs : EpochKept(epochs[i])
  BY EpochsAreKept
<1>7. kept \in Seq(Epochs) /\ \A i \in DOMAIN kept : EpochKept(kept[i])
  <2>1. CASE Len(epochs) = EpochsKept
    <3>1. epochs # <<>> /\ kept = Tail(epochs)
      BY <2>1, ExecutableAssumption
    <3>2. /\ Tail(epochs) \in Seq(Epochs)
          /\ \A i \in DOMAIN Tail(epochs) : i + 1 \in DOMAIN epochs /\ Tail(epochs)[i] = epochs[i + 1]
      BY <1>6, <3>1
    <3> QED BY <1>6, <3>1, <3>2
  <2>2. CASE Len(epochs) # EpochsKept
    BY <1>6, <2>2
  <2> QED BY <2>1, <2>2
<1> HIDE DEF kept
<1>8. epochs' \in Seq(Epochs) /\ \A i \in DOMAIN epochs' : EpochKept(epochs'[i])
  <2>1. e \in Epochs
    BY <1>5 DEF EpochKept
  <2>2. /\ epochs' \in Seq(Epochs)
        /\ \A i \in DOMAIN epochs' : epochs'[i] = e \/ (i \in DOMAIN kept /\ epochs'[i] = kept[i])
    BY <1>1, <1>7, <2>1
  <2> QED BY <1>5, <1>7, <2>2
<1>9. Hashed'
  BY <1>0, <1>1, <1>4, HashedAgain
<1>10. hash' \in [file : Files \cup {NoFile}, read : SUBSET Keys, portions : 0 .. Portions]
  BY <1>0, <1>1 DEF ExecutableKinds
<1> QED BY <1>1, <1>4, <1>8, <1>9, <1>10, LoopKept DEF BesideLoop, RowsKeep

LEMMA RefreshEpochKeeps ==
  ASSUME ExecutableInv, RefreshEpoch
  PROVE ExecutableInv'
<1> DEFINE n == Len(epochs)
<1>0. ExecutableKinds /\ Executed /\ Judged /\ Hashed /\ seen \in Processes
  BY DEF ExecutableInv, ExecutableKinds
<1>1. /\ UNCHANGED <<procs, version, genuine, ran, seen, hash>> /\ loop' = "step"
      /\ IF Tracked /\ Latest.key # NoKey THEN cache' \in verification_request(cache, Latest.key, seen)
         ELSE UNCHANGED cache
      /\ epochs' = IF Tracked THEN [epochs EXCEPT ![n] = Synced(epochs[n], cache')] ELSE epochs
  BY DEF RefreshEpoch
<1>2. epochs \in Seq(Epochs) /\ \A i \in DOMAIN epochs : EpochKept(epochs[i])
  BY EpochsAreKept
<1>3. Tracked => n \in DOMAIN epochs /\ Latest = epochs[n] /\ Latest \in Epochs
  BY <1>2 DEF Tracked, Latest, Last
<1>4. RowsKeep(cache')
  <2>1. CASE Tracked /\ Latest.key # NoKey
    <3>1. Latest.key \in Keys /\ cache' \in verification_request(cache, Latest.key, seen)
      BY <1>1, <1>3, <2>1 DEF Epochs
    <3> QED BY <1>0, <3>1, RequestsKeep
  <2>2. CASE ~(Tracked /\ Latest.key # NoKey)
    BY <1>1, <2>2, RowsAsTheyAre
  <2> QED BY <2>1, <2>2
<1> DEFINE e == Synced(epochs[n], cache')
<1>5. Tracked => EpochKept(e)
  <2> SUFFICES ASSUME Tracked PROVE EpochKept(e)
    OBVIOUS
  <2>1. cache' \in Seq(Rows) /\ RowsAgree(cache')
    BY <1>4 DEF RowsKeep
  <2>2. epochs[n] \in Epochs /\ (epochs[n].key # NoKey => RanIt(epochs[n].who, epochs[n].key))
    BY <1>2, <1>3 DEF EpochKept
  <2> HIDE DEF n
  <2> QED BY <2>1, <2>2, SyncedKeeps
<1> HIDE DEF e, n
<1>6. epochs' \in Seq(Epochs) /\ \A i \in DOMAIN epochs' : EpochKept(epochs'[i])
  <2>1. CASE Tracked
    <3>1. e \in Epochs /\ epochs' = [epochs EXCEPT ![n] = e] /\ n \in DOMAIN epochs
      BY <1>1, <1>3, <1>5, <2>1 DEF EpochKept, e
    <3>2. /\ epochs' \in Seq(Epochs) /\ DOMAIN epochs' = DOMAIN epochs
          /\ \A i \in DOMAIN epochs : epochs'[i] = IF i = n THEN e ELSE epochs[i]
      BY <1>2, <3>1
    <3> QED BY <1>2, <1>5, <2>1, <3>2
  <2>2. CASE ~Tracked
    BY <1>1, <1>2, <2>2
  <2> QED BY <2>1, <2>2
<1>7. Hashed'
  BY <1>0, <1>1, <1>4, HashedAgain
<1>8. hash' \in [file : Files \cup {NoFile}, read : SUBSET Keys, portions : 0 .. Portions]
  BY <1>0, <1>1 DEF ExecutableKinds
<1> QED BY <1>1, <1>4, <1>6, <1>7, <1>8, LoopKept DEF BesideLoop, RowsKeep

-------------------------------------------------------------------------------
(* The steps of a digest.                                                        *)

\* A row's state changes.
RowBecomes(i, s) ==
  /\ cache' \in Seq(Rows) /\ DOMAIN cache' = DOMAIN cache
  /\ \A k \in DOMAIN cache : /\ cache'[k].key = cache[k].key
                             /\ cache'[k].state = IF k = i THEN s ELSE cache[k].state
LEMMA StatesReplaced ==
  ASSUME cache \in Seq(Rows), NEW i \in DOMAIN cache,
         NEW s \in {"pending", "hashing", "exact", "mismatch", "unavailable"}, Becomes(i, s)
  PROVE RowBecomes(i, s)
<1>1. cache' = [cache EXCEPT ![i] = [cache[i] EXCEPT !.state = s]]
  BY DEF Becomes
<1> DEFINE x == [cache[i] EXCEPT !.state = s]
<1>2. cache[i] \in Rows
  OBVIOUS
<1>3. x \in Rows /\ x.key = cache[i].key /\ x.state = s
  BY <1>2 DEF Rows
<1> HIDE DEF x
<1>4. /\ cache' \in Seq(Rows) /\ DOMAIN cache' = DOMAIN cache
      /\ \A k \in DOMAIN cache : cache'[k] = IF k = i THEN x ELSE cache[k]
  BY <1>1, <1>3 DEF x
<1> QED BY <1>3, <1>4 DEF RowBecomes

LEMMA AllSynced ==
  ASSUME ExecutableInv, SyncAll, cache' \in Seq(Rows), RowsAgree(cache')
  PROVE epochs' \in Seq(Epochs) /\ \A i \in DOMAIN epochs' : EpochKept(epochs'[i])
<1>1. epochs \in Seq(Epochs) /\ \A i \in DOMAIN epochs : EpochKept(epochs[i])
  BY EpochsAreKept
<1>2. epochs' = [i \in DOMAIN epochs |-> Synced(epochs[i], cache')]
  BY DEF SyncAll
<1>3. ASSUME NEW i \in DOMAIN epochs PROVE EpochKept(Synced(epochs[i], cache'))
  <2>1. epochs[i] \in Epochs /\ (epochs[i].key # NoKey => RanIt(epochs[i].who, epochs[i].key))
    BY <1>1 DEF EpochKept
  <2> QED BY <2>1, SyncedKeeps
<1>4. \A i \in DOMAIN epochs : Synced(epochs[i], cache') \in Epochs
  BY <1>3 DEF EpochKept
<1>5. epochs' \in Seq(Epochs)
  BY <1>1, <1>2, <1>4
<1> QED BY <1>2, <1>3, <1>5

LEMMA BeginsKeeps ==
  ASSUME ExecutableInv, Begins
  PROVE ExecutableInv'
<1> DEFINE i == CHOOSE k \in In("pending") : \A j \in In("pending") : j <= k
           who == cache[i].who
           file == procs[who.pid].file
<1>0. ExecutableKinds /\ Executed /\ Judged /\ Hashed /\ cache \in Seq(Rows)
  BY DEF ExecutableInv, ExecutableKinds
<1>1. /\ BesideLoop /\ seen' = seen /\ loop' \in {"scan", "compare", "add", "refresh", "step"}
      /\ In("hashing") = {} /\ In("pending") # {}
      /\ IF process_exe_key(who) # cache[i].key
         THEN Becomes(i, "unavailable") /\ SyncAll /\ UNCHANGED hash
         ELSE /\ Becomes(i, "hashing") /\ UNCHANGED epochs
              /\ hash' = [NoHash EXCEPT !.file = procs[who.pid].file]
  BY DEF Begins, Turn, BesideLoop
<1>2. i \in DOMAIN cache
  <2>1. DOMAIN cache = 1 .. Len(cache) /\ Len(cache) \in Nat
    BY <1>0
  <2>2. In("pending") \in SUBSET (0 .. Len(cache))
    BY <2>1 DEF In
  <2>3. \E k \in In("pending") : \A j \in In("pending") : j <= k
    BY <1>1, <2>1, <2>2, GreatestExists
  <2>4. i \in In("pending")
    BY <2>3
  <2> HIDE DEF i
  <2> QED BY <2>4 DEF In
<1>3. cache[i] \in Rows
  BY <1>0, <1>2
<1>4. who \in Processes /\ cache[i].key \in Keys
  BY <1>3 DEF Rows
<1>5. CASE process_exe_key(who) # cache[i].key
  <2>1. Becomes(i, "unavailable") /\ SyncAll /\ hash' = hash
    BY <1>1, <1>5
  <2> HIDE DEF i, who
  <2>2. RowBecomes(i, "unavailable")
    BY <1>0, <1>2, <2>1, StatesReplaced
  <2>3. cache' \in Seq(Rows) /\ RowsAgree(cache')
    BY <1>0, <2>2 DEF RowBecomes, RowsAgree, Judged, Agrees
  <2>4. epochs' \in Seq(Epochs) /\ \A k \in DOMAIN epochs' : EpochKept(epochs'[k])
    BY <2>1, <2>3, AllSynced
  <2>5. In("hashing")' = {}
    BY <1>1, <2>2 DEF RowBecomes, In
  <2>6. Hashed'
    BY <2>5 DEF Hashed
  <2>7. hash' \in [file : Files \cup {NoFile}, read : SUBSET Keys, portions : 0 .. Portions]
    BY <1>0, <2>1 DEF ExecutableKinds
  <2> QED BY <1>1, <2>3, <2>4, <2>6, <2>7, LoopKept
<1>6. CASE process_exe_key(who) = cache[i].key
  <2>1. Becomes(i, "hashing") /\ epochs' = epochs /\ hash' = [NoHash EXCEPT !.file = file]
    BY <1>1, <1>6
  <2>2. process_exe_key(who) # NoKey
    BY <1>4, <1>6, NoKeyIsNone
  <2> HIDE DEF i, who
  <2>3. PICK f \in Files : f = file /\ cache[i].key = KeyOf(f)
    BY <1>0, <1>4, <1>6, <2>2, KeyOfProcess
  <2>31. PICK m \in DOMAIN cache : m = i
    BY <1>2
  <2> HIDE DEF file
  <2>4. RowBecomes(m, "hashing")
    BY <1>0, <2>1, <2>31, StatesReplaced
  <2>5. cache' \in Seq(Rows) /\ RowsAgree(cache')
    BY <1>0, <2>4 DEF RowBecomes, RowsAgree, Judged, Agrees
  <2>6. epochs' \in Seq(Epochs) /\ \A k \in DOMAIN epochs' : EpochKept(epochs'[k])
    BY <2>1, EpochsAreKept
  <2>7. In("hashing")' \subseteq {m}
    BY <1>1, <2>4 DEF RowBecomes, In
  <2>8. hash'.file = f /\ hash'.read = {} /\ hash'.portions = 0
    BY <2>1, <2>3 DEF NoHash
  <2>9. cache'[m].key = KeyOf(f)
    BY <2>3, <2>31, <2>4 DEF RowBecomes
  <2>10. KeyOf(f)[1] = f /\ KeyOf(f)[2] = version[f] /\ version[f] \in Nat
    BY <1>0, <2>3, KeysOfFiles DEF ExecutableKinds
  <2>11. version' = version
    BY <1>1 DEF BesideLoop
  <2>12. Between(cache[m].key, cache[m].key)'
    BY <2>9, <2>10, <2>11 DEF Between
  <2>13. Hashed'
    BY <2>7, <2>8, <2>9, <2>10, <2>12 DEF Hashed
  <2>14. hash' \in [file : Files \cup {NoFile}, read : SUBSET Keys, portions : 0 .. Portions]
    <3>1. 0 \in 0 .. Portions
      BY ExecutableAssumption
    <3> QED BY <2>1, <2>3, <3>1 DEF NoHash
  <2> QED BY <1>1, <2>5, <2>6, <2>13, <2>14, LoopKept
<1> QED BY <1>5, <1>6

LEMMA RestsKeeps ==
  ASSUME ExecutableInv, Rests
  PROVE ExecutableInv'
<1>0. ExecutableKinds /\ Executed /\ Judged /\ Hashed
  BY DEF ExecutableInv
<1>1. /\ BesideLoop /\ seen' = seen /\ loop' \in {"scan", "compare", "add", "refresh", "step"}
      /\ UNCHANGED <<epochs, cache, hash>>
  BY DEF Rests, Turn, BesideLoop
<1>2. cache' \in Seq(Rows) /\ RowsAgree(cache')
  BY <1>0, <1>1 DEF ExecutableKinds, Judged, RowsAgree
<1>3. epochs' \in Seq(Epochs) /\ \A k \in DOMAIN epochs' : EpochKept(epochs'[k])
  BY <1>1, EpochsAreKept
<1>4. Hashed'
  BY <1>0, <1>1, HashedStill DEF BesideLoop
<1>5. hash' \in [file : Files \cup {NoFile}, read : SUBSET Keys, portions : 0 .. Portions]
  BY <1>0, <1>1 DEF ExecutableKinds
<1> QED BY <1>1, <1>2, <1>3, <1>4, <1>5, LoopKept

\* The row whose file is read.
LEMMA ActiveRow ==
  ASSUME ExecutableInv, In("hashing") # {}
  PROVE /\ Active \in DOMAIN cache /\ In("hashing") = {Active} /\ cache[Active].key \in Keys
        /\ hash.file \in Files /\ hash.file = cache[Active].key[1]
        /\ Between(cache[Active].key, cache[Active].key)
        /\ \A k \in hash.read : k \in Keys /\ Between(k, cache[Active].key)
        /\ hash.portions # 0 => hash.read # {}
<1>1. Active \in In("hashing")
  BY DEF Active
<1>2. Active \in DOMAIN cache /\ In("hashing") = {Active}
  BY <1>1 DEF In, ExecutableInv, Hashed
<1>3. cache[Active] \in Rows
  BY <1>2 DEF ExecutableInv, ExecutableKinds
<1>4. cache[Active].key \in Keys
  BY <1>3 DEF Rows
<1>5. cache[Active].key[1] \in Files
  BY <1>4 DEF Keys
<1>6. hash.read \subseteq Keys
  BY DEF ExecutableInv, ExecutableKinds
<1> QED BY <1>1, <1>2, <1>4, <1>5, <1>6 DEF ExecutableInv, Hashed

\* The digest in progress ends, with a verdict that is true.
LEMMA DigestEnds ==
  ASSUME ExecutableInv, BesideLoop, seen' = seen, loop' \in {"scan", "compare", "add", "refresh", "step"},
         In("hashing") # {}, SyncAll, hash' = NoHash,
         NEW s \in {"unavailable", "exact", "mismatch"}, Becomes(Active, s),
         Agrees(cache[Active].key, s)
  PROVE ExecutableInv'
<1>0. cache \in Seq(Rows) /\ Judged
  BY DEF ExecutableInv, ExecutableKinds
<1>1. Active \in DOMAIN cache /\ In("hashing") = {Active}
  BY ActiveRow
<1> DEFINE i == Active
<1>2. i \in DOMAIN cache /\ Becomes(i, s) /\ s \in {"pending", "hashing", "exact", "mismatch", "unavailable"}
  BY <1>1
<1>3. Agrees(cache[i].key, s) /\ In("hashing") = {i}
  BY <1>1
<1> HIDE DEF i
<1>4. RowBecomes(i, s)
  BY <1>0, <1>2, StatesReplaced
<1>5. cache' \in Seq(Rows) /\ RowsAgree(cache')
  BY <1>0, <1>3, <1>4 DEF RowBecomes, RowsAgree, Judged
<1>6. epochs' \in Seq(Epochs) /\ \A k \in DOMAIN epochs' : EpochKept(epochs'[k])
  BY <1>5, AllSynced
<1>7. In("hashing")' = {}
  BY <1>3, <1>4 DEF RowBecomes, In
<1>8. Hashed'
  BY <1>7 DEF Hashed
<1>9. hash' \in [file : Files \cup {NoFile}, read : SUBSET Keys, portions : 0 .. Portions]
  <2>1. 0 \in 0 .. Portions
    BY ExecutableAssumption
  <2> QED BY <2>1 DEF NoHash
<1> QED BY <1>5, <1>6, <1>8, <1>9, LoopKept

LEMMA ReadsKeeps ==
  ASSUME ExecutableInv, Reads
  PROVE ExecutableInv'
<1>0. ExecutableKinds /\ Executed /\ Judged /\ Hashed
  BY DEF ExecutableInv
<1>1. /\ BesideLoop /\ seen' = seen /\ loop' \in {"scan", "compare", "add", "refresh", "step"}
      /\ In("hashing") # {} /\ hash.portions < Portions
      /\ \/ /\ hash' = [hash EXCEPT !.portions = @ + 1, !.read = @ \cup {KeyOf(hash.file)}]
            /\ UNCHANGED <<epochs, cache>>
         \/ Becomes(Active, "unavailable") /\ SyncAll /\ hash' = NoHash
  BY DEF Reads, Turn, BesideLoop
<1>2. CASE /\ hash' = [hash EXCEPT !.portions = @ + 1, !.read = @ \cup {KeyOf(hash.file)}]
           /\ UNCHANGED <<epochs, cache>>
  <2>1. hash.file \in Files /\ KeyOf(hash.file) \in Keys
    BY <1>0, <1>1, ActiveRow, KeysOfFiles
  <2>2. /\ hash'.file = hash.file /\ hash'.portions = hash.portions + 1
        /\ hash'.read = hash.read \cup {KeyOf(hash.file)}
        /\ hash' \in [file : Files \cup {NoFile}, read : SUBSET Keys, portions : 0 .. Portions]
    <3>1. hash.portions + 1 \in 0 .. Portions
      BY <1>0, <1>1, ExecutableAssumption DEF ExecutableKinds
    <3>2. hash.read \cup {KeyOf(hash.file)} \in SUBSET Keys
      BY <1>0, <2>1 DEF ExecutableKinds
    <3> QED BY <1>0, <1>2, <3>1, <3>2 DEF ExecutableKinds
  <2>3. In("hashing") = {Active} /\ In("hashing")' = In("hashing") /\ cache' = cache
    BY <1>1, <1>2, ActiveRow DEF In
  <2>4. KeyOf(hash.file)[1] = hash.file /\ KeyOf(hash.file)[2] = version[hash.file]
        /\ version[hash.file] \in Nat
    BY <1>0, <2>1, KeysOfFiles DEF ExecutableKinds
  <2>5. Between(KeyOf(hash.file), cache[Active].key)
    <3>1. hash.file = cache[Active].key[1] /\ Between(cache[Active].key, cache[Active].key)
      BY <1>1, ActiveRow
    <3> QED BY <2>4, <3>1 DEF Between
  <2>6. version' = version
    BY <1>1 DEF BesideLoop
  <2>7. \A i, j \in In("hashing")' : i = j
    BY <2>3
  <2>8. ASSUME NEW i \in In("hashing")'
        PROVE (/\ hash.file = cache[i].key[1]
               /\ Between(cache[i].key, cache[i].key)
               /\ \A r \in hash.read : Between(r, cache[i].key)
               /\ hash.portions # 0 => hash.read # {})'
    <3>1. i = Active
      BY <2>3, <2>8
    <3> QED BY <1>1, <2>2, <2>3, <2>5, <2>6, <3>1, ActiveRow DEF Between
  <2>9. Hashed'
    BY <2>7, <2>8 DEF Hashed
  <2>10. cache' \in Seq(Rows) /\ RowsAgree(cache')
    BY <1>0, <1>2 DEF ExecutableKinds, Judged, RowsAgree
  <2>11. epochs' \in Seq(Epochs) /\ \A k \in DOMAIN epochs' : EpochKept(epochs'[k])
    BY <1>2, EpochsAreKept
  <2> QED BY <1>1, <2>2, <2>9, <2>10, <2>11, LoopKept
<1>3. CASE Becomes(Active, "unavailable") /\ SyncAll /\ hash' = NoHash
  <2>1. Agrees(cache[Active].key, "unavailable")
    BY DEF Agrees
  <2> QED BY <1>1, <1>3, <2>1, DigestEnds
<1> QED BY <1>1, <1>2, <1>3

\* What was read lies between the content asked for and the content now: when the
\* file is still the one asked for, all of it was.
LEMMA EndsKeeps ==
  ASSUME ExecutableInv, Ends
  PROVE ExecutableInv'
<1> DEFINE key == cache[Active].key
           s == IF KeyOf(hash.file) # key THEN "unavailable"
                ELSE IF hash.read \subseteq genuine THEN "exact" ELSE "mismatch"
<1>0. ExecutableKinds
  BY DEF ExecutableInv
<1>1. /\ BesideLoop /\ seen' = seen /\ loop' \in {"scan", "compare", "add", "refresh", "step"}
      /\ In("hashing") # {} /\ hash.portions = Portions /\ hash' = NoHash /\ SyncAll
      /\ Becomes(Active, s)
  BY DEF Ends, Turn, BesideLoop
<1>2. /\ key \in Keys /\ hash.file \in Files /\ hash.file = key[1] /\ Between(key, key)
      /\ \A k \in hash.read : k \in Keys /\ Between(k, key)
      /\ hash.portions # 0 => hash.read # {}
  BY <1>1, ActiveRow
<1>3. Agrees(key, s)
  <2> HIDE DEF key
  <2>1. CASE KeyOf(hash.file) # key
    BY <2>1 DEF Agrees
  <2>2. CASE KeyOf(hash.file) = key
    <3>1. key[2] = version[key[1]]
      BY <1>0, <1>2, <2>2, KeysOfFiles
    <3>2. ASSUME NEW k \in hash.read PROVE k = key
      <4>1. k[1] = key[1] /\ key[2] <= k[2] /\ k[2] <= key[2] /\ k \in Keys
        BY <1>2, <3>1 DEF Between
      <4>2. k[2] \in Nat /\ key[2] \in Nat
        BY <1>2, <4>1 DEF Keys
      <4>3. k[2] = key[2]
        BY <4>1, <4>2
      <4> QED BY <1>2, <4>1, <4>3 DEF Keys
    <3>3. hash.read = {key}
      BY <1>1, <1>2, <3>2, ExecutableAssumption
    <3>4. s = IF key \in genuine THEN "exact" ELSE "mismatch"
      BY <2>2, <3>3
    <3> QED BY <3>4 DEF Agrees
  <2> QED BY <2>1, <2>2
<1>4. s \in {"unavailable", "exact", "mismatch"}
  OBVIOUS
<1> HIDE DEF s
<1> QED BY <1>1, <1>3, <1>4, DigestEnds

LEMMA ExecutableHolds == ExecutableSpec => []ExecutableInv
<1>1. ASSUME ExecutableInv, [ExecutableNext]_executableVars PROVE ExecutableInv'
  <2>1. CASE \E p \in Pids, f \in Files : Start(p, f) \/ Exec(p, f)
    BY <1>1, <2>1, StartKeeps, ExecKeeps
  <2>2. CASE \E p \in Pids : ExitProcess(p)
    BY <1>1, <2>2, ExitProcessKeeps
  <2>3. CASE \E f \in Files : Rewrite(f)
    BY <1>1, <2>3, RewriteKeeps
  <2>4. CASE FindMpc
    BY <1>1, <2>4, FindMpcKeeps
  <2>5. CASE CompareKey
    BY <1>1, <2>5, CompareKeyKeeps
  <2>6. CASE AddEpoch
    BY <1>1, <2>6, AddEpochKeeps
  <2>7. CASE RefreshEpoch
    BY <1>1, <2>7, RefreshEpochKeeps
  <2>8. CASE Begins
    BY <1>1, <2>8, BeginsKeeps
  <2>9. CASE Rests
    BY <1>1, <2>9, RestsKeeps
  <2>10. CASE Reads
    BY <1>1, <2>10, ReadsKeeps
  <2>11. CASE Ends
    BY <1>1, <2>11, EndsKeeps
  <2>12. CASE UNCHANGED executableVars
    BY <1>1, <2>12 DEF executableVars, ExecutableInv, ExecutableKinds, Executed, ProcessesRan, EpochsRan,
       Running, KeyOf, RanIt, Judged, Agrees, Hashed, Between, In
  <2> QED BY <1>1, <2>1, <2>2, <2>3, <2>4, <2>5, <2>6, <2>7, <2>8, <2>9, <2>10, <2>11, <2>12
        DEF ExecutableNext
<1> QED BY <1>1, ExecutableStarts, PTL DEF ExecutableSpec

LEMMA VerdictsFollow == ExecutableInv => VerdictsAreTrue
<1> SUFFICES ASSUME ExecutableInv, NEW e \in ToSet(epochs)
             PROVE /\ e.key # NoKey => e.key \in ran[e.who.start]
                   /\ e.verdict = "exact" => e.key \in genuine
                   /\ e.verdict = "mismatch" => e.key \notin genuine
  BY DEF VerdictsAreTrue
<1>1. PICK i \in DOMAIN epochs : e = epochs[i]
  BY DEF ToSet
<1> QED BY <1>1 DEF ExecutableInv, Executed, EpochsRan, RanIt, Judged, Agrees

-------------------------------------------------------------------------------
(* The six systems beside one another: whichever acts, the others stay where they *)
(* were, so each behaves as its own specification allows.                         *)

LEMMA PartsBegin ==
  ToolsInit => RingInit /\ AdapterInit /\ BuildInit /\ DriveInit /\ ExecutableInit
BY DEF ToolsInit

LEMMA PartsStep ==
  [ToolsNext]_toolVars => /\ [RingNext]_ringVars /\ [AdapterNext]_adapterVars /\ [BuildNext]_buildVars
                          /\ [DriveNext]_driveVars /\ [ExecutableNext]_executableVars
<1> SUFFICES ASSUME [ToolsNext]_toolVars
             PROVE /\ [RingNext]_ringVars /\ [AdapterNext]_adapterVars /\ [BuildNext]_buildVars
                   /\ [DriveNext]_driveVars /\ [ExecutableNext]_executableVars
  OBVIOUS
<1>1. CASE UNCHANGED toolVars
  BY <1>1 DEF toolVars
<1>2. CASE ToolsNext
  BY <1>2 DEF ToolsNext, Within
<1> QED BY <1>1, <1>2

LEMMA EachPartBehaves ==
  ToolsSpec => RingSpec /\ AdapterSpec /\ BuildSpec /\ DriveSpec /\ ExecutableSpec
BY PartsBegin, PartsStep, PTL DEF ToolsSpec, RingSpec, AdapterSpec, BuildSpec, DriveSpec, ExecutableSpec

\* "The finished image is checked before it is saved" (builder.go, patch.go, image.go):
\* an image the build reports is whole and what was asked for, and what stands under
\* the chosen name holds such a root even when the build then failed or was killed,
\* however the files changed between two reads.
THEOREM ImagesStayAsAsked == ToolsSpec => []ImagesAreAsAsked
<1>1. BuildInv => ImagesAreAsAsked
  BY DEF BuildInv
<1> QED BY <1>1, EachPartBehaves, BuildHolds, PTL

\* "do not forward queued events from an old source address or replay them after
\* reconnect" (adapter.c): what is forwarded came in over the subscription that stands
\* and after the order to arm, and an adapter with nothing left to read is subscribed
\* to the device it believes in.
THEOREM ControlsStayTrue == ToolsSpec => []ControlsArePassedOn
<1>1. AdapterInv => ControlsArePassedOn
  BY NoDeafness DEF AdapterInv, ControlsArePassedOn
<1> QED BY <1>1, EachPartBehaves, AdapterHolds, PTL

\* What the collector says: the report a pulled drive shows is whole and of this
\* capture, an epoch's verdict is true of an executable its process ran, and an
\* observation of the ring is printed whole and once (usb-diagnostics.c,
\* processor-instrumentation.inc, command-client.c).
THEOREM DiagnosticsStayTrue == ToolsSpec => []DiagnosticsAreTrue
<1>1. DriveInv /\ ExecutableInv => ReportsAreTrue /\ VerdictsAreTrue
  BY WholeReportsAreTrue, VerdictsFollow
<1> QED BY <1>1, EachPartBehaves, DriveHolds, ExecutableHolds, ObservationsStayTrue, PTL DEF DiagnosticsAreTrue
=============================================================================
