----------------------------- MODULE LabCatalog -----------------------------
(* scripts/lab_config.py: one reading of the lab catalog.  The index names   *)
(* every manifest with its digest; the reader takes the index, the source    *)
(* lock and then each manifest, one file at a time, while somebody may edit  *)
(* them.  A digest stands for the content it was computed from; names,       *)
(* numbers and lists that one rule fixes together are one value.             *)
EXTENDS Naturals, Sequences, FiniteSets

CONSTANTS
    Manifests,       \* the contents a manifest file may have
    Indexes,         \* the contents of the index
    Locks,           \* the build identities of the source lock
    Selections,      \* the --lab arguments, "default" for none
    MaxCatalogEdits  \* bound on the edits during a reading

ASSUME LabCatalogAssumption ==
    /\ MaxCatalogEdits \in Nat
    /\ \A i \in Indexes : i.labs \in Seq({i.labs[k] : k \in DOMAIN i.labs})

VARIABLES
    disk,     \* the index, the manifests by path and the lock's build
    changes,  \* the edits so far
    catalog   \* the reader

catalogVars == <<disk, changes, catalog>>

-----------------------------------------------------------------------------
(* PROFILE_RULES: what a preflight profile fixes of the other sections. *)
PROFILE_RULES == [pci |-> "pci-v3", platform |-> "platform-v1"]
DevelopmentDir(id) == <<"build-sdk", id>>

SoundBuildDir(dir) == dir[1] \in {"build", "build-sdk"}

(* validate_manifest, section by section. *)
SoundIdentity(m, id) == m.id = id /\ SoundBuildDir(m.buildDir) /\ Len(m.targets) = 1

SoundProfile(m) ==
    /\ m.profile \in DOMAIN PROFILE_RULES
    /\ m.runtime = PROFILE_RULES[m.profile]

SoundSupplyChain(m) ==
    /\ m.supplyProfile = "spdx3-image-v1"
    /\ m.required # {} /\ m.forbidden # {}
    /\ m.required \cap m.forbidden = {}

SoundDevelopment(m, id) ==
    /\ m.developmentDir = DevelopmentDir(id)
    /\ m.recipe = "sample"
    /\ m.recipe \in m.forbidden

ValidManifest(m, id) ==
    SoundIdentity(m, id) /\ SoundProfile(m) /\ SoundSupplyChain(m) /\ SoundDevelopment(m, id)

ValidIndex(index) ==
    /\ index.labs # <<>>
    /\ \A i, j \in DOMAIN index.labs :
          (index.labs[i].id = index.labs[j].id \/ index.labs[i].manifest = index.labs[j].manifest) => i = j
    /\ \E i \in DOMAIN index.labs : index.labs[i].id = index.default

(* default_build_parity_data *)
BuildParity(build, m) == build = [dir |-> m.buildDir, machine |-> m.machine, targets |-> m.targets]

-----------------------------------------------------------------------------
CatalogStep(pc) == catalog.pc = pc /\ UNCHANGED <<disk, changes>>
Set(next) == catalog' = next
Refused == Set([catalog EXCEPT !.pc = "refused"])

ReadIndex ==
    /\ CatalogStep("index")
    /\ IF ValidIndex(disk.index) THEN Set([catalog EXCEPT !.pc = "lock", !.index = disk.index]) ELSE Refused

ReadSourceLock ==
    /\ CatalogStep("lock")
    /\ \/ Set([catalog EXCEPT !.pc = "manifests", !.build = disk.lock])
       \/ Refused

Taken == DOMAIN catalog.manifests

(* A mutant: the development directory is not looked up among the others. *)
MutClashes(m) ==
    \/ m.buildDir \in catalog.dirs
    \/ m.developmentDir = m.buildDir
    \/ m.machine \in catalog.machines

Clashes(m) ==
    \/ m.buildDir \in catalog.dirs
    \/ m.developmentDir \in catalog.dirs \/ m.developmentDir = m.buildDir
    \/ m.machine \in catalog.machines

(* The loop of _catalog_from_index: the manifests in the index's order. *)
ReadManifest ==
    /\ CatalogStep("manifests")
    /\ Cardinality(Taken) < Len(catalog.index.labs)
    /\ LET entry == catalog.index.labs[Cardinality(Taken) + 1]
           m == disk.manifests[entry.manifest]
       IN  IF m # entry.sha256 \/ ~ValidManifest(m, entry.id) \/ Clashes(m) THEN Refused
           ELSE Set([catalog EXCEPT !.dirs = @ \cup {m.buildDir, m.developmentDir},
                                    !.machines = @ \cup {m.machine},
                                    !.manifests = [id \in Taken \cup {entry.id} |->
                                                      IF id = entry.id THEN m ELSE @[id]]])

FinishCatalog ==
    /\ CatalogStep("manifests")
    /\ Cardinality(Taken) = Len(catalog.index.labs)
    /\ IF BuildParity(catalog.build, catalog.manifests[catalog.index.default])
       THEN Set([catalog EXCEPT !.pc = "select"])
       ELSE Refused

(* select_lab: an unknown lab is refused, none selects the default. *)
SelectLab ==
    /\ CatalogStep("select")
    /\ \E wanted \in Selections :
          LET id == IF wanted = "default" THEN catalog.index.default ELSE wanted
          IN  IF id \in Taken THEN Set([catalog EXCEPT !.pc = "selected", !.selected = id]) ELSE Refused

(* Somebody edits the configuration, one file at a time. *)
EditConfiguration ==
    /\ changes < MaxCatalogEdits
    /\ catalog.pc \in {"lock", "manifests"}
    /\ changes' = changes + 1
    /\ \/ \E m \in Manifests, path \in DOMAIN disk.manifests : disk' = [disk EXCEPT !.manifests[path] = m]
       \/ \E i \in Indexes : disk' = [disk EXCEPT !.index = i]
       \/ \E l \in Locks : disk' = [disk EXCEPT !.lock = l]
    /\ UNCHANGED catalog

NoCatalog ==
    [pc |-> "index", index |-> [default |-> "none", labs |-> <<>>],
     build |-> [dir |-> <<>>, machine |-> "none", targets |-> <<>>],
     manifests |-> [id \in {} |-> 0], dirs |-> {}, machines |-> {}, selected |-> "none"]

CatalogInit ==
    /\ \E i \in Indexes, l \in Locks :
          \E files \in [{e.manifest : e \in {i.labs[k] : k \in DOMAIN i.labs}} -> Manifests] :
             /\ \A k \in DOMAIN i.labs : files[i.labs[k].manifest] = i.labs[k].sha256
             /\ disk = [index |-> i, manifests |-> files, lock |-> l]
    /\ changes = 0
    /\ catalog = NoCatalog

CatalogNext ==
    ReadIndex \/ ReadSourceLock \/ ReadManifest \/ FinishCatalog \/ SelectLab \/ EditConfiguration

CatalogSpec == CatalogInit /\ [][CatalogNext]_catalogVars

-----------------------------------------------------------------------------
(* An accepted catalog is the one its index names, whatever was edited while *)
(* it was read, and no two labs, and no image build and SDK build, share a   *)
(* machine or a build directory; so no build writes another one's output or  *)
(* evidence (docs/source-lock.md:83).                                        *)
CatalogSeparate ==
    catalog.pc = "selected" =>
        LET ids == Taken  labs == catalog.manifests
            dirs(id) == <<labs[id].buildDir, labs[id].developmentDir>>
        IN  /\ catalog.selected \in ids
            /\ \A k \in DOMAIN catalog.index.labs :
                  labs[catalog.index.labs[k].id] = catalog.index.labs[k].sha256
            /\ \A a, b \in ids, x, y \in {1, 2} : dirs(a)[x] = dirs(b)[y] => a = b /\ x = y
            /\ \A a, b \in ids : labs[a].machine = labs[b].machine => a = b
=============================================================================
