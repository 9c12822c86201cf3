-------------------------- MODULE LabCatalogProofs --------------------------
(* An accepted catalog is the one its index names, and its labs share        *)
(* nothing, for any manifests and indexes and any edits while it is read.    *)
EXTENDS LabCatalog, FiniteSetTheorems, TLAPS

CatalogFields == {"pc", "index", "build", "manifests", "dirs", "machines", "selected"}
DiskFields == {"index", "manifests", "lock"}

Reading == {"lock", "manifests", "select", "selected"}

IndexInv ==
    /\ DOMAIN disk = DiskFields /\ disk.index \in Indexes
    /\ DOMAIN catalog = CatalogFields
    /\ catalog.pc \in Reading => catalog.index \in Indexes /\ ValidIndex(catalog.index)
    /\ catalog.pc \in {"index", "lock"} => Taken = {}

(* The first n manifests of the index are taken, each as the index names it. *)
TakenFirst(n) ==
    /\ n \in Nat /\ n <= Len(catalog.index.labs)
    /\ Taken = {catalog.index.labs[k].id : k \in 1..n}
    /\ \A k \in 1..n : catalog.manifests[catalog.index.labs[k].id] = catalog.index.labs[k].sha256

TakenInv ==
    /\ IsFiniteSet(Taken)
    /\ catalog.pc \in Reading => TakenFirst(Cardinality(Taken))
    /\ catalog.pc \in {"select", "selected"} => Cardinality(Taken) = Len(catalog.index.labs)
    /\ catalog.pc = "selected" => catalog.selected \in Taken

(* What is taken is remembered in dirs and machines, and shares nothing.     *)
Apart(manifests) ==
    \A a, b \in DOMAIN manifests :
       LET m == manifests[a]  o == manifests[b] IN
       /\ m.buildDir # o.developmentDir
       /\ a # b => /\ m.buildDir # o.buildDir /\ m.developmentDir # o.developmentDir
                   /\ m.machine # o.machine

SeparateInv ==
    /\ \A a \in Taken : /\ {catalog.manifests[a].buildDir, catalog.manifests[a].developmentDir} \subseteq catalog.dirs
                        /\ catalog.manifests[a].machine \in catalog.machines
    /\ Apart(catalog.manifests)

CatalogInv == IndexInv /\ TakenInv /\ SeparateInv

-----------------------------------------------------------------------------
(* At first nothing is taken. *)
LEMMA CatalogInitially == CatalogInit => CatalogInv
<1> SUFFICES ASSUME CatalogInit PROVE CatalogInv
  OBVIOUS
<1>1. DOMAIN disk = DiskFields /\ disk.index \in Indexes
  BY DEF CatalogInit, DiskFields
<1>2. DOMAIN catalog = CatalogFields /\ catalog.pc = "index" /\ Taken = {}
  BY DEF CatalogInit, NoCatalog, CatalogFields, Taken
<1>3. IsFiniteSet({})
  BY FS_EmptySet
<1> QED
  BY <1>1, <1>2, <1>3
  DEF CatalogInv, IndexInv, TakenInv, SeparateInv, Apart, Reading, Taken

(* A step that leaves what is taken alone and goes no further than it may.   *)
LEMMA CatalogKeeps ==
  ASSUME CatalogInv, UNCHANGED disk,
         DOMAIN catalog' = CatalogFields,
         catalog'.manifests = catalog.manifests, catalog'.dirs = catalog.dirs,
         catalog'.machines = catalog.machines,
         \/ catalog'.pc = "refused"
         \/ /\ catalog'.pc \in Reading \ {"lock"} /\ catalog.pc \in Reading
            /\ catalog'.index = catalog.index
            /\ catalog'.pc \in {"select", "selected"} => Cardinality(Taken) = Len(catalog.index.labs)
            /\ catalog'.pc = "selected" => catalog'.selected \in Taken
  PROVE  CatalogInv'
<1>1. Taken' = Taken /\ SeparateInv'
  BY DEF CatalogInv, SeparateInv, Taken
<1>2. IndexInv'
  BY DEF CatalogInv, IndexInv, Reading, Taken
<1>3. TakenInv'
  <2>1. CASE catalog'.pc = "refused"
    BY <1>1, <2>1 DEF CatalogInv, TakenInv, Reading
  <2>2. CASE catalog'.pc \in Reading \ {"lock"} /\ catalog.pc \in Reading
    <3>1. catalog'.index = catalog.index
      BY <2>2 DEF Reading
    <3>2. TakenFirst(Cardinality(Taken))'
      BY <1>1, <2>2, <3>1 DEF CatalogInv, TakenInv, TakenFirst
    <3> QED
      BY <1>1, <2>2, <3>1, <3>2 DEF CatalogInv, TakenInv, Reading
  <2> QED
    BY <2>1, <2>2
<1> QED
  BY <1>1, <1>2, <1>3 DEF CatalogInv

(* The index is taken only when it is valid, and before any manifest. *)
LEMMA IndexTaken == CatalogInv /\ ReadIndex => CatalogInv'
<1> SUFFICES ASSUME CatalogInv, ReadIndex PROVE CatalogInv'
  OBVIOUS
<1> USE DEF CatalogStep, Set
<1>1. CASE ValidIndex(disk.index)
  <2>1. /\ DOMAIN catalog' = CatalogFields /\ catalog'.pc = "lock" /\ catalog'.index = disk.index
        /\ catalog'.manifests = catalog.manifests /\ UNCHANGED disk
    BY <1>1 DEF ReadIndex, CatalogInv, IndexInv, CatalogFields
  <2>2. Taken' = {} /\ Taken = {}
    BY <2>1 DEF ReadIndex, CatalogInv, IndexInv, Taken
  <2>3. catalog'.index \in Indexes /\ ValidIndex(catalog.index)'
    BY <1>1, <2>1 DEF CatalogInv, IndexInv
  <2>4. Cardinality({}) = 0 /\ IsFiniteSet({})
    BY FS_EmptySet
  <2>5. Len(catalog'.index.labs) \in Nat
    BY <2>3, LabCatalogAssumption
  <2>6. TakenFirst(0)'
    BY <2>2, <2>5 DEF TakenFirst
  <2> QED
    BY <2>1, <2>2, <2>3, <2>4, <2>6
    DEF CatalogInv, IndexInv, TakenInv, SeparateInv, Apart, Reading, Taken
<1>2. CASE ~ValidIndex(disk.index)
  <2>1. /\ DOMAIN catalog' = CatalogFields /\ catalog'.pc = "refused" /\ UNCHANGED disk
        /\ catalog'.manifests = catalog.manifests /\ catalog'.dirs = catalog.dirs
        /\ catalog'.machines = catalog.machines
    BY <1>2 DEF ReadIndex, Refused, CatalogInv, IndexInv, CatalogFields
  <2> QED
    BY <2>1, CatalogKeeps
<1> QED
  BY <1>1, <1>2

(* A manifest that is taken is the next of the index, new, as the index      *)
(* names it, and clashes with none before.                                   *)
LEMMA ManifestTaken == CatalogInv /\ ReadManifest => CatalogInv'
<1> SUFFICES ASSUME CatalogInv, ReadManifest PROVE CatalogInv'
  OBVIOUS
<1> DEFINE n == Cardinality(Taken)
           labs == catalog.index.labs
           entry == labs[n + 1]
           m == disk.manifests[entry.manifest]
<1>1. catalog.pc = "manifests" /\ UNCHANGED disk /\ n < Len(labs)
  BY DEF ReadManifest, CatalogStep
<1>2. CASE m # entry.sha256 \/ ~ValidManifest(m, entry.id) \/ Clashes(m)
  <2>1. Refused
    BY <1>2 DEF ReadManifest
  <2>2. /\ DOMAIN catalog' = CatalogFields /\ catalog'.pc = "refused"
        /\ catalog'.manifests = catalog.manifests /\ catalog'.dirs = catalog.dirs
        /\ catalog'.machines = catalog.machines
    BY <2>1 DEF Refused, Set, CatalogInv, IndexInv, CatalogFields
  <2> QED
    BY <1>1, <2>2, CatalogKeeps
<1>3. CASE ~(m # entry.sha256 \/ ~ValidManifest(m, entry.id) \/ Clashes(m))
  <2> DEFINE new == [id \in Taken \cup {entry.id} |-> IF id = entry.id THEN m ELSE catalog.manifests[id]]
  <2>1. catalog' = [catalog EXCEPT !.dirs = catalog.dirs \cup {m.buildDir, m.developmentDir},
                                   !.machines = catalog.machines \cup {m.machine},
                                   !.manifests = new]
    BY <1>3 DEF ReadManifest, Set
  <2>2. /\ DOMAIN catalog' = CatalogFields /\ catalog'.pc = "manifests" /\ catalog'.index = catalog.index
        /\ catalog'.dirs = catalog.dirs \cup {m.buildDir, m.developmentDir}
        /\ catalog'.machines = catalog.machines \cup {m.machine}
        /\ catalog'.manifests = new
    <3> HIDE DEF m, new
    <3> QED
      BY <1>1, <2>1 DEF CatalogInv, IndexInv, CatalogFields
  <2>3. Taken' = Taken \cup {entry.id}
    BY <2>2 DEF Taken
  <2>4. catalog.index \in Indexes /\ ValidIndex(catalog.index) /\ TakenFirst(n) /\ IsFiniteSet(Taken)
    BY <1>1 DEF CatalogInv, IndexInv, TakenInv, Reading
  <2>5. n \in Nat /\ Len(labs) \in Nat /\ DOMAIN labs = 1..Len(labs)
    BY <2>4, LabCatalogAssumption DEF TakenFirst
  <2>6. n + 1 \in DOMAIN labs /\ n + 1 \notin 1..n /\ \A k \in 1..n : k \in DOMAIN labs
    BY <1>1, <2>5
  <2>7. entry.id \notin Taken
    BY <2>4, <2>6 DEF TakenFirst, ValidIndex
  <2>8. IsFiniteSet(Taken') /\ Cardinality(Taken') = n + 1
    BY <2>3, <2>4, <2>7, FS_AddElement
  <2>9. TakenFirst(Cardinality(Taken))'
    <3>1. n + 1 \in Nat /\ n + 1 <= Len(labs)
      BY <1>1, <2>5
    <3>2. 1..(n + 1) = (1..n) \cup {n + 1}
      BY <2>5
    <3>3. Taken' = {labs[k].id : k \in 1..(n + 1)}
      BY <2>3, <2>4, <3>2 DEF TakenFirst
    <3>4. \A k \in 1..(n + 1) : new[labs[k].id] = labs[k].sha256
      <4>1. new[entry.id] = entry.sha256
        BY <1>3
      <4>2. ASSUME NEW k \in 1..n PROVE new[labs[k].id] = labs[k].sha256
        BY <2>4, <2>7, <4>2 DEF TakenFirst
      <4> QED
        BY <3>2, <4>1, <4>2
    <3>5. \A c : c = n + 1 =>
             /\ c \in Nat /\ c <= Len(labs)
             /\ Taken' = {labs[k].id : k \in 1..c}
             /\ \A k \in 1..c : new[labs[k].id] = labs[k].sha256
      BY <3>1, <3>3, <3>4
    <3> HIDE DEF n, new
    <3> QED
      BY <2>2, <2>8, <3>5 DEF TakenFirst
  <2>10. SeparateInv'
    <3>1. ~(m.buildDir \in catalog.dirs) /\ ~(m.developmentDir \in catalog.dirs)
          /\ m.developmentDir # m.buildDir /\ ~(m.machine \in catalog.machines)
      BY <1>3 DEF Clashes
    <3>2. new[entry.id] = m /\ \A a \in Taken : a # entry.id /\ new[a] = catalog.manifests[a]
      BY <2>7
    <3>3. DOMAIN new = Taken \cup {entry.id}
      OBVIOUS
    <3>4. /\ \A a \in Taken : /\ {new[a].buildDir, new[a].developmentDir} \subseteq catalog.dirs
                              /\ new[a].machine \in catalog.machines
          /\ \A a, b \in Taken :
                /\ new[a].buildDir # new[b].developmentDir
                /\ a # b => /\ new[a].buildDir # new[b].buildDir
                            /\ new[a].developmentDir # new[b].developmentDir
                            /\ new[a].machine # new[b].machine
      BY <3>2 DEF CatalogInv, SeparateInv, Apart, Taken
    <3> HIDE DEF new, m, entry
    <3>5. Apart(new)
      BY <3>1, <3>2, <3>3, <3>4 DEF Apart
    <3> QED
      BY <2>2, <2>3, <3>2, <3>4, <3>5 DEF SeparateInv, Apart
  <2>11. IndexInv'
    BY <1>1, <2>2, <2>4 DEF CatalogInv, IndexInv, Reading
  <2>12. TakenInv'
    BY <2>2, <2>8, <2>9 DEF TakenInv, Reading
  <2> QED
    BY <2>10, <2>11, <2>12 DEF CatalogInv
<1> QED
  BY <1>2, <1>3

(* The lock, the end of the loop and the selection take nothing. *)
LEMMA RestKeeps ==
  ASSUME CatalogInv, ReadSourceLock \/ FinishCatalog \/ SelectLab PROVE CatalogInv'
<1> USE DEF CatalogStep, Set, Refused
<1>1. CASE ReadSourceLock
  <2>1. /\ catalog.pc = "lock" /\ UNCHANGED disk
        /\ DOMAIN catalog' = CatalogFields /\ catalog'.index = catalog.index
        /\ catalog'.pc \in {"manifests", "refused"}
        /\ catalog'.manifests = catalog.manifests /\ catalog'.dirs = catalog.dirs
        /\ catalog'.machines = catalog.machines
    BY <1>1 DEF ReadSourceLock, CatalogInv, IndexInv, CatalogFields
  <2> QED
    BY <2>1, CatalogKeeps DEF Reading
<1>2. CASE FinishCatalog
  <2>1. /\ catalog.pc = "manifests" /\ UNCHANGED disk /\ Cardinality(Taken) = Len(catalog.index.labs)
        /\ DOMAIN catalog' = CatalogFields /\ catalog'.index = catalog.index
        /\ catalog'.pc \in {"select", "refused"}
        /\ catalog'.manifests = catalog.manifests /\ catalog'.dirs = catalog.dirs
        /\ catalog'.machines = catalog.machines
    BY <1>2 DEF FinishCatalog, CatalogInv, IndexInv, CatalogFields
  <2> QED
    BY <2>1, CatalogKeeps DEF Reading
<1>3. CASE SelectLab
  <2>1. PICK id : IF id \in Taken THEN catalog' = [catalog EXCEPT !.pc = "selected", !.selected = id]
                  ELSE catalog' = [catalog EXCEPT !.pc = "refused"]
    BY <1>3 DEF SelectLab
  <2>2. /\ catalog.pc = "select" /\ UNCHANGED disk
        /\ DOMAIN catalog' = CatalogFields /\ catalog'.index = catalog.index
        /\ \/ catalog'.pc = "refused"
           \/ catalog'.pc = "selected" /\ catalog'.selected \in Taken
        /\ catalog'.manifests = catalog.manifests /\ catalog'.dirs = catalog.dirs
        /\ catalog'.machines = catalog.machines
    BY <1>3, <2>1 DEF SelectLab, CatalogInv, IndexInv, CatalogFields
  <2>3. Cardinality(Taken) = Len(catalog.index.labs)
    BY <2>2 DEF CatalogInv, TakenInv
  <2> QED
    BY <2>2, <2>3, CatalogKeeps DEF Reading
<1> QED
  BY <1>1, <1>2, <1>3

(* An edit changes the disk, whose index stays one of those there may be.    *)
LEMMA EditKeeps == CatalogInv /\ EditConfiguration => CatalogInv'
<1> SUFFICES ASSUME CatalogInv, EditConfiguration PROVE CatalogInv'
  OBVIOUS
<1>1. UNCHANGED catalog
  BY DEF EditConfiguration
<1>2. DOMAIN disk' = DiskFields /\ disk'.index \in Indexes
  <2>1. DOMAIN disk = DiskFields /\ disk.index \in Indexes
    BY DEF CatalogInv, IndexInv
  <2>2. CASE \E m \in Manifests, path \in DOMAIN disk.manifests : disk' = [disk EXCEPT !.manifests[path] = m]
    BY <2>1, <2>2 DEF DiskFields
  <2>3. CASE \E i \in Indexes : disk' = [disk EXCEPT !.index = i]
    BY <2>1, <2>3 DEF DiskFields
  <2>4. CASE \E l \in Locks : disk' = [disk EXCEPT !.lock = l]
    BY <2>1, <2>4 DEF DiskFields
  <2> QED
    BY <2>2, <2>3, <2>4 DEF EditConfiguration
<1> QED
  BY <1>1, <1>2 DEF CatalogInv, IndexInv, TakenInv, TakenFirst, SeparateInv, Taken

(* The invariant behind LabsSeparate: what is taken is a beginning of the    *)
(* index, as the index names it, and no two of it share anything.            *)
THEOREM CatalogSafety == CatalogSpec => []CatalogInv
<1>1. CatalogInv /\ [CatalogNext]_catalogVars => CatalogInv'
  <2> SUFFICES ASSUME CatalogInv, [CatalogNext]_catalogVars PROVE CatalogInv'
    OBVIOUS
  <2>1. CASE UNCHANGED catalogVars
    BY <2>1 DEF catalogVars, CatalogInv, IndexInv, TakenInv, TakenFirst, SeparateInv, Taken
  <2> QED
    BY <2>1, IndexTaken, ManifestTaken, RestKeeps, EditKeeps DEF CatalogNext
<1> QED
  BY CatalogInitially, <1>1, PTL DEF CatalogSpec

(* The labs of an accepted catalog are those its index names, and no two of  *)
(* them, and no image build and SDK build, share a directory or a machine.   *)
THEOREM LabsSeparate == CatalogSpec => []CatalogSeparate
<1>1. CatalogInv => CatalogSeparate
  <2> SUFFICES ASSUME CatalogInv, catalog.pc = "selected" PROVE CatalogSeparate
    BY DEF CatalogSeparate
  <2> DEFINE labs == catalog.manifests
             dirs(id) == <<labs[id].buildDir, labs[id].developmentDir>>
  <2>1. catalog.selected \in Taken
    BY DEF CatalogInv, TakenInv
  <2>2. catalog.index \in Indexes /\ TakenFirst(Len(catalog.index.labs))
    BY DEF CatalogInv, IndexInv, TakenInv, Reading
  <2>3. \A k \in DOMAIN catalog.index.labs :
           labs[catalog.index.labs[k].id] = catalog.index.labs[k].sha256
    <3>1. DOMAIN catalog.index.labs = 1..Len(catalog.index.labs)
      BY <2>2, LabCatalogAssumption
    <3> QED
      BY <2>2, <3>1 DEF TakenFirst
  <2>4. Apart(labs)
    BY DEF CatalogInv, SeparateInv
  <2>5. ASSUME NEW a \in Taken, NEW b \in Taken, NEW x \in {1, 2}, NEW y \in {1, 2}, dirs(a)[x] = dirs(b)[y]
        PROVE  a = b /\ x = y
    <3>1. /\ labs[a].buildDir # labs[b].developmentDir /\ labs[b].buildDir # labs[a].developmentDir
          /\ a # b => labs[a].buildDir # labs[b].buildDir /\ labs[a].developmentDir # labs[b].developmentDir
      BY <2>4 DEF Apart, Taken
    <3>2. /\ dirs(a)[1] = labs[a].buildDir /\ dirs(a)[2] = labs[a].developmentDir
          /\ dirs(b)[1] = labs[b].buildDir /\ dirs(b)[2] = labs[b].developmentDir
      OBVIOUS
    <3> HIDE DEF dirs, labs
    <3> QED
      BY <2>5, <3>1, <3>2
  <2>6. \A a, b \in Taken : labs[a].machine = labs[b].machine => a = b
    BY <2>4 DEF Apart, Taken
  <2> QED
    BY <2>1, <2>3, <2>5, <2>6 DEF CatalogSeparate
<1> QED
  BY CatalogSafety, <1>1, PTL
=============================================================================
