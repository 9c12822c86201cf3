-------------------------- MODULE DiagnosticsProofs --------------------------
(* A read returns one whole content of one regular file, for any limit, any  *)
(* number of inodes and any changes; a call of a tool that has returned has  *)
(* left nothing behind, for any limit of the output and any amount the tool  *)
(* writes; the document of a run is valid and its exit status 0 is earned,   *)
(* for any labs, sources, build files and evidence, whatever changes between *)
(* two checks.                                                               *)
EXTENDS Diagnostics, SafeRead, ToolInvoke, SequenceTheorems, FiniteSetTheorems, TLAPS

(* A file that is read, SafeRead.                                            *)

FileType == [bytes : Seq(Nat), mtime : Nat]

ReadTypeOK ==
    /\ clock \in Nat
    /\ path \in [kind : NoFileKind \cup {"file"}, inode : Inode]
    /\ file \in [Inode -> FileType]
    /\ reader \in [pc : {"resolve", "inspect", "reparse", "open", "stat", "read", "more", "compare",
                         "returned", "contract", "unavailable", "raised"},
                   kind : NoFileKind \cup {"file"}, before : Inode, fd : Inode,
                   opened : [inode : Inode, size : Nat, mtime : Nat], raw : Seq(Nat)]

(* Every change has stamped its file with the time it was made. *)
ClockInv ==
    /\ \A i \in Inode : file[i].mtime <= clock
    /\ path.kind = "file" => path.inode # Outside

Opening == {"resolve", "inspect", "reparse", "open"}
Comparing == {"read", "more", "compare"}

(* While the file still has the time stamp fstat saw, it has the bytes it    *)
(* had then, and what has been read is their beginning.                      *)
PrefixInv ==
    /\ reader.pc \in Opening \cup {"stat"} => reader.raw = <<>>
    /\ reader.pc \in Holding => reader.fd # Outside
    /\ reader.pc \in Comparing =>
          /\ reader.opened.mtime <= clock
          /\ file[reader.fd].mtime = reader.opened.mtime =>
                /\ Len(reader.raw) <= Len(file[reader.fd].bytes)
                /\ \A k \in 1..Len(reader.raw) : reader.raw[k] = file[reader.fd].bytes[k]

ReadInv == ReadTypeOK /\ ClockInv /\ PrefixInv

(* Nothing has been opened or read at first. *)
LEMMA ReadInitially == ReadInit => ReadInv
<1> SUFFICES ASSUME ReadInit PROVE ReadInv
  OBVIOUS
<1>1. <<0, 0>> \in Seq(Nat) /\ <<>> \in Seq(Nat)
  OBVIOUS
<1>2. reader.pc = "resolve" /\ reader.raw = <<>>
  BY DEF ReadInit
<1>3. ReadTypeOK
  BY <1>1, SafeReadAssumption DEF ReadInit, ReadTypeOK, FileType, NoStat, NoFileKind
<1>4. ClockInv
  BY DEF ReadInit, ClockInv, NoFileKind
<1> QED
  BY <1>2, <1>3, <1>4 DEF ReadInv, PrefixInv, Opening, Holding, Comparing

(* A change of one file gives it a later time stamp than any before, so what *)
(* the reader knows of a file with the old stamp stays true.                 *)
LEMMA StampedChange ==
  ASSUME ReadInv, UNCHANGED reader, clock' = clock + 1,
         NEW i \in Inode, NEW bytes \in Seq(Nat),
         file' = [file EXCEPT ![i] = [bytes |-> bytes, mtime |-> clock']],
         path' \in [kind : NoFileKind \cup {"file"}, inode : Inode],
         path'.kind = "file" => path'.inode # Outside
  PROVE  ReadInv'
<1> USE DEF ReadInv, FileType
<1>1. file' \in [Inode -> FileType] /\ clock' \in Nat
  <2>1. clock \in Nat /\ clock' \in Nat
    <3>1. clock \in Nat
      BY DEF ReadTypeOK
    <3> QED
      BY <3>1
  <2>2. [bytes |-> bytes, mtime |-> clock'] \in FileType
    BY <2>1
  <2> QED
    BY <2>1, <2>2 DEF ReadTypeOK
<1>2. \A j \in Inode : file'[j].mtime <= clock' /\ (file'[j] = file[j] \/ file'[j].mtime = clock')
  <2> SUFFICES ASSUME NEW j \in Inode
               PROVE  file'[j].mtime <= clock' /\ (file'[j] = file[j] \/ file'[j].mtime = clock')
    OBVIOUS
  <2>1. clock \in Nat /\ file[j].mtime \in Nat /\ file[j].mtime <= clock /\ file \in [Inode -> FileType]
    BY DEF ReadTypeOK, ClockInv
  <2>2. CASE j = i
    <3>1. file'[j] = [bytes |-> bytes, mtime |-> clock']
      BY <2>1, <2>2
    <3>2. file'[j].mtime = clock'
      BY <3>1
    <3> QED
      BY <2>1, <3>2
  <2>3. CASE j # i
    <3>1. file'[j] = file[j]
      BY <2>1, <2>3
    <3> QED
      BY <2>1, <3>1
  <2> QED
    BY <2>2, <2>3
<1>3. ReadTypeOK' /\ ClockInv'
  BY <1>1, <1>2 DEF ReadTypeOK, ClockInv
<1>4. ASSUME reader.pc \in Comparing
      PROVE  /\ reader.opened.mtime <= clock'
             /\ file'[reader.fd].mtime = reader.opened.mtime => file'[reader.fd] = file[reader.fd]
  <2>1. reader.opened.mtime <= clock
    BY <1>4 DEF PrefixInv
  <2>2. reader.opened.mtime \in Nat /\ reader.fd \in Inode /\ clock \in Nat
    BY DEF ReadTypeOK
  <2>3. file'[reader.fd] = file[reader.fd] \/ file'[reader.fd].mtime = clock'
    BY <1>2, <2>2
  <2>4. clock' # reader.opened.mtime /\ reader.opened.mtime <= clock'
    BY <2>1, <2>2
  <2> QED
    BY <2>3, <2>4
<1>5. PrefixInv'
  BY <1>4 DEF PrefixInv, Opening, Holding, Comparing
<1> QED
  BY <1>3, <1>5

(* The rest of the world keeps the invariant. *)
LEMMA WorldKeepsRead ==
  ASSUME ReadInv, WriteInPlace \/ ReplaceFile \/ ReplaceName PROVE ReadInv'
<1>1. CASE WriteInPlace
  <2>1. PICK i \in InUse :
          \E new \in {<<>>, Append(file[i].bytes, clock')}
                       \cup {[file[i].bytes EXCEPT ![k] = clock'] : k \in DOMAIN file[i].bytes} :
             file' = [file EXCEPT ![i] = [bytes |-> new, mtime |-> clock']]
    BY <1>1 DEF WriteInPlace
  <2>2. i \in Inode
    BY SafeReadAssumption DEF InUse, ReadInv, ReadTypeOK
  <2>3. clock' = clock + 1 /\ clock' \in Nat /\ UNCHANGED <<reader, path>>
    BY <1>1 DEF WriteInPlace, Changing, ReadInv, ReadTypeOK
  <2>4. file[i].bytes \in Seq(Nat)
    BY <2>2 DEF ReadInv, ReadTypeOK, FileType
  <2>5. PICK new \in {<<>>, Append(file[i].bytes, clock')}
                       \cup {[file[i].bytes EXCEPT ![k] = clock'] : k \in DOMAIN file[i].bytes} :
             file' = [file EXCEPT ![i] = [bytes |-> new, mtime |-> clock']]
    BY <2>1
  <2>6. new \in Seq(Nat)
    <3>1. <<>> \in Seq(Nat) /\ Append(file[i].bytes, clock') \in Seq(Nat)
      BY <2>3, <2>4
    <3>2. \A k \in DOMAIN file[i].bytes : [file[i].bytes EXCEPT ![k] = clock'] \in Seq(Nat)
      BY <2>3, <2>4
    <3> QED
      BY <2>5, <3>1, <3>2
  <2> QED
    BY StampedChange, <2>2, <2>3, <2>5, <2>6 DEF ReadInv, ReadTypeOK, ClockInv
<1>2. CASE ReplaceFile
  <2>1. PICK i \in Inode \ InUse, size \in 0..Maximum :
          /\ path' = [kind |-> "file", inode |-> i]
          /\ file' = [file EXCEPT ![i] = [bytes |-> [k \in 1..size |-> clock'], mtime |-> clock']]
    BY <1>2 DEF ReplaceFile
  <2>2. clock' = clock + 1 /\ clock' \in Nat /\ UNCHANGED reader
    BY <1>2 DEF ReplaceFile, Changing, ReadInv, ReadTypeOK
  <2>3. size \in Nat
    BY <2>1, SafeReadAssumption
  <2>4. [k \in 1..size |-> clock'] \in Seq(Nat)
    BY <2>2, <2>3
  <2>5. i \in Inode /\ i # Outside
    BY <2>1 DEF InUse
  <2> QED
    BY StampedChange, <2>1, <2>2, <2>4, <2>5
<1>3. CASE ReplaceName
  <2>1. UNCHANGED <<file, reader>> /\ clock' = clock + 1
    BY <1>3 DEF ReplaceName, Changing
  <2>2. PICK kind \in NoFileKind : path' = [kind |-> kind, inode |-> Outside]
    BY <1>3 DEF ReplaceName
  <2>3. ReadTypeOK'
    BY <2>1, <2>2, SafeReadAssumption DEF ReadInv, ReadTypeOK, NoFileKind
  <2>4. \A i \in Inode : file[i].mtime \in Nat /\ file[i].mtime <= clock
    BY DEF ReadInv, ReadTypeOK, ClockInv, FileType
  <2>5. clock \in Nat /\ reader.opened.mtime \in Nat
    BY DEF ReadInv, ReadTypeOK
  <2>6. ClockInv'
    BY <2>1, <2>2, <2>4, <2>5 DEF ClockInv, NoFileKind
  <2>7. PrefixInv'
    BY <2>1, <2>5 DEF ReadInv, PrefixInv, Opening, Holding, Comparing
  <2> QED
    BY <2>3, <2>6, <2>7 DEF ReadInv
<1> QED
  BY <1>1, <1>2, <1>3

(* Each step of the reader keeps the invariant: it opens what it inspected,  *)
(* and appends the byte that follows those it has.                           *)
LEMMA ReaderKeepsRead ==
  ASSUME ReadInv,
         Resolve \/ Inspect \/ Reparse \/ Open \/ StatOpened \/ ReadUnit \/ ReadMore \/ Compare \/ ReadError
  PROVE  ReadInv'
<1> USE DEF ReadInv, At, Reading, Refuse
<1>1. CASE Resolve \/ Inspect \/ Reparse
  <2>1. ReadTypeOK'
    <3>1. CASE Resolve
      BY <3>1 DEF Resolve, ReadTypeOK
    <3>2. CASE Inspect
      <4>1. path.kind \in {"absent", "link", "loop", "directory", "file"} /\ path.inode \in Inode
        BY DEF ReadTypeOK, NoFileKind
      <4>2. \/ reader' = [reader EXCEPT !.pc = "unavailable"]
            \/ reader' = [reader EXCEPT !.pc = "contract"]
            \/ reader' = [reader EXCEPT !.pc = "reparse", !.kind = path.kind, !.before = path.inode]
        BY <3>2, <4>1 DEF Inspect
      <4>3. UNCHANGED <<path, file, clock>>
        BY <3>2, <4>1 DEF Inspect
      <4> QED
        BY <4>1, <4>2, <4>3 DEF ReadTypeOK, NoFileKind
    <3>3. CASE Reparse
      BY <3>3 DEF Reparse, ReadTypeOK
    <3> QED
      BY <1>1, <3>1, <3>2, <3>3
  <2>2. /\ UNCHANGED <<path, file, clock>> /\ reader.pc \in Opening
        /\ reader'.pc \in {"unavailable", "contract", "raised"} \cup Opening /\ reader'.raw = reader.raw
    <3>1. CASE Resolve
      BY <3>1 DEF Resolve, ReadTypeOK, Opening
    <3>2. CASE Inspect
      BY <3>2 DEF Inspect, ReadTypeOK, NoFileKind, Opening
    <3>3. CASE Reparse
      BY <3>3 DEF Reparse, ReadTypeOK, Opening
    <3> QED
      BY <1>1, <3>1, <3>2, <3>3
  <2>3. reader.raw = <<>>
    BY <2>2 DEF PrefixInv
  <2> QED
    BY <2>1, <2>2, <2>3 DEF ClockInv, PrefixInv, Opening, Holding, Comparing
<1>2. CASE Open
  <2>0. path.kind \in {"absent", "link", "loop", "directory", "file"} /\ path.inode \in Inode
    BY DEF ReadTypeOK, NoFileKind
  <2>a. UNCHANGED <<path, file, clock>>
    BY <1>2, <2>0 DEF Open
  <2>b. \/ reader' = [reader EXCEPT !.pc = "unavailable"]
        \/ reader' = [reader EXCEPT !.pc = "contract"]
        \/ path.kind = "file" /\ reader' = [reader EXCEPT !.pc = "stat", !.fd = path.inode]
    BY <1>2, <2>0 DEF Open
  <2>1. ReadTypeOK'
    BY <2>0, <2>a, <2>b DEF ReadTypeOK
  <2>2. /\ UNCHANGED <<path, file, clock>>
        /\ reader'.raw = reader.raw
        /\ \/ reader'.pc \in {"unavailable", "contract"}
           \/ reader'.pc = "stat" /\ path.kind = "file" /\ reader'.fd = path.inode
    BY <2>a, <2>b DEF ReadTypeOK
  <2>3. reader.raw = <<>>
    BY <1>2 DEF Open, PrefixInv, Opening
  <2> QED
    BY <2>1, <2>2, <2>3 DEF ClockInv, PrefixInv, Opening, Holding, Comparing
<1>3. CASE StatOpened
  <2>1. file[reader.fd].bytes \in Seq(Nat) /\ file[reader.fd].mtime \in Nat /\ reader.fd \in Inode
    BY DEF ReadTypeOK, FileType
  <2>2. Stat(reader.fd) \in [inode : Inode, size : Nat, mtime : Nat]
    BY <2>1 DEF Stat
  <2>3. ReadTypeOK'
    <3>1. /\ \/ reader' = [reader EXCEPT !.pc = "contract"]
             \/ reader' = [reader EXCEPT !.pc = "read", !.opened = Stat(reader.fd)]
          /\ UNCHANGED <<path, file, clock>>
      BY <1>3 DEF StatOpened
    <3> HIDE DEF ReadInv
    <3>2. ReadTypeOK
      BY DEF ReadInv
    <3> QED
      BY <2>2, <3>1, <3>2 DEF ReadTypeOK
  <2>4. /\ UNCHANGED <<path, file, clock>>
        /\ \/ reader'.pc = "contract"
           \/ /\ reader'.pc = "read" /\ reader'.raw = reader.raw /\ reader'.fd = reader.fd
              /\ reader'.opened.mtime = file[reader.fd].mtime
    <3>1. Stat(reader.fd).mtime = file[reader.fd].mtime
      BY DEF Stat
    <3>2. CASE reader.fd # reader.before
      BY <1>3, <3>2 DEF StatOpened, ReadTypeOK
    <3>3. CASE reader.fd = reader.before
      <4>1. reader' = [reader EXCEPT !.pc = "read", !.opened = Stat(reader.fd)]
        BY <1>3, <3>3 DEF StatOpened
      <4>2. /\ reader'.pc = "read" /\ reader'.raw = reader.raw /\ reader'.fd = reader.fd
            /\ reader'.opened = Stat(reader.fd)
        BY <4>1 DEF ReadTypeOK
      <4> QED
        BY <1>3, <3>1, <4>2 DEF StatOpened
    <3> QED
      BY <3>2, <3>3
  <2>5. reader.raw = <<>> /\ reader.fd # Outside
    BY <1>3 DEF StatOpened, PrefixInv, Opening, Holding
  <2>6. file[reader.fd].mtime <= clock
    BY <2>1 DEF ClockInv
  <2> QED
    BY <2>1, <2>3, <2>4, <2>5, <2>6 DEF ClockInv, PrefixInv, Opening, Holding, Comparing
<1>4. CASE ReadUnit
  <2> DEFINE bytes == file[reader.fd].bytes
  <2>1. bytes \in Seq(Nat) /\ reader.raw \in Seq(Nat) /\ Maximum \in Nat
    BY SafeReadAssumption DEF ReadTypeOK, FileType
  <2>2. reader.pc = "read" /\ reader.fd # Outside /\ UNCHANGED <<path, file, clock>>
    BY <1>4 DEF ReadUnit, PrefixInv, Holding
  <2>3. CASE Len(reader.raw) <= Maximum /\ Len(reader.raw) < Len(bytes)
    <3>1. reader' = [reader EXCEPT !.raw = Append(reader.raw, bytes[Len(reader.raw) + 1])]
      BY <1>4, <2>3 DEF ReadUnit
    <3>2. bytes[Len(reader.raw) + 1] \in Nat
      <4> HIDE DEF bytes
      <4>1. Len(reader.raw) + 1 \in 1..Len(bytes)
        BY <2>1, <2>3
      <4> QED
        BY <2>1, <4>1
    <3>3. Append(reader.raw, bytes[Len(reader.raw) + 1]) \in Seq(Nat)
      BY <2>1, <3>2
    <3>4. ReadTypeOK'
      BY <2>2, <3>1, <3>3 DEF ReadTypeOK
    <3>5. /\ reader'.pc = "read" /\ reader'.fd = reader.fd /\ reader'.opened = reader.opened
          /\ reader'.raw = Append(reader.raw, bytes[Len(reader.raw) + 1])
      BY <2>2, <3>1 DEF ReadTypeOK
    <3>6. /\ Len(reader'.raw) = Len(reader.raw) + 1
          /\ \A k \in 1..Len(reader'.raw) :
                reader'.raw[k] = IF k <= Len(reader.raw) THEN reader.raw[k] ELSE bytes[k]
      BY <2>1, <3>2, <3>5
    <3>7. PrefixInv'
      BY <2>1, <2>2, <2>3, <3>5, <3>6 DEF PrefixInv, Opening, Holding, Comparing
    <3> QED
      BY <2>2, <3>4, <3>7 DEF ClockInv
  <2>4. CASE ~(Len(reader.raw) <= Maximum /\ Len(reader.raw) < Len(bytes))
    <3>1. ReadTypeOK'
      BY <1>4, <2>4 DEF ReadUnit, ReadTypeOK
    <3>2. /\ reader'.pc \in {"contract", "more"} /\ reader'.fd = reader.fd
          /\ reader'.opened = reader.opened /\ reader'.raw = reader.raw
      BY <1>4, <2>4 DEF ReadUnit, ReadTypeOK
    <3> QED
      BY <2>2, <3>1, <3>2 DEF ClockInv, PrefixInv, Opening, Holding, Comparing
  <2> QED
    BY <2>3, <2>4
<1>5. CASE ReadMore \/ Compare \/ ReadError
  <2>1. ReadTypeOK'
    <3>1. /\ \E pc \in {"contract", "returned", "raised", "compare"} : reader' = [reader EXCEPT !.pc = pc]
          /\ UNCHANGED <<path, file, clock>>
      BY <1>5 DEF ReadMore, Compare, ReadError
    <3> QED
      BY <3>1 DEF ReadTypeOK
  <2>2. /\ UNCHANGED <<path, file, clock>>
        /\ reader.pc \in Holding
        /\ \/ reader'.pc \in {"contract", "returned", "raised"}
           \/ reader.pc = "more" /\ reader'.pc = "compare"
        /\ reader'.fd = reader.fd /\ reader'.opened = reader.opened /\ reader'.raw = reader.raw
    BY <1>5 DEF ReadMore, Compare, ReadError, ReadTypeOK, Holding
  <2> QED
    BY <2>1, <2>2 DEF ClockInv, PrefixInv, Opening, Holding, Comparing
<1> QED
  BY <1>1, <1>2, <1>3, <1>4, <1>5

(* What read_regular returns is the whole content the file has at that       *)
(* moment, and never that of a link's target (diagnostics_inputs.py).        *)
THEOREM WholeContentRead == ReadSpec => ReadIsWhole
<1>1. ReadInv /\ [ReadNext]_readVars => ReadInv'
  <2> SUFFICES ASSUME ReadInv, [ReadNext]_readVars PROVE ReadInv'
    OBVIOUS
  <2>1. CASE UNCHANGED readVars
    BY <2>1 DEF readVars, ReadInv, ReadTypeOK, ClockInv, PrefixInv
  <2> QED
    BY <2>1, WorldKeepsRead, ReaderKeepsRead DEF ReadNext
<1>2. ASSUME ReadInv, [ReadNext]_readVars, At("compare"), reader'.pc = "returned"
      PROVE  reader.raw = file[reader.fd].bytes /\ reader.fd # Outside
  <2>1. Compare
    BY <1>2 DEF ReadNext, readVars, At, ReadInv, ReadTypeOK, Resolve, Inspect, Reparse, Open, StatOpened, ReadUnit, ReadMore,
                ReadError, Reading, Refuse, NoFileKind, WriteInPlace, ReplaceFile, ReplaceName, Changing
  <2>2. SameStat(reader.opened, Stat(reader.fd)) /\ Len(reader.raw) = Stat(reader.fd).size
    BY <1>2, <2>1 DEF Compare, Refuse, Reading, ReadInv, ReadTypeOK
  <2>3. file[reader.fd].mtime = reader.opened.mtime /\ Len(reader.raw) = Len(file[reader.fd].bytes)
    BY <2>2 DEF SameStat, Stat
  <2>4. reader.raw \in Seq(Nat) /\ file[reader.fd].bytes \in Seq(Nat)
    BY <1>2 DEF ReadInv, ReadTypeOK, FileType
  <2>5. \A k \in 1..Len(reader.raw) : reader.raw[k] = file[reader.fd].bytes[k]
    BY <1>2, <2>3 DEF ReadInv, PrefixInv, At, Comparing
  <2>6. reader.raw = file[reader.fd].bytes
    BY <2>3, <2>4, <2>5, SeqEqual
  <2> QED
    BY <1>2, <2>6 DEF ReadInv, PrefixInv, At, Holding
<1>3. ReadInv /\ [ReadNext]_readVars =>
        [At("compare") /\ reader'.pc = "returned" =>
            /\ reader.raw = file[reader.fd].bytes
            /\ reader.fd # Outside]_readVars
  BY <1>2
<1> QED
  BY ReadInitially, <1>1, <1>3, PTL DEF ReadSpec, ReadIsWhole

-----------------------------------------------------------------------------
(* A tool that is run, ToolInvoke.                                           *)

InvokeTypeOK ==
    /\ alive \subseteq {"tool", "helper"}
    /\ holders \subseteq alive
    /\ written \in Nat /\ taken \in Nat
    /\ drain \in [pc : {"read", "append", "kill", "done"}, output : Nat, overflow : BOOLEAN]
    /\ main \in {"wait", "reap", "join", "close_ok", "close_error", "ok", "error"}
    /\ closed \in BOOLEAN

(* The drain thread accounts for every chunk it has taken.  *)
DrainInv ==
    /\ drain.pc \in {"read", "append"} => ~drain.overflow
    /\ drain.pc = "kill" => drain.overflow
    /\ ~drain.overflow => /\ drain.output <= Limit
                          /\ taken = IF drain.pc = "append" THEN drain.output + 1 ELSE drain.output

(* A drain that has ended has seen the end of the output, has killed the     *)
(* tool, or has found the output closed by a call that failed.               *)
EndInv ==
    /\ closed => main \in {"ok", "error"}
    /\ drain.pc = "done" => \/ drain.overflow /\ alive = {}
                            \/ ~drain.overflow /\ holders = {} /\ taken = written
                            \/ main = "error"

(* Whichever way the main thread leaves its waits, nothing holds the output. *)
MainInv ==
    /\ main \in {"close_ok", "ok"} => drain.pc = "done" /\ ~drain.overflow /\ holders = {}
    /\ main \in {"reap", "close_error", "error"} => alive = {}

ContainedInv == InvokeTypeOK /\ DrainInv /\ EndInv /\ MainInv

(* The call begins with the tool alone in its group and nothing read. *)
LEMMA ContainedInitially == InvokeInit => ContainedInv
<1> SUFFICES ASSUME InvokeInit PROVE ContainedInv
  OBVIOUS
<1>1. InvokeTypeOK
  BY DEF InvokeInit, InvokeTypeOK
<1>2. drain.pc = "read" /\ drain.output = 0 /\ drain.overflow = FALSE
  BY DEF InvokeInit
<1> QED
  BY <1>1, <1>2, ToolInvokeAssumption DEF InvokeInit, ContainedInv, DrainInv, EndInv, MainInv

(* The tool cannot start, write or take the pipe again once it is gone.      *)
LEMMA ToolKeepsContained == ContainedInv /\ ToolStep => ContainedInv'
<1> SUFFICES ASSUME ContainedInv, ToolStep PROVE ContainedInv'
  OBVIOUS
<1> USE DEF ContainedInv, InvokeTypeOK, DrainInv, EndInv, MainInv, threadVars
<1>1. CASE StartHelper
  <2>1. alive # {} /\ (holders = {} => holders' = {})
    BY <1>1 DEF StartHelper
  <2>2. InvokeTypeOK'
    BY <1>1 DEF StartHelper
  <2>3. UNCHANGED <<written, taken, drain, main, closed>>
    BY <1>1 DEF StartHelper
  <2>4. DrainInv'
    BY <2>3
  <2>5. EndInv'
    BY <2>1, <2>3
  <2>6. MainInv'
    BY <2>1, <2>3
  <2> QED
    BY <2>2, <2>4, <2>5, <2>6
<1>2. CASE WriteOutput
  <2>1. holders # {} /\ alive # {}
    BY <1>2 DEF WriteOutput
  <2>2. InvokeTypeOK'
    BY <1>2 DEF WriteOutput
  <2>3. UNCHANGED <<alive, holders, taken, drain, main, closed>>
    BY <1>2 DEF WriteOutput
  <2>4. DrainInv' /\ MainInv'
    BY <2>3
  <2>5. EndInv'
    BY <2>1, <2>3
  <2> QED
    BY <2>2, <2>4, <2>5
<1>3. CASE CloseOutput
  BY <1>3 DEF CloseOutput
<1>4. CASE ExitProcess
  BY <1>4 DEF ExitProcess
<1> QED
  BY <1>1, <1>2, <1>3, <1>4 DEF ToolStep

(* A read of the closed output ends the thread only in a call that failed.   *)
LEMMA DrainKeepsContained == ContainedInv /\ DrainStep => ContainedInv'
<1> SUFFICES ASSUME ContainedInv, DrainStep PROVE ContainedInv'
  OBVIOUS
<1> USE ToolInvokeAssumption DEF ContainedInv, InvokeTypeOK, DrainInv, EndInv, MainInv, processVars
<1>1. CASE DrainRead
  BY <1>1 DEF DrainRead
<1>2. CASE DrainAppend
  <2>1. CASE drain.output < Limit
    <3>1. drain'.pc = "read" /\ drain'.output = drain.output + 1 /\ drain'.overflow = drain.overflow
      BY <1>2, <2>1 DEF DrainAppend
    <3>2. InvokeTypeOK'
      BY <1>2, <2>1 DEF DrainAppend
    <3> QED
      BY <1>2, <2>1, <3>1, <3>2 DEF DrainAppend
  <2>2. CASE ~(drain.output < Limit)
    <3>1. drain'.pc = "kill" /\ drain'.overflow = TRUE
      BY <1>2, <2>2 DEF DrainAppend
    <3>2. InvokeTypeOK'
      BY <1>2, <2>2 DEF DrainAppend
    <3> QED
      BY <1>2, <2>2, <3>1, <3>2 DEF DrainAppend
  <2> QED
    BY <2>1, <2>2
<1>3. CASE DrainKill
  BY <1>3 DEF DrainKill, Terminate
<1> QED
  BY <1>1, <1>2, <1>3 DEF DrainStep

(* Every way to "close_error" goes through a kill of the group, and only a   *)
(* drain that has seen the end of the output lets the call succeed.          *)
LEMMA MainKeepsContained == ContainedInv /\ MainStep => ContainedInv'
<1> SUFFICES ASSUME ContainedInv, MainStep PROVE ContainedInv'
  OBVIOUS
<1> USE DEF ContainedInv, InvokeTypeOK, DrainInv, EndInv, MainInv, processVars, Step, KeepProcesses
<1>1. CASE WaitExit
  BY <1>1 DEF WaitExit
<1>2. CASE WaitTimeout
  BY <1>2 DEF WaitTimeout, Terminate
<1>3. CASE WaitKilled
  BY <1>3 DEF WaitKilled
<1>4. CASE JoinDone
  BY <1>4 DEF JoinDone
<1>5. CASE JoinTimeout
  BY <1>5 DEF JoinTimeout, Terminate
<1>6. CASE CloseStdout
  BY <1>6 DEF CloseStdout
<1> QED
  BY <1>1, <1>2, <1>3, <1>4, <1>5, <1>6 DEF MainStep

(* A call that ends leaves no process on the pipe, after an error no process *)
(* at all, and returns the whole output within the limit (invoke of          *)
(* diagnostics_git.py).                                                      *)
THEOREM CallContained == InvokeSpec => []InvokeContained
<1>1. ContainedInv /\ [InvokeNext]_toolVars => ContainedInv'
  <2> SUFFICES ASSUME ContainedInv, [InvokeNext]_toolVars PROVE ContainedInv'
    OBVIOUS
  <2>1. CASE UNCHANGED toolVars
    BY <2>1 DEF toolVars, ContainedInv, InvokeTypeOK, DrainInv, EndInv, MainInv
  <2> QED
    BY <2>1, ToolKeepsContained, DrainKeepsContained, MainKeepsContained DEF InvokeNext
<1>2. ContainedInv => InvokeContained
  BY ToolInvokeAssumption DEF ContainedInv, InvokeTypeOK, DrainInv, EndInv, MainInv, InvokeContained
<1> QED
  BY ContainedInitially, <1>1, <1>2, PTL DEF InvokeSpec

-----------------------------------------------------------------------------
(* A run of a command, Diagnostics.                                          *)

(* Two sequences without repetition and without a common element, one after  *)
(* the other.                                                                *)
LEMMA DistinctConcat ==
  ASSUME NEW S, NEW s \in Seq(S), NEW t \in Seq(S), Distinct(s), Distinct(t),
         Elements(s) \cap Elements(t) = {}
  PROVE  /\ s \o t \in Seq(S) /\ Distinct(s \o t)
         /\ Elements(s \o t) = Elements(s) \cup Elements(t)
         /\ Len(s \o t) = Len(s) + Len(t)
         /\ \A i \in 1..Len(s) : (s \o t)[i] = s[i]
         /\ \A i \in 1..Len(t) : (s \o t)[Len(s) + i] = t[i]
<1> DEFINE u == s \o t
<1>1. u \in Seq(S) /\ Len(u) = Len(s) + Len(t) /\ DOMAIN u = 1..(Len(s) + Len(t))
      /\ DOMAIN s = 1..Len(s) /\ DOMAIN t = 1..Len(t) /\ Len(s) \in Nat /\ Len(t) \in Nat
  BY ConcatProperties, LenProperties
<1>2. \A i \in 1..Len(s) : u[i] = s[i]
  BY ConcatProperties, LenProperties
<1>3. \A i \in 1..Len(t) : u[Len(s) + i] = t[i]
  BY ConcatProperties, LenProperties
<1>4. \A i \in DOMAIN u : \/ i \in DOMAIN s /\ u[i] = s[i]
                          \/ i - Len(s) \in DOMAIN t /\ u[i] = t[i - Len(s)]
  <2> SUFFICES ASSUME NEW i \in DOMAIN u, i \notin DOMAIN s
               PROVE  i - Len(s) \in DOMAIN t /\ u[i] = t[i - Len(s)]
    BY <1>1, <1>2
  <2>1. i - Len(s) \in 1..Len(t) /\ Len(s) + (i - Len(s)) = i
    BY <1>1
  <2> QED
    BY <1>1, <1>3, <2>1
<1>5. Elements(u) = Elements(s) \cup Elements(t)
  <2>1. Elements(u) \subseteq Elements(s) \cup Elements(t)
    BY <1>4 DEF Elements
  <2>2. \A i \in DOMAIN s : s[i] \in Elements(u)
    <3> TAKE i \in DOMAIN s
    <3>1. i \in DOMAIN u /\ u[i] = s[i]
      BY <1>1, <1>2
    <3> QED
      BY <3>1 DEF Elements
  <2>3. \A i \in DOMAIN t : t[i] \in Elements(u)
    <3> TAKE i \in DOMAIN t
    <3>1. Len(s) + i \in 1..(Len(s) + Len(t))
      BY <1>1
    <3>2. Len(s) + i \in DOMAIN u /\ u[Len(s) + i] = t[i]
      BY <1>1, <1>3, <3>1
    <3> QED
      BY <3>2 DEF Elements
  <2> QED
    BY <2>1, <2>2, <2>3 DEF Elements
<1>6. Distinct(u)
  <2> SUFFICES ASSUME NEW i \in DOMAIN u, NEW j \in DOMAIN u, u[i] = u[j] PROVE i = j
    BY DEF Distinct
  <2>1. i \in Int /\ j \in Int
    BY <1>1
  <2>2. CASE i \in DOMAIN s /\ j \in DOMAIN s
    BY <1>1, <1>2, <2>2 DEF Distinct
  <2>3. CASE i \in DOMAIN s /\ j \notin DOMAIN s
    BY <1>4, <1>2, <1>1, <2>3 DEF Elements
  <2>4. CASE i \notin DOMAIN s /\ j \in DOMAIN s
    BY <1>4, <1>2, <1>1, <2>4 DEF Elements
  <2>5. CASE i \notin DOMAIN s /\ j \notin DOMAIN s
    <3>1. i - Len(s) = j - Len(s)
      BY <1>4, <2>5 DEF Distinct
    <3> QED BY <3>1, <2>1, <1>1
  <2> QED BY <2>2, <2>3, <2>4, <2>5
<1> QED
  BY <1>1, <1>2, <1>3, <1>5, <1>6


(* The names a check may have.                                               *)
Name == STRING \cup FixedChecks

(* The parts the commands' sequences are made of.                            *)
LEMMA ConcreteSequences ==
  /\ Base \in Seq(Name) /\ Distinct(Base)
  /\ Task \in Seq(Name) /\ Distinct(Task)
  /\ Catalog \in Seq(Name) /\ Distinct(Catalog)
  /\ EvidenceChecks \in Seq(Name) /\ Distinct(EvidenceChecks)
<1>1. /\ DOMAIN Base = 1..2 /\ Base[1] = "project.version" /\ Base[2] = "repository.git"
      /\ DOMAIN Task = 1..1 /\ Task[1] = "workflow.task"
  BY DEF Base, Task
<1>2. /\ DOMAIN Catalog = 1..3 /\ Catalog[1] = "inputs.source-lock"
      /\ Catalog[2] = "inputs.lab-catalog" /\ Catalog[3] = "lab.selection"
  BY DEF Catalog
<1>3. /\ DOMAIN EvidenceChecks = 1..5
      /\ EvidenceChecks[1] = "evidence.file" /\ EvidenceChecks[2] = "evidence.document"
      /\ EvidenceChecks[3] = "evidence.result" /\ EvidenceChecks[4] = "evidence.inputs"
      /\ EvidenceChecks[5] = "evidence.subject"
  BY DEF EvidenceChecks
<1>4. Base \in Seq(Elements(Base)) /\ Task \in Seq(Elements(Task))
  BY <1>1 DEF Base, Task, Elements
<1>5. Catalog \in Seq(Elements(Catalog)) /\ EvidenceChecks \in Seq(Elements(EvidenceChecks))
  BY <1>2, <1>3 DEF Catalog, EvidenceChecks, Elements
<1>6. Distinct(Base) /\ Distinct(Task) /\ Distinct(Catalog)
  BY <1>1, <1>2 DEF Distinct
<1>7. Distinct(EvidenceChecks)
  BY <1>3 DEF Distinct
<1>8. \A s \in {Base, Task, Catalog, EvidenceChecks} : Elements(s) \subseteq Name
  BY DEF Name, FixedChecks
<1>9. \A s \in {Base, Task, Catalog, EvidenceChecks} : s \in Seq(Elements(s))
  BY <1>4, <1>5
<1>10. \A s, A, B : s \in Seq(A) /\ A \subseteq B => s \in Seq(B)
  OBVIOUS
<1> QED
  BY <1>6, <1>7, <1>8, <1>9, <1>10

(* a stands before b in s.                                                   *)
Precedes(s, a, b) == \E i, j \in DOMAIN s : i < j /\ s[i] = a /\ s[j] = b

(* What stands before what in a concatenation.                               *)
LEMMA ConcatPrecedes ==
  ASSUME NEW S, NEW s \in Seq(S), NEW t \in Seq(S)
  PROVE  /\ \A a \in Elements(s), b \in Elements(t) : Precedes(s \o t, a, b)
         /\ \A a, b : Precedes(s, a, b) \/ Precedes(t, a, b) => Precedes(s \o t, a, b)
<1> DEFINE u == s \o t
<1>1. Len(u) = Len(s) + Len(t) /\ DOMAIN u = 1..(Len(s) + Len(t))
      /\ DOMAIN s = 1..Len(s) /\ DOMAIN t = 1..Len(t) /\ Len(s) \in Nat /\ Len(t) \in Nat
  BY ConcatProperties, LenProperties
<1>2. \A i \in DOMAIN s : i \in DOMAIN u /\ u[i] = s[i]
  BY ConcatProperties, LenProperties
<1>3. \A i \in 1..Len(t) : u[Len(s) + i] = t[i]
  BY ConcatProperties, LenProperties
<1>4. \A i \in DOMAIN t : Len(s) + i \in DOMAIN u
  <2> TAKE i \in DOMAIN t
  <2>1. Len(s) + i \in 1..(Len(s) + Len(t))
    BY <1>1
  <2> QED BY <1>1, <2>1
<1>5. ASSUME NEW a \in Elements(s), NEW b \in Elements(t) PROVE Precedes(u, a, b)
  <2>1. PICK i \in DOMAIN s : s[i] = a
    BY DEF Elements
  <2>2. PICK j \in DOMAIN t : t[j] = b
    BY DEF Elements
  <2>3. i < Len(s) + j
    BY <1>1
  <2> HIDE DEF u
  <2> QED
    BY <1>1, <1>2, <1>3, <1>4, <2>1, <2>2, <2>3 DEF Precedes
<1>6. ASSUME NEW a, NEW b, Precedes(s, a, b) PROVE Precedes(u, a, b)
  <2>1. PICK i \in DOMAIN s, j \in DOMAIN s : i < j /\ s[i] = a /\ s[j] = b
    BY <1>6 DEF Precedes
  <2> HIDE DEF u
  <2> QED
    BY <1>2, <2>1 DEF Precedes
<1>7. ASSUME NEW a, NEW b, Precedes(t, a, b) PROVE Precedes(u, a, b)
  <2>1. PICK i \in DOMAIN t, j \in DOMAIN t : i < j /\ t[i] = a /\ t[j] = b
    BY <1>7 DEF Precedes
  <2>2. Len(s) + i < Len(s) + j
    BY <1>1, <2>1
  <2> HIDE DEF u
  <2> QED
    BY <1>1, <1>3, <1>4, <2>1, <2>2 DEF Precedes
<1> QED
  BY <1>5, <1>6, <1>7

(* u is s followed by t, two sequences of different checks.                  *)
Grown(u, s, t) ==
    /\ u \in Seq(Name) /\ Distinct(u)
    /\ Elements(u) = Elements(s) \cup Elements(t)
    /\ \A a \in Elements(s), b \in Elements(t) : Precedes(u, a, b)
    /\ \A a, b : Precedes(s, a, b) \/ Precedes(t, a, b) => Precedes(u, a, b)

(* A concatenation of two sequences of different checks.                     *)
LEMMA ConcatGrows ==
  ASSUME NEW s \in Seq(Name), NEW t \in Seq(Name), Distinct(s), Distinct(t),
         Elements(s) \cap Elements(t) = {}
  PROVE  Grown(s \o t, s, t)
BY DistinctConcat, ConcatPrecedes DEF Grown

(* What the parts hold, and the order the proofs rest on.                    *)
LEMMA ConcreteElements ==
  /\ Elements(Base) = {"project.version", "repository.git"}
  /\ Elements(Task) = {"workflow.task"}
  /\ Elements(Catalog) = {"inputs.source-lock", "inputs.lab-catalog", "lab.selection"}
  /\ Elements(EvidenceChecks) = {"evidence.file", "evidence.document", "evidence.result",
                                 "evidence.inputs", "evidence.subject"}
  /\ Precedes(Catalog, "inputs.lab-catalog", "lab.selection")
  /\ Precedes(EvidenceChecks, "evidence.file", "evidence.document")
  /\ \A c \in {"evidence.result", "evidence.inputs", "evidence.subject"} :
        Precedes(EvidenceChecks, "evidence.document", c)
  /\ Precedes(EvidenceChecks, "evidence.result", "evidence.subject")
<1>1. /\ DOMAIN Base = {1, 2} /\ Base[1] = "project.version" /\ Base[2] = "repository.git"
      /\ DOMAIN Task = {1} /\ Task[1] = "workflow.task"
  BY DEF Base, Task
<1>2. /\ DOMAIN Catalog = {1, 2, 3} /\ Catalog[1] = "inputs.source-lock"
      /\ Catalog[2] = "inputs.lab-catalog" /\ Catalog[3] = "lab.selection"
  BY DEF Catalog
<1>3a. DOMAIN EvidenceChecks = 1..5
  BY DEF EvidenceChecks
<1>3. /\ DOMAIN EvidenceChecks = {1, 2, 3, 4, 5}
      /\ EvidenceChecks[1] = "evidence.file" /\ EvidenceChecks[2] = "evidence.document"
      /\ EvidenceChecks[3] = "evidence.result" /\ EvidenceChecks[4] = "evidence.inputs"
      /\ EvidenceChecks[5] = "evidence.subject"
  BY <1>3a DEF EvidenceChecks
<1>4. /\ Elements(Base) = {"project.version", "repository.git"} /\ Elements(Task) = {"workflow.task"}
  BY <1>1 DEF Elements
<1>5. Elements(Catalog) = {"inputs.source-lock", "inputs.lab-catalog", "lab.selection"}
  BY <1>2 DEF Elements
<1>6. Elements(EvidenceChecks) = {"evidence.file", "evidence.document", "evidence.result",
                                  "evidence.inputs", "evidence.subject"}
  BY <1>3 DEF Elements
<1>7. Precedes(Catalog, "inputs.lab-catalog", "lab.selection")
  BY <1>2 DEF Precedes
<1>8. Precedes(EvidenceChecks, "evidence.file", "evidence.document")
  BY <1>3 DEF Precedes
<1>9. Precedes(EvidenceChecks, "evidence.document", "evidence.result")
  BY <1>3 DEF Precedes
<1>10. Precedes(EvidenceChecks, "evidence.document", "evidence.inputs")
  BY <1>3 DEF Precedes
<1>11. Precedes(EvidenceChecks, "evidence.document", "evidence.subject")
  BY <1>3 DEF Precedes
<1>12. Precedes(EvidenceChecks, "evidence.result", "evidence.subject")
  BY <1>3 DEF Precedes
<1> QED
  BY <1>4, <1>5, <1>6, <1>7, <1>8, <1>9, <1>10, <1>11, <1>12

(* A sequence of one check.                                                  *)
LEMMA Single == ASSUME NEW x \in Name PROVE <<x>> \in Seq(Name) /\ Distinct(<<x>>) /\ Elements(<<x>>) = {x}
BY DEF Distinct, Elements

(* The tools doctor looks at.                                                *)
Tools == <<"tool.git", "tool.ssh">>
(* They are two checks.                                                      *)
LEMMA TwoTools == Tools \in Seq(Name) /\ Distinct(Tools) /\ Elements(Tools) = {"tool.git", "tool.ssh"}
<1>1. Tools \in Seq({"tool.git", "tool.ssh"}) /\ Distinct(Tools)
  BY DEF Tools, Distinct
<1>2. Elements(Tools) = {"tool.git", "tool.ssh"}
  BY DEF Tools, Elements
<1>3. {"tool.git", "tool.ssh"} \subseteq Name
  BY DEF Name, FixedChecks
<1>4. \A s, A, B : s \in Seq(A) /\ A \subseteq B => s \in Seq(B)
  OBVIOUS
<1> QED BY <1>1, <1>2, <1>3, <1>4

(* What the order of a command's checks guarantees whatever the sources and  *)
(* the build files are called.                                               *)
Arranged(s) ==
    /\ s \in Seq(Name) /\ Distinct(s)
    /\ Elements(Base) \cup Elements(Catalog) \subseteq Elements(s)
    /\ Precedes(s, "inputs.lab-catalog", "lab.selection")
    /\ "repository.clean" \in Elements(s) => Precedes(s, "repository.git", "repository.clean")
    /\ \A a \in Elements(Base) \cup Elements(Catalog), b \in Elements(EvidenceChecks) \cap Elements(s) :
          Precedes(s, a, b)
    /\ \A a, b \in Elements(EvidenceChecks) :
          Precedes(EvidenceChecks, a, b) /\ b \in Elements(s) => Precedes(s, a, b)

(* Every command's sequence makes a check once, and after the checks it      *)
(* depends on.                                                               *)
LEMMA Arrangements ==
  /\ \A c \in Command : Arranged(SEQUENCES[c])
  /\ "repository.clean" \in Elements(SEQUENCES["status"])
  /\ Elements(SEQUENCES["inspect"]) = Elements(Base) \cup Elements(Catalog)
  /\ \A c \in {"doctor", "evidence"} : Elements(EvidenceChecks) \subseteq Elements(SEQUENCES[c])
<1> DEFINE inspect == Base \o Catalog
           evidence == inspect \o EvidenceChecks
           workflow == Base \o Task
           selected == workflow \o Catalog
           status == selected \o <<"repository.clean">>
           tools == selected \o Tools
           sources == tools \o Source
           files == sources \o ConfFile
           doctor == files \o EvidenceChecks
<1>1. /\ SEQUENCES["inspect"] = inspect /\ SEQUENCES["evidence"] = evidence
      /\ SEQUENCES["status"] = status /\ SEQUENCES["doctor"] = doctor
  BY DEF SEQUENCES, Tools
<1>2. /\ Elements(Source) \cap FixedChecks = {} /\ Elements(ConfFile) \cap FixedChecks = {}
      /\ Source \in Seq(Name) /\ ConfFile \in Seq(Name)
  <2>1. \A s, A, B : s \in Seq(A) /\ A \subseteq B => s \in Seq(B)
    OBVIOUS
  <2> QED
    BY <2>1, NamesAssumption DEF Name
<1>3. "repository.clean" \in Name
  BY DEF Name, FixedChecks
<1> USE ConcreteSequences, ConcreteElements, TwoTools, ConcatGrows
<1>4. Grown(inspect, Base, Catalog)
  OBVIOUS
<1>5. Grown(evidence, inspect, EvidenceChecks)
  <2> HIDE DEF inspect
  <2>1. Elements(inspect) \cap Elements(EvidenceChecks) = {}
    BY <1>4 DEF Grown
  <2> QED BY <2>1, <1>4 DEF Grown
<1>6. Grown(workflow, Base, Task)
  OBVIOUS
<1>7. Grown(selected, workflow, Catalog)
  <2> HIDE DEF workflow
  <2>1. Elements(workflow) \cap Elements(Catalog) = {}
    BY <1>6 DEF Grown
  <2> QED BY <2>1, <1>6 DEF Grown
<1>8. Grown(status, selected, <<"repository.clean">>) /\ Elements(<<"repository.clean">>) = {"repository.clean"}
  <2> HIDE DEF workflow, selected
  <2>1. Elements(selected) \cap {"repository.clean"} = {}
    BY <1>6, <1>7 DEF Grown
  <2> QED BY <2>1, <1>7, Single, <1>3 DEF Grown
<1>9. Grown(tools, selected, Tools)
  <2> HIDE DEF workflow, selected
  <2>1. Elements(selected) \cap Elements(Tools) = {}
    BY <1>6, <1>7 DEF Grown
  <2> QED BY <2>1, <1>7 DEF Grown
<1>10. Grown(sources, tools, Source)
  <2> HIDE DEF workflow, selected, tools
  <2>1. Elements(tools) \subseteq FixedChecks
    BY <1>6, <1>7, <1>9 DEF Grown, FixedChecks
  <2>2. Elements(tools) \cap Elements(Source) = {}
    BY <1>2, <2>1
  <2> QED BY <2>2, <1>9, <1>2, NamesAssumption DEF Grown
<1>11. Grown(files, sources, ConfFile)
  <2> HIDE DEF workflow, selected, tools, sources
  <2>1. Elements(tools) \subseteq FixedChecks
    BY <1>6, <1>7, <1>9 DEF Grown, FixedChecks
  <2>2. Elements(sources) \cap Elements(ConfFile) = {}
    BY <1>2, <2>1, <1>10, NamesAssumption DEF Grown
  <2> QED BY <2>2, <1>10, <1>2, NamesAssumption DEF Grown
<1>12. Grown(doctor, files, EvidenceChecks)
  <2> HIDE DEF workflow, selected, tools, sources, files
  <2>1. Elements(tools) \cap Elements(EvidenceChecks) = {}
    BY <1>6, <1>7, <1>9 DEF Grown
  <2>2. Elements(EvidenceChecks) \subseteq FixedChecks
    BY DEF FixedChecks
  <2>3. Elements(files) \cap Elements(EvidenceChecks) = {}
    BY <1>2, <2>1, <2>2, <1>10, <1>11 DEF Grown
  <2> QED BY <2>3, <1>11 DEF Grown
<1> HIDE DEF inspect, evidence, workflow, selected, status, tools, sources, files, doctor
<1>13. Arranged(inspect)
  BY <1>4 DEF Grown, Arranged
<1>14. Arranged(evidence)
  BY <1>4, <1>5 DEF Grown, Arranged
<1>15. Arranged(status)
  BY <1>6, <1>7, <1>8 DEF Grown, Arranged
<1>16. Arranged(doctor) /\ Elements(EvidenceChecks) \subseteq Elements(doctor)
  <2>1. Elements(Base) \cup Elements(Catalog) \subseteq Elements(files)
    BY <1>6, <1>7, <1>9, <1>10, <1>11 DEF Grown
  <2>2. Precedes(files, "inputs.lab-catalog", "lab.selection")
    BY <1>7, <1>9, <1>10, <1>11 DEF Grown
  <2>3. "repository.clean" \notin Elements(doctor)
    BY <1>2, <1>6, <1>7, <1>9, <1>10, <1>11, <1>12 DEF Grown, FixedChecks
  <2> QED
    BY <2>1, <2>2, <2>3, <1>12 DEF Grown, Arranged
<1> QED
  BY <1>1, <1>4, <1>5, <1>8, <1>13, <1>14, <1>15, <1>16, DiagnosticsAssumption DEF Grown

(* The status of a check, "not-run" before its turn.                         *)
St(st, c) == IF c \in DOMAIN st THEN st[c] ELSE "not-run"

(* The checks made are the first of the command's sequence.                  *)
Checks(st, cmd) ==
    /\ cmd \in Command
    /\ IsFiniteSet(DOMAIN st)
    /\ Cardinality(DOMAIN st) <= Len(SEQUENCES[cmd])
    /\ DOMAIN st = {SEQUENCES[cmd][i] : i \in 1..Cardinality(DOMAIN st)}

(* A check has been made only if the ones it is derived from have.           *)
InOrder(st) ==
    LET Ran(c) == c \in DOMAIN st IN
    /\ Ran("repository.clean") => Ran("repository.git")
    /\ Ran("lab.selection") => Ran("inputs.lab-catalog")
    /\ \A c \in Elements(EvidenceChecks) :
          Ran(c) => /\ Ran("project.version") /\ Ran("repository.git") /\ Ran("inputs.source-lock")
                    /\ Ran("inputs.lab-catalog") /\ Ran("lab.selection")
    /\ Ran("evidence.document") => Ran("evidence.file")
    /\ \A c \in {"evidence.result", "evidence.inputs", "evidence.subject"} :
          Ran(c) => Ran("evidence.document")
    /\ Ran("evidence.subject") => Ran("evidence.result")

(* The first checks of a sequence are closed under what precedes them.       *)
LEMMA ChecksInOrder ==
  ASSUME NEW st, NEW cmd, Checks(st, cmd)
  PROVE  InOrder(st)
<1> DEFINE seq == SEQUENCES[cmd]
           n == Cardinality(DOMAIN st)
<1>1. Arranged(seq)
  BY Arrangements DEF Checks
<1>2. n \in Nat /\ n <= Len(seq) /\ DOMAIN st = {seq[i] : i \in 1..n} /\ DOMAIN seq = 1..Len(seq)
      /\ Distinct(seq) /\ Len(seq) \in Nat
  BY <1>1, FS_CardinalityType DEF Checks, Arranged
<1>3. ASSUME NEW a, NEW b, Precedes(seq, a, b), b \in DOMAIN st
      PROVE  a \in DOMAIN st
  <2> HIDE DEF seq, n
  <2>1. PICK i \in DOMAIN seq, j \in DOMAIN seq : i < j /\ seq[i] = a /\ seq[j] = b
    BY <1>3 DEF Precedes
  <2>2. PICK k \in 1..n : seq[k] = b
    BY <1>2, <1>3
  <2>3. k \in DOMAIN seq
    BY <1>2
  <2>4. k = j
    BY <1>2, <2>1, <2>2, <2>3 DEF Distinct
  <2>5. i \in 1..n
    BY <1>2, <2>1, <2>4
  <2> QED
    BY <1>2, <2>1, <2>5
<1>4. \A c \in DOMAIN st : c \in Elements(seq)
  BY <1>2 DEF Elements
<1> HIDE DEF seq, n
<1> QED
  BY <1>1, <1>3, <1>4, ConcreteElements DEF InOrder, Arranged

(* Recording the check whose turn it is: it was not made before, no other    *)
(* check changes, and the checks made are still the first of the sequence.   *)
LEMMA Recorded ==
  ASSUME Checks(statuses, command), NEW id, NEW s, NEW x, Turn(id), Record(id, s, x)
  PROVE  /\ id \notin DOMAIN statuses /\ DOMAIN statuses' = DOMAIN statuses \cup {id}
         /\ \A c : St(statuses', c) = IF c = id THEN s ELSE St(statuses, c)
         /\ Checks(statuses', command')
         /\ InOrder(statuses) /\ InOrder(statuses')
<1> DEFINE seq == SEQUENCES[command]
           n == Cardinality(DOMAIN statuses)
<1>1. seq \in Seq(Name) /\ Distinct(seq)
  BY Arrangements DEF Checks, Arranged
<1>2. n \in Nat /\ n < Len(seq) /\ DOMAIN statuses = {seq[i] : i \in 1..n} /\ DOMAIN seq = 1..Len(seq)
      /\ Len(seq) \in Nat /\ IsFiniteSet(DOMAIN statuses) /\ seq[n + 1] = id
  BY <1>1, FS_CardinalityType DEF Checks, Turn
<1>3. id \notin DOMAIN statuses
  <2> HIDE DEF seq, n
  <2> SUFFICES ASSUME NEW i \in 1..n, seq[i] = id PROVE FALSE
    BY <1>2
  <2>1. i \in DOMAIN seq /\ n + 1 \in DOMAIN seq /\ i # n + 1
    BY <1>2
  <2> QED BY <2>1, <1>1, <1>2 DEF Distinct
<1>4. DOMAIN statuses' = DOMAIN statuses \cup {id} /\ command' = command
  BY DEF Record
<1>5. \A c : St(statuses', c) = IF c = id THEN s ELSE St(statuses, c)
  BY <1>3 DEF Record, St
<1>6. IsFiniteSet(DOMAIN statuses') /\ Cardinality(DOMAIN statuses') = n + 1
  BY <1>2, <1>3, <1>4, FS_AddElement
<1>7. DOMAIN statuses' = {seq[i] : i \in 1..(n + 1)}
  <2> HIDE DEF seq, n
  <2>1. 1..(n + 1) = 1..n \cup {n + 1}
    BY <1>2
  <2> QED BY <2>1, <1>2, <1>4
<1>8. Checks(statuses', command')
  <2>1. n + 1 <= Len(seq)
    BY <1>2
  <2> QED
    BY <2>1, <1>4, <1>6, <1>7 DEF Checks
<1> QED
  BY <1>3, <1>4, <1>5, <1>8, ChecksInOrder

(* The status of a check of the run.                                         *)
Sta(c) == St(statuses, c)

(* The statuses each check can end with.                                     *)
FoundInv ==
    /\ \A c \in {"project.version", "repository.git", "inputs.source-lock", "inputs.lab-catalog",
                 "tool.git", "evidence.file", "evidence.document", "evidence.result"} :
          Sta(c) \in Result \cup {"not-run"}
    /\ Sta("lab.selection") \in {"pass", "unavailable", "not-run"}
    /\ \A c \in {"repository.clean", "evidence.subject"} :
          Sta(c) \in {"pass", "warning", "unavailable", "not-run"}
    /\ Sta("evidence.inputs") \in Result \cup {"warning", "not-run"}

(* What the context holds of the project, its tools and the catalog is what  *)
(* the statuses of the checks that read it say.                              *)
ProjectInv ==
    /\ ctx.version = Seen(Sta("project.version"), "current")
    /\ ctx.revision = Seen(Sta("repository.git"), "current")
    /\ ctx.dirty \in {None, "clean", "dirty"}
    /\ ctx.dirty = None <=> Sta("repository.git") # "pass"
    /\ ctx.git \in {None} \cup Result
    /\ Sta("repository.git") # "not-run" =>
          /\ ctx.git # None
          /\ IF ctx.git = "pass" THEN Sta("repository.git") \in {"pass", "fail"}
             ELSE Sta("repository.git") = ctx.git
    /\ Sta("tool.git") # "not-run" => Sta("tool.git") = ctx.git
    /\ Sta("workflow.task") # "pass" => ctx.task = None
    /\ ctx.lock = Seen(Sta("inputs.source-lock"), "current")
    /\ ctx.index = Seen(Sta("inputs.lab-catalog"), "current")
    /\ ctx.manifest = Seen(Sta("lab.selection"), "current")
    /\ Sta("lab.selection") = "pass" => ctx.lab \in Lab

(* What the context holds of the evidence: the file that was read, the       *)
(* document taken from it, the summary when it describes the project read.   *)
EvidenceInv ==
    /\ Sta("evidence.file") = "pass" => ctx.raw \in Evidence \cup {Malformed}
    /\ IF Sta("evidence.document") = "pass"
       THEN /\ ctx.raw \in Evidence
            /\ ctx.document = ctx.raw
            /\ ctx.summary = IF DescribesProject(ctx.raw) THEN ctx.raw ELSE NoDocument
       ELSE ctx.document = NoDocument /\ ctx.summary = NoDocument
    /\ ctx.subject = IF Sta("evidence.subject") = "pass" THEN "same"
                     ELSE IF Sta("evidence.subject") = "warning" THEN "different" ELSE None

(* A check one of whose prerequisites did not pass is unavailable.           *)
DependInv ==
    \A c \in DOMAIN Dependencies \cap DOMAIN statuses :
        Blocked(Dependencies[c]) => statuses[c] = "unavailable"

(* What a check derived from others says of them stays true to the end: none *)
(* of them is read again.                                                    *)
JudgedInv ==
    /\ Sta("lab.selection") = "unavailable" => Sta("inputs.lab-catalog") # "pass"
    /\ Sta("repository.clean") = "pass" => ctx.dirty = "clean"
    /\ Sta("repository.clean") = "warning" => ctx.dirty = "dirty"
    /\ Sta("repository.clean") = "unavailable" => Sta("repository.git") # "pass"
    /\ Sta("evidence.document") = "unavailable" => Sta("evidence.file") # "pass"
    /\ Sta("evidence.result") = "unavailable" => Sta("evidence.document") # "pass"
    /\ Sta("evidence.result") \in {"pass", "fail"} =>
          (Sta("evidence.result") = "pass" <=> ctx.document.passed /\ ~ctx.document.dirty)
    /\ Sta("evidence.inputs") = "unavailable" =>
          \E c \in {"project.version", "evidence.document", "inputs.source-lock", "lab.selection"} :
              Sta(c) # "pass"
    /\ Sta("evidence.inputs") \in Ok =>
          /\ MatchesInputs(ctx.document)
          /\ Sta("evidence.inputs") = "pass" <=> ctx.document.kind = "platform"
    /\ Sta("evidence.subject") = "unavailable" =>
          \E c \in {"evidence.document", "evidence.result", "repository.git"} : Sta(c) # "pass"
    /\ Sta("evidence.subject") \in Ok =>
          (Sta("evidence.subject") = "pass" <=> ctx.document.revision = ctx.revision)

(* The fields of Context.                                                    *)
Fields == {"lab", "version", "revision", "dirty", "task", "git", "lock", "index", "manifest",
           "subject", "raw", "document", "summary"}

(* A run that made all its checks does not end as an internal failure; what  *)
(* was published is the document of all the checks, with the exit status of  *)
(* its result.                                                               *)
OutcomeInv ==
    /\ DOMAIN statuses = Elements(SEQUENCES[command]) => outcome.state # "internal"
    /\ outcome.state = "published" =>
          /\ DOMAIN statuses = Elements(SEQUENCES[command])
          /\ outcome.exit = ExitCode[Aggregate(statuses)] /\ outcome.document = Document

(* The checks made so far, each with a status.                               *)
ChecksInv ==
    /\ Checks(statuses, command) /\ DOMAIN ctx = Fields
    /\ \A c \in DOMAIN statuses : Sta(c) # "not-run"
(* What is known while a run goes on, and the whole invariant.                *)
KnownInv == FoundInv /\ ProjectInv /\ EvidenceInv /\ DependInv /\ JudgedInv
DiagInv == ChecksInv /\ KnownInv /\ OutcomeInv

(* Blocked in terms of the statuses.                                         *)
LEMMA BlockedMeans == \A ids : Blocked(ids) <=> \E id \in ids : Sta(id) \notin Ok
BY DEF Blocked, Sta, St, Ok

(* The dependencies the validator knows, one check at a time.                *)
LEMMA DependsOn ==
  /\ Dependencies["inputs.lab-catalog"] = {"inputs.source-lock"}
  /\ Dependencies["lab.selection"] = {"inputs.lab-catalog"}
  /\ Dependencies["repository.clean"] = {"repository.git"}
  /\ \A id \in Elements(Source) : Dependencies[id] = {"tool.git", "inputs.source-lock"}
  /\ \A id \in Elements(ConfFile) : Dependencies[id] = {"lab.selection"}
  /\ Dependencies["evidence.file"] = {"lab.selection"}
  /\ Dependencies["evidence.document"] = {"evidence.file", "lab.selection"}
  /\ Dependencies["evidence.result"] = {"evidence.document"}
  /\ Dependencies["evidence.inputs"] = {"project.version", "evidence.document",
                                        "inputs.source-lock", "lab.selection"}
  /\ Dependencies["evidence.subject"] = {"evidence.document", "evidence.result", "repository.git"}
  /\ DOMAIN Dependencies = {"inputs.lab-catalog", "lab.selection", "repository.clean"}
                               \cup Elements(Source) \cup Elements(ConfFile) \cup Elements(EvidenceChecks)
<1>1. Elements(EvidenceChecks) = {"evidence.file", "evidence.document", "evidence.result",
                                  "evidence.inputs", "evidence.subject"}
  BY ConcreteElements
<1>2. \A c \in {"inputs.lab-catalog", "lab.selection", "repository.clean", "evidence.file",
                "evidence.document", "evidence.result", "evidence.inputs", "evidence.subject"} :
        c \notin Elements(Source) /\ c \notin Elements(ConfFile)
  BY NamesAssumption, ConcreteElements DEF FixedChecks
<1>3. /\ Dependencies["inputs.lab-catalog"] = {"inputs.source-lock"}
      /\ Dependencies["lab.selection"] = {"inputs.lab-catalog"}
      /\ Dependencies["repository.clean"] = {"repository.git"}
  BY <1>2 DEF Dependencies
<1>4. ASSUME NEW id \in Elements(Source) PROVE Dependencies[id] = {"tool.git", "inputs.source-lock"}
  <2>1. id \notin Elements(ConfFile) /\ id \notin {"inputs.lab-catalog", "lab.selection",
            "repository.clean", "evidence.file", "evidence.document", "evidence.result",
            "evidence.inputs", "evidence.subject"}
    BY <1>2, NamesAssumption
  <2> QED
    BY <2>1 DEF Dependencies
<1>5. ASSUME NEW id \in Elements(ConfFile) PROVE Dependencies[id] = {"lab.selection"}
  <2>1. id \notin Elements(Source) /\ id \notin {"inputs.lab-catalog", "lab.selection",
            "repository.clean", "evidence.file", "evidence.document", "evidence.result",
            "evidence.inputs", "evidence.subject"}
    BY <1>2, NamesAssumption
  <2> QED
    BY <2>1 DEF Dependencies
<1>6. Dependencies["evidence.file"] = {"lab.selection"}
  BY <1>1, <1>2 DEF Dependencies
<1>7. Dependencies["evidence.document"] = {"evidence.file", "lab.selection"}
  BY <1>1, <1>2 DEF Dependencies
<1>8. Dependencies["evidence.result"] = {"evidence.document"}
  BY <1>1, <1>2 DEF Dependencies
<1>9. Dependencies["evidence.inputs"] = {"project.version", "evidence.document",
                                         "inputs.source-lock", "lab.selection"}
  BY <1>1, <1>2 DEF Dependencies
<1>10. Dependencies["evidence.subject"] = {"evidence.document", "evidence.result", "repository.git"}
  BY <1>1, <1>2 DEF Dependencies
<1>11. DOMAIN Dependencies = {"inputs.lab-catalog", "lab.selection", "repository.clean"}
                               \cup Elements(Source) \cup Elements(ConfFile) \cup Elements(EvidenceChecks)
  BY DEF Dependencies
<1> QED
  BY <1>3, <1>4, <1>5, <1>6, <1>7, <1>8, <1>9, <1>10, <1>11

(* Recording a check keeps the dependencies: a prerequisite that is not made *)
(* yet blocks as one that did not pass.                                      *)
LEMMA DependKept ==
  ASSUME ChecksInv, DependInv, NEW id, NEW s, NEW x, Turn(id), Record(id, s, x),
         id \in DOMAIN Dependencies /\ Blocked(Dependencies[id]) => s = "unavailable"
  PROVE  DependInv'
<1>1. /\ id \notin DOMAIN statuses /\ DOMAIN statuses' = DOMAIN statuses \cup {id}
      /\ statuses' = [c \in DOMAIN statuses \cup {id} |-> IF c = id THEN s ELSE statuses[c]]
  BY Recorded DEF ChecksInv, Record
<1>2. \A ids : Blocked(ids)' => Blocked(ids)
  BY <1>1 DEF Blocked
<1> QED
  BY <1>1, <1>2 DEF DependInv


(* The checks derived from id that have not been made when it is the turn of *)
(* id.                                                                       *)
NotYet(id) ==
    /\ id \in {"project.version", "repository.git", "inputs.source-lock", "inputs.lab-catalog",
               "lab.selection"} =>
          /\ Sta("evidence.file") = "not-run" /\ Sta("evidence.document") = "not-run"
          /\ Sta("evidence.result") = "not-run" /\ Sta("evidence.inputs") = "not-run"
          /\ Sta("evidence.subject") = "not-run"
    /\ id = "repository.git" => Sta("repository.clean") = "not-run"
    /\ id = "inputs.lab-catalog" => Sta("lab.selection") = "not-run"
    /\ id = "evidence.file" => Sta("evidence.document") = "not-run"
    /\ id \in {"evidence.file", "evidence.document"} =>
          /\ Sta("evidence.result") = "not-run" /\ Sta("evidence.inputs") = "not-run"
          /\ Sta("evidence.subject") = "not-run"
    /\ id = "evidence.result" => Sta("evidence.subject") = "not-run"

(* What every recording of a check gives: the checks and the dependencies    *)
(* are kept, one status is new, and nothing derived from it has been made.   *)
LEMMA Moved ==
  ASSUME ChecksInv, DependInv, NEW id, NEW s, NEW x, Turn(id), Record(id, s, x), DOMAIN x = Fields,
         s # "not-run",
         id \in DOMAIN Dependencies => (Blocked(Dependencies[id]) => s = "unavailable")
  PROVE  /\ ChecksInv' /\ DependInv'
         /\ Sta(id) = "not-run" /\ NotYet(id)
         /\ \A c : Sta(c)' = IF c = id THEN s ELSE Sta(c)
         /\ ctx' = x
<1>1. /\ id \notin DOMAIN statuses
      /\ \A c : Sta(c)' = IF c = id THEN s ELSE Sta(c)
      /\ Checks(statuses', command') /\ InOrder(statuses)
  BY Recorded DEF ChecksInv, Sta
<1>2. ctx' = x
  BY DEF Record
<1>3. NotYet(id)
  BY <1>1, ConcreteElements DEF InOrder, NotYet, Sta, St
<1>4. DependInv'
  BY DependKept
<1>5. DOMAIN statuses' = DOMAIN statuses \cup {id}
  BY DEF Record
<1>6. ChecksInv'
  BY <1>1, <1>2, <1>5 DEF ChecksInv
<1> QED
  BY <1>1, <1>2, <1>3, <1>4, <1>6 DEF Sta, St

(* project.version is the only reading of the version.                       *)
LEMMA VersionKeeps ==
  ASSUME ChecksInv, KnownInv, ProjectVersion
  PROVE  ChecksInv' /\ KnownInv'
<1> DEFINE id == "project.version"
<1>1. PICK s \in Result : Turn(id) /\ Record(id, s, [ctx EXCEPT !.version = Seen(s, "current")])
  BY DEF ProjectVersion
<1>2. /\ ChecksInv' /\ DependInv' /\ Sta(id) = "not-run" /\ NotYet(id)
      /\ \A c : Sta(c)' = IF c = id THEN s ELSE Sta(c)
      /\ ctx' = [ctx EXCEPT !.version = Seen(s, "current")]
  BY <1>1, Moved, DependsOn, ConcreteElements, NamesAssumption DEF KnownInv, Result, ChecksInv, FixedChecks
<1>3. ctx'.version = Seen(s, "current") /\ \A f \in Fields \ {"version"} : ctx'[f] = ctx[f]
  BY <1>2 DEF ChecksInv, Fields
<1> HIDE DEF id
<1>4. FoundInv'
  BY <1>2 DEF KnownInv, FoundInv, id
<1>5. ProjectInv'
  BY <1>2, <1>3 DEF KnownInv, ProjectInv, Fields, id
<1>6. EvidenceInv'
  BY <1>2, <1>3 DEF KnownInv, EvidenceInv, Fields, NotYet, id
<1>7. JudgedInv'
  BY <1>2, <1>3 DEF KnownInv, JudgedInv, Fields, NotYet, Ok, id
<1> QED
  BY <1>2, <1>4, <1>5, <1>6, <1>7 DEF KnownInv

(* repository.git leaves revision and cleanliness exactly when it passes,    *)
(* and the state of git it remembers explains its status.                    *)
LEMMA RepositoryKeeps ==
  ASSUME ChecksInv, KnownInv, Repository
  PROVE  ChecksInv' /\ KnownInv'
<1> DEFINE id == "repository.git"
<1>1. PICK g \in GitStates, s \in {"pass", "fail"}, d \in {"clean", "dirty"} :
          Turn(id) /\ Record(id, IF g = "pass" THEN s ELSE g,
                 [ctx EXCEPT !.git = g,
                     !.revision = IF g = "pass" THEN Seen(s, "current") ELSE None,
                     !.dirty = IF g = "pass" THEN Seen(s, d) ELSE None])
  BY DEF Repository
<1> DEFINE status == IF g = "pass" THEN s ELSE g
           x == [ctx EXCEPT !.git = g,
                     !.revision = IF g = "pass" THEN Seen(s, "current") ELSE None,
                     !.dirty = IF g = "pass" THEN Seen(s, d) ELSE None]
<1>1a. DOMAIN x = Fields /\ status # "not-run"
  BY DEF ChecksInv, GitStates, KnownInv, ProjectInv, Result
<1>1b. id \notin DOMAIN Dependencies /\ Turn(id) /\ Record(id, status, x)
  BY <1>1, DependsOn, ConcreteElements, NamesAssumption DEF FixedChecks
<1>2. /\ ChecksInv' /\ DependInv' /\ Sta(id) = "not-run" /\ NotYet(id)
      /\ \A c : Sta(c)' = IF c = id THEN status ELSE Sta(c)
      /\ ctx' = x
  <2> HIDE DEF x, status, id
  <2> QED
    BY <1>1a, <1>1b, Moved DEF KnownInv, Result
<1>3. /\ ctx'.git = g /\ ctx'.revision = IF g = "pass" THEN Seen(s, "current") ELSE None
      /\ ctx'.dirty = IF g = "pass" THEN Seen(s, d) ELSE None
      /\ \A f \in Fields \ {"git", "revision", "dirty"} : ctx'[f] = ctx[f]
  BY <1>2 DEF ChecksInv, Fields
<1>3a. g \in Result /\ (ctx.git # None => g = ctx.git)
  BY DEF GitStates, KnownInv, ProjectInv
<1> HIDE DEF id
<1>4. FoundInv'
  BY <1>2, <1>3a DEF KnownInv, FoundInv, id, Result
<1>5. ProjectInv'
  <2>1. /\ Sta("repository.git")' = status /\ Sta("tool.git")' = Sta("tool.git")
        /\ \A c : c # "repository.git" => Sta(c)' = Sta(c)
    BY <1>2 DEF id
  <2>2. ctx'.revision = Seen(status, "current")
    BY <1>3, <1>3a DEF Result, Seen
  <2>3. ctx'.dirty \in {None, "clean", "dirty"} /\ (ctx'.dirty = None <=> status # "pass")
    BY <1>3, <1>3a DEF Result, Seen, None
  <2>4. /\ ctx'.git \in {None} \cup Result /\ ctx'.git # None
        /\ IF ctx'.git = "pass" THEN status \in {"pass", "fail"} ELSE status = ctx'.git
    BY <1>3, <1>3a DEF Result, None
  <2>5. Sta("tool.git") # "not-run" => Sta("tool.git") = ctx'.git
    BY <1>3, <1>3a DEF KnownInv, FoundInv, ProjectInv, Result, None
  <2> HIDE DEF status
  <2> QED
    BY <1>3, <2>1, <2>2, <2>3, <2>4, <2>5 DEF KnownInv, ProjectInv, Fields
<1>6. EvidenceInv'
  BY <1>2, <1>3 DEF KnownInv, EvidenceInv, Fields, NotYet, id, DescribesProject
<1>7. JudgedInv'
  BY <1>2, <1>3 DEF KnownInv, JudgedInv, Fields, NotYet, Ok, id
<1> QED
  BY <1>2, <1>4, <1>5, <1>6, <1>7 DEF KnownInv

(* A task is known only from a task state that was valid.                    *)
LEMMA WorkflowKeeps ==
  ASSUME ChecksInv, KnownInv, Workflow
  PROVE  ChecksInv' /\ KnownInv'
<1> DEFINE id == "workflow.task"
<1>1. PICK s \in Result, active \in {None, "task"} :
          Turn(id) /\ Record(id, s, [ctx EXCEPT !.task = Seen(s, active)])
  BY DEF Workflow
<1>2. /\ ChecksInv' /\ DependInv' /\ Sta(id) = "not-run" /\ NotYet(id)
      /\ \A c : Sta(c)' = IF c = id THEN s ELSE Sta(c)
      /\ ctx' = [ctx EXCEPT !.task = Seen(s, active)]
  BY <1>1, Moved, DependsOn, ConcreteElements, NamesAssumption DEF KnownInv, Result, ChecksInv, FixedChecks
<1>3. ctx'.task = Seen(s, active) /\ \A f \in Fields \ {"task"} : ctx'[f] = ctx[f]
  BY <1>2 DEF ChecksInv, Fields
<1> HIDE DEF id
<1>4. FoundInv'
  BY <1>2 DEF KnownInv, FoundInv, id
<1>5. ProjectInv'
  BY <1>2, <1>3 DEF KnownInv, ProjectInv, Fields, id, Seen
<1>6. EvidenceInv'
  BY <1>2, <1>3 DEF KnownInv, EvidenceInv, Fields, DescribesProject, id
<1>7. JudgedInv'
  BY <1>2, <1>3 DEF KnownInv, JudgedInv, Fields, MatchesInputs, id
<1> QED
  BY <1>2, <1>4, <1>5, <1>6, <1>7 DEF KnownInv

(* The digest of the lock is kept exactly when the lock passed.              *)
LEMMA SourceLockKeeps ==
  ASSUME ChecksInv, KnownInv, SourceLock
  PROVE  ChecksInv' /\ KnownInv'
<1> DEFINE id == "inputs.source-lock"
<1>1. PICK s \in Result :
          Turn(id) /\ Record(id, s, [ctx EXCEPT !.lock = Seen(s, "current")])
  BY DEF SourceLock
<1>2. /\ ChecksInv' /\ DependInv' /\ Sta(id) = "not-run" /\ NotYet(id)
      /\ \A c : Sta(c)' = IF c = id THEN s ELSE Sta(c)
      /\ ctx' = [ctx EXCEPT !.lock = Seen(s, "current")]
  BY <1>1, Moved, DependsOn, ConcreteElements, NamesAssumption DEF KnownInv, Result, ChecksInv, FixedChecks
<1>3. ctx'.lock = Seen(s, "current") /\ \A f \in Fields \ {"lock"} : ctx'[f] = ctx[f]
  BY <1>2 DEF ChecksInv, Fields
<1> HIDE DEF id
<1>4. FoundInv'
  BY <1>2 DEF KnownInv, FoundInv, id
<1>5. ProjectInv'
  BY <1>2, <1>3 DEF KnownInv, ProjectInv, Fields, id
<1>6. EvidenceInv'
  BY <1>2, <1>3 DEF KnownInv, EvidenceInv, Fields, NotYet, id
<1>7. JudgedInv'
  BY <1>2, <1>3 DEF KnownInv, JudgedInv, Fields, NotYet, Ok, id
<1> QED
  BY <1>2, <1>4, <1>5, <1>6, <1>7 DEF KnownInv

(* The digest of the index is kept exactly when the catalog passed; a lab    *)
(* that was given is not replaced.                                           *)
LEMMA LabCatalogKeeps ==
  ASSUME ChecksInv, KnownInv, LabCatalog
  PROVE  ChecksInv' /\ KnownInv'
<1> DEFINE id == "inputs.lab-catalog"
           adopted(s) == [ctx EXCEPT !.lab = IF ctx.lab = None THEN DefaultLab ELSE ctx.lab,
                                     !.index = Seen(s, "current")]
<1>1. Turn(id) /\ \E s \in Result : \E x \in {ctx, adopted(s)} :
          /\ Record(id, s, x) /\ (Blocked({"inputs.source-lock"}) => s = "unavailable")
          /\ x = ctx => s # "pass" \/ x = adopted(s)
  BY DEF LabCatalog, Result
<1>1b. PICK s \in Result : \E x \in {ctx, adopted(s)} :
          /\ Record(id, s, x) /\ (Blocked({"inputs.source-lock"}) => s = "unavailable")
          /\ x = ctx => s # "pass" \/ x = adopted(s)
  BY <1>1
<1>1a. PICK x \in {ctx, adopted(s)} :
          /\ Record(id, s, x) /\ (Blocked({"inputs.source-lock"}) => s = "unavailable")
          /\ x = ctx => s # "pass" \/ x = adopted(s)
  BY <1>1b
<1>2. DOMAIN x = Fields
  BY DEF ChecksInv, Fields
<1>3. /\ ChecksInv' /\ DependInv' /\ Sta(id) = "not-run" /\ NotYet(id)
      /\ \A c : Sta(c)' = IF c = id THEN s ELSE Sta(c)
      /\ ctx' = x
  BY <1>1, <1>1a, <1>2, Moved, DependsOn DEF KnownInv, Result
<1>4. ctx.index = None
  BY <1>3 DEF KnownInv, ProjectInv, Seen
<1>5. /\ ctx'.index = Seen(s, "current")
      /\ ctx'.lab = ctx.lab \/ (ctx'.lab = DefaultLab /\ ctx.lab = None)
      /\ \A f \in Fields \ {"lab", "index"} : ctx'[f] = ctx[f]
  <2>1. CASE x = adopted(s)
    BY <1>3, <2>1 DEF ChecksInv, Fields
  <2>2. CASE x = ctx /\ s # "pass"
    BY <1>3, <1>4, <2>2 DEF Seen
  <2> QED
    BY <1>1a, <2>1, <2>2
<1> HIDE DEF id
<1>6. FoundInv'
  BY <1>3 DEF KnownInv, FoundInv, id
<1>7. ProjectInv'
  BY <1>3, <1>5 DEF KnownInv, ProjectInv, Fields, NotYet, id
<1>8. EvidenceInv'
  BY <1>3, <1>5 DEF KnownInv, EvidenceInv, Fields, NotYet, id
<1>9. JudgedInv'
  BY <1>3, <1>5 DEF KnownInv, JudgedInv, Fields, NotYet, Ok, id
<1> QED
  BY <1>3, <1>6, <1>7, <1>8, <1>9 DEF KnownInv

(* A step that records nothing.                                              *)
LEMMA IdleKeeps ==
  ASSUME ChecksInv, KnownInv, UNCHANGED <<command, statuses, ctx>>
  PROVE  ChecksInv' /\ KnownInv'
<1>1. \A c : Sta(c)' = Sta(c)
  BY DEF Sta
<1>2. ChecksInv' /\ DependInv'
  BY <1>1 DEF ChecksInv, KnownInv, DependInv, Blocked
<1>3. FoundInv' /\ ProjectInv'
  BY <1>1 DEF KnownInv, FoundInv, ProjectInv
<1>4. EvidenceInv'
  BY <1>1 DEF KnownInv, EvidenceInv, DescribesProject
<1>5. JudgedInv'
  BY <1>1 DEF KnownInv, JudgedInv, MatchesInputs
<1> QED
  BY <1>2, <1>3, <1>4, <1>5 DEF KnownInv

(* The checks the invariant speaks of.                                       *)
Mentioned == {"project.version", "repository.git", "workflow.task", "inputs.source-lock",
              "inputs.lab-catalog", "lab.selection", "repository.clean", "tool.git", "evidence.file",
              "evidence.document", "evidence.result", "evidence.inputs", "evidence.subject"}

(* A check that only looks leaves the context alone.                         *)
LEMMA LookKeeps ==
  ASSUME ChecksInv, KnownInv, NEW id, id \notin Mentioned, NEW prerequisites, Look(id, prerequisites),
         id \in DOMAIN Dependencies => prerequisites = Dependencies[id]
  PROVE  ChecksInv' /\ KnownInv'
<1>1. PICK s \in (IF Blocked(prerequisites) THEN {"unavailable"} ELSE Result) : Turn(id) /\ Record(id, s, ctx)
  BY DEF Look
<1>2. id \in DOMAIN Dependencies => (Blocked(Dependencies[id]) => s = "unavailable")
  BY <1>1
<1>3. /\ ChecksInv' /\ DependInv' /\ \A c : Sta(c)' = IF c = id THEN s ELSE Sta(c)
      /\ ctx' = ctx
  BY <1>1, <1>2, Moved DEF KnownInv, Result, ChecksInv
<1>4. \A c \in Mentioned : Sta(c)' = Sta(c)
  BY <1>3
<1>5. FoundInv' /\ ProjectInv'
  BY <1>3, <1>4 DEF KnownInv, FoundInv, ProjectInv, Mentioned
<1>6. EvidenceInv'
  BY <1>3, <1>4 DEF KnownInv, EvidenceInv, DescribesProject, Mentioned
<1>7. JudgedInv'
  BY <1>3, <1>4 DEF KnownInv, JudgedInv, MatchesInputs, Mentioned
<1> QED
  BY <1>3, <1>5, <1>6, <1>7 DEF KnownInv

(* ssh, the checkouts and the build files.                                   *)
LEMMA LooksKeep ==
  ASSUME ChecksInv, KnownInv,
         \/ ToolSsh
         \/ \E id \in Elements(Source) : SourceCheckout(id)
         \/ \E id \in Elements(ConfFile) : BuildFile(id)
  PROVE  ChecksInv' /\ KnownInv'
<1>1. Mentioned \cap (Elements(Source) \cup Elements(ConfFile)) = {}
  BY NamesAssumption, ConcreteElements DEF Mentioned, FixedChecks
<1>2. CASE ToolSsh
  <2>1. "tool.ssh" \notin DOMAIN Dependencies /\ "tool.ssh" \notin Mentioned
    BY DependsOn, ConcreteElements, NamesAssumption DEF FixedChecks, Mentioned
  <2> QED
    BY <1>2, <2>1, LookKeeps DEF ToolSsh
<1>3. ASSUME NEW id \in Elements(Source), SourceCheckout(id) PROVE ChecksInv' /\ KnownInv'
  BY <1>1, <1>3, LookKeeps, DependsOn DEF SourceCheckout
<1>4. ASSUME NEW id \in Elements(ConfFile), BuildFile(id) PROVE ChecksInv' /\ KnownInv'
  BY <1>1, <1>4, LookKeeps, DependsOn DEF BuildFile
<1> QED
  BY <1>2, <1>3, <1>4

(* lab.selection passes with a lab of the catalog, or the run ends without a *)
(* document.                                                                 *)
LEMMA SelectionKeeps ==
  ASSUME ChecksInv, KnownInv, Selection
  PROVE  ChecksInv' /\ KnownInv'
<1> DEFINE id == "lab.selection"
           selected == [ctx EXCEPT !.manifest = "current"]
<1>1. CASE ~Blocked({"inputs.lab-catalog"}) /\ ctx.lab \notin Lab
  <2>1. UNCHANGED <<command, statuses, ctx>>
    BY <1>1 DEF Selection
  <2> QED
    BY <2>1, IdleKeeps
<1>2. ASSUME NEW s \in {"pass", "unavailable"}, NEW x, Turn(id), Record(id, s, x),
             s = "unavailable" => x = ctx /\ Blocked({"inputs.lab-catalog"}),
             s = "pass" => x = selected /\ ctx.lab \in Lab /\ ~Blocked({"inputs.lab-catalog"})
      PROVE  ChecksInv' /\ KnownInv'
  <2>1. DOMAIN x = Fields
    BY <1>2 DEF ChecksInv
  <2>2. /\ ChecksInv' /\ DependInv' /\ Sta(id) = "not-run" /\ NotYet(id)
        /\ \A c : Sta(c)' = IF c = id THEN s ELSE Sta(c)
        /\ ctx' = x
    BY <1>2, <2>1, Moved, DependsOn DEF KnownInv, Result
  <2>3. ctx.manifest = None
    BY <2>2 DEF KnownInv, ProjectInv, Seen
  <2>4. /\ ctx'.manifest = Seen(s, "current") /\ \A f \in Fields \ {"manifest"} : ctx'[f] = ctx[f]
    BY <1>2, <2>2, <2>3 DEF Seen, ChecksInv, Fields
  <2>5. s = "unavailable" => Sta("inputs.lab-catalog") # "pass"
    BY <1>2, BlockedMeans DEF Ok
  <2> HIDE DEF id
  <2>6. FoundInv'
    BY <2>2 DEF KnownInv, FoundInv, id
  <2>7. ProjectInv'
    BY <1>2, <2>2, <2>4 DEF KnownInv, ProjectInv, Fields, id
  <2>8. EvidenceInv'
    BY <2>2, <2>4 DEF KnownInv, EvidenceInv, Fields, NotYet, id
  <2>9. JudgedInv'
    BY <2>2, <2>4, <2>5 DEF KnownInv, JudgedInv, Fields, NotYet, Ok, id
  <2> QED
    BY <2>2, <2>6, <2>7, <2>8, <2>9 DEF KnownInv
<1> QED
  BY <1>1, <1>2 DEF Selection

(* The cleanliness reported is the one repository.git read.                  *)
LEMMA CleanlinessKeeps ==
  ASSUME ChecksInv, KnownInv, Cleanliness
  PROVE  ChecksInv' /\ KnownInv'
<1> DEFINE id == "repository.clean"
           s == IF Blocked({"repository.git"}) THEN "unavailable"
                ELSE IF ctx.dirty = "dirty" THEN "warning" ELSE "pass"
<1>1. Turn(id) /\ Record(id, s, ctx)
  BY DEF Cleanliness
<1>1a. s # "not-run" /\ (Blocked(Dependencies[id]) => s = "unavailable")
  BY DependsOn
<1>2. /\ ChecksInv' /\ DependInv' /\ Sta(id) = "not-run"
      /\ \A c : Sta(c)' = IF c = id THEN s ELSE Sta(c)
      /\ ctx' = ctx
  <2> HIDE DEF s, id
  <2> QED
    BY <1>1, <1>1a, Moved DEF KnownInv, Result, ChecksInv
<1>3. /\ s \in {"pass", "warning", "unavailable"}
      /\ s = "unavailable" => Sta("repository.git") # "pass"
      /\ s = "warning" => ctx.dirty = "dirty"
      /\ s = "pass" => ctx.dirty = "clean"
  <2>1. Blocked({"repository.git"}) <=> Sta("repository.git") # "pass"
    BY BlockedMeans DEF Ok, KnownInv, FoundInv, Result
  <2>2. /\ ctx.dirty \in {None, "clean", "dirty"}
        /\ ctx.dirty = None <=> Sta("repository.git") # "pass"
    BY DEF KnownInv, ProjectInv
  <2> QED
    BY <2>1, <2>2
<1> HIDE DEF id, s
<1>4. FoundInv'
  BY <1>2, <1>3 DEF KnownInv, FoundInv, id
<1>5. ProjectInv'
  BY <1>2 DEF KnownInv, ProjectInv, id
<1>6. EvidenceInv'
  BY <1>2 DEF KnownInv, EvidenceInv, DescribesProject, id
<1>7. JudgedInv'
  BY <1>2, <1>3 DEF KnownInv, JudgedInv, MatchesInputs, id
<1> QED
  BY <1>2, <1>4, <1>5, <1>6, <1>7 DEF KnownInv

(* tool.git reports the state of git that repository.git met, or leaves its  *)
(* own.                                                                      *)
LEMMA ToolGitKeeps ==
  ASSUME ChecksInv, KnownInv, ToolGit
  PROVE  ChecksInv' /\ KnownInv'
<1> DEFINE id == "tool.git"
<1>1. PICK g \in GitStates : Turn(id) /\ Record(id, g, [ctx EXCEPT !.git = g])
  BY DEF ToolGit
<1>1a. g # "not-run"
  BY DEF GitStates, KnownInv, ProjectInv, Result
<1>2. /\ ChecksInv' /\ DependInv' /\ Sta(id) = "not-run"
      /\ \A c : Sta(c)' = IF c = id THEN g ELSE Sta(c)
      /\ ctx' = [ctx EXCEPT !.git = g]
  BY <1>1, <1>1a, Moved, DependsOn, ConcreteElements, NamesAssumption DEF KnownInv, Result, ChecksInv, FixedChecks
<1>3. /\ g \in Result /\ (ctx.git # None => g = ctx.git)
      /\ ctx'.git = g /\ \A f \in Fields \ {"git"} : ctx'[f] = ctx[f]
  BY <1>2 DEF GitStates, KnownInv, ProjectInv, ChecksInv, Fields
<1> HIDE DEF id
<1>4. FoundInv'
  BY <1>2, <1>3 DEF KnownInv, FoundInv, id
<1>5. ProjectInv'
  BY <1>2, <1>3 DEF KnownInv, ProjectInv, Fields, id, None, Result
<1>6. EvidenceInv'
  BY <1>2, <1>3 DEF KnownInv, EvidenceInv, DescribesProject, Fields, id
<1>7. JudgedInv'
  BY <1>2, <1>3 DEF KnownInv, JudgedInv, MatchesInputs, Fields, id
<1> QED
  BY <1>2, <1>4, <1>5, <1>6, <1>7 DEF KnownInv

(* A file that passed holds a document, valid or not.                        *)
LEMMA EvidenceFileKeeps ==
  ASSUME ChecksInv, KnownInv, EvidenceFile
  PROVE  ChecksInv' /\ KnownInv'
<1> DEFINE id == "evidence.file"
<1>1. ASSUME NEW s \in Result, NEW x, Turn(id), Record(id, s, x),
             Blocked({"lab.selection"}) => s = "unavailable",
             IF s = "pass" THEN \E raw \in Evidence \cup {Malformed} : x = [ctx EXCEPT !.raw = raw]
             ELSE x = ctx
      PROVE  ChecksInv' /\ KnownInv'
  <2>1. DOMAIN x = Fields
    BY <1>1 DEF ChecksInv
  <2>2. /\ ChecksInv' /\ DependInv' /\ Sta(id) = "not-run" /\ NotYet(id)
        /\ \A c : Sta(c)' = IF c = id THEN s ELSE Sta(c)
        /\ ctx' = x
    BY <1>1, <2>1, Moved, DependsOn DEF KnownInv, Result
  <2>3. /\ s = "pass" => ctx'.raw \in Evidence \cup {Malformed}
        /\ \A f \in Fields \ {"raw"} : ctx'[f] = ctx[f]
    BY <1>1, <2>2 DEF ChecksInv, Fields
  <2> HIDE DEF id
  <2>4. FoundInv'
    BY <2>2 DEF KnownInv, FoundInv, id
  <2>5. ProjectInv'
    BY <2>2, <2>3 DEF KnownInv, ProjectInv, Fields, id
  <2>6. EvidenceInv'
    BY <2>2, <2>3 DEF KnownInv, EvidenceInv, Fields, NotYet, id
  <2>7. JudgedInv'
    BY <2>2, <2>3 DEF KnownInv, JudgedInv, Fields, NotYet, Ok, id
  <2> QED
    BY <2>2, <2>4, <2>5, <2>6, <2>7 DEF KnownInv
<1>2. Turn(id) /\ \E s \in Result : \E x : 
          /\ Record(id, s, x)
          /\ Blocked({"lab.selection"}) => s = "unavailable"
          /\ IF s = "pass" THEN \E raw \in Evidence \cup {Malformed} : x = [ctx EXCEPT !.raw = raw]
             ELSE x = ctx
  <2>1. CASE \E s \in {"fail", "unavailable"} :
                 (Blocked({"lab.selection"}) => s = "unavailable") /\ Record(id, s, ctx)
    BY <2>1 DEF EvidenceFile, Result
  <2>2. CASE ~Blocked({"lab.selection"}) /\ \E raw \in Evidence \cup {Malformed} :
                 Record(id, "pass", [ctx EXCEPT !.raw = raw])
    BY <2>2 DEF EvidenceFile, Result
  <2> QED
    BY <2>1, <2>2 DEF EvidenceFile
<1> QED
  BY <1>1, <1>2

(* The document is the one the file held; a document that was not evaluated  *)
(* had no file.                                                              *)
LEMMA EvidenceDocumentKeeps ==
  ASSUME ChecksInv, KnownInv, EvidenceDocument
  PROVE  ChecksInv' /\ KnownInv'
<1> DEFINE id == "evidence.document"
           adopted == [ctx EXCEPT !.document = ctx.raw,
                         !.summary = IF DescribesProject(ctx.raw) THEN ctx.raw ELSE NoDocument]
<1>1. ASSUME NEW s \in Result, NEW x, Turn(id), Record(id, s, x),
             Blocked({"evidence.file", "lab.selection"}) <=> s = "unavailable",
             IF s = "pass" THEN x = adopted /\ ctx.raw # Malformed ELSE x = ctx
      PROVE  ChecksInv' /\ KnownInv'
  <2>1. DOMAIN x = Fields
    BY <1>1 DEF ChecksInv
  <2>2. /\ ChecksInv' /\ DependInv' /\ Sta(id) = "not-run" /\ NotYet(id)
        /\ \A c : Sta(c)' = IF c = id THEN s ELSE Sta(c)
        /\ ctx' = x
    BY <1>1, <2>1, Moved, DependsOn DEF KnownInv, Result
  <2>3. /\ \A f \in Fields \ {"document", "summary"} : ctx'[f] = ctx[f]
        /\ IF s = "pass"
           THEN /\ ctx'.document = ctx.raw
                /\ ctx'.summary = IF DescribesProject(ctx.raw) THEN ctx.raw ELSE NoDocument
           ELSE ctx'.document = NoDocument /\ ctx'.summary = NoDocument
    <3>1. CASE s = "pass"
      BY <1>1, <2>2, <3>1 DEF ChecksInv, Fields
    <3>2. CASE s # "pass"
      BY <1>1, <2>2, <3>2 DEF KnownInv, EvidenceInv
    <3> QED BY <3>1, <3>2
  <2>4. s = "pass" => ctx.raw \in Evidence
    BY <1>1, BlockedMeans DEF KnownInv, FoundInv, EvidenceInv, Ok, Result
  <2>5. s = "unavailable" => Sta("evidence.file") # "pass"
    <3>1. "evidence.file" \in DOMAIN Dependencies
      BY DependsOn, ConcreteElements
    <3>2. Dependencies["evidence.file"] = {"lab.selection"}
      BY DependsOn
    <3>3. Sta("evidence.file") = "pass" => ~Blocked({"lab.selection"})
      BY <3>1, <3>2 DEF KnownInv, DependInv, Sta, St
    <3> QED
      BY <1>1, <3>3, BlockedMeans DEF Ok
  <2> HIDE DEF id
  <2>6. FoundInv'
    BY <2>2 DEF KnownInv, FoundInv, id
  <2>7. ProjectInv'
    BY <2>2, <2>3 DEF KnownInv, ProjectInv, Fields, id
  <2>8. EvidenceInv'
    BY <2>2, <2>3, <2>4 DEF KnownInv, EvidenceInv, Fields, NotYet, DescribesProject, id
  <2>9. JudgedInv'
    BY <2>2, <2>3, <2>5 DEF KnownInv, JudgedInv, Fields, NotYet, Ok, id
  <2> QED
    BY <2>2, <2>6, <2>7, <2>8, <2>9 DEF KnownInv
<1> QED
  BY <1>1 DEF EvidenceDocument, Result

(* The result is the document's.                                             *)
LEMMA EvidenceResultKeeps ==
  ASSUME ChecksInv, KnownInv, EvidenceResult
  PROVE  ChecksInv' /\ KnownInv'
<1> DEFINE id == "evidence.result"
           s == IF Blocked({"evidence.document"}) THEN "unavailable"
                ELSE IF ctx.document.passed /\ ~ctx.document.dirty THEN "pass" ELSE "fail"
<1>1. Turn(id) /\ Record(id, s, ctx)
  BY DEF EvidenceResult
<1>1a. s # "not-run" /\ (Blocked(Dependencies[id]) => s = "unavailable")
  BY DependsOn
<1>2. /\ ChecksInv' /\ DependInv' /\ Sta(id) = "not-run" /\ NotYet(id)
      /\ \A c : Sta(c)' = IF c = id THEN s ELSE Sta(c)
      /\ ctx' = ctx
  <2> HIDE DEF s, id
  <2> QED
    BY <1>1, <1>1a, Moved DEF KnownInv, ChecksInv
<1>3. /\ s \in Result
      /\ s = "unavailable" => Sta("evidence.document") # "pass"
      /\ s \in {"pass", "fail"} => (s = "pass" <=> ctx.document.passed /\ ~ctx.document.dirty)
  BY BlockedMeans DEF Ok, Result
<1> HIDE DEF id, s
<1>4. FoundInv'
  BY <1>2, <1>3 DEF KnownInv, FoundInv, id
<1>5. ProjectInv'
  BY <1>2 DEF KnownInv, ProjectInv, id
<1>6. EvidenceInv'
  BY <1>2 DEF KnownInv, EvidenceInv, DescribesProject, id
<1>7. JudgedInv'
  BY <1>2, <1>3 DEF KnownInv, JudgedInv, MatchesInputs, NotYet, Ok, id
<1> QED
  BY <1>2, <1>4, <1>5, <1>6, <1>7 DEF KnownInv

(* The inputs match the version, the lock, the catalog and the lab read      *)
(* before.                                                                   *)
LEMMA EvidenceInputsKeeps ==
  ASSUME ChecksInv, KnownInv, EvidenceInputs
  PROVE  ChecksInv' /\ KnownInv'
<1> DEFINE id == "evidence.inputs"
           from == {"project.version", "evidence.document", "inputs.source-lock", "lab.selection"}
           s == IF Blocked(from) THEN "unavailable"
                ELSE IF ~MatchesInputs(ctx.document) THEN "fail"
                ELSE IF ctx.document.kind = "platform" THEN "pass" ELSE "warning"
<1>1. Turn(id) /\ Record(id, s, ctx)
  BY DEF EvidenceInputs
<1>2. /\ ChecksInv' /\ DependInv' /\ Sta(id) = "not-run"
      /\ \A c : Sta(c)' = IF c = id THEN s ELSE Sta(c)
      /\ ctx' = ctx
  BY SMTT(30), <1>1, Moved, DependsOn DEF KnownInv, Result, ChecksInv
<1>3. /\ s \in Result \cup {"warning"}
      /\ s = "unavailable" => \E c \in from : Sta(c) # "pass"
      /\ s \in Ok => MatchesInputs(ctx.document) /\ (s = "pass" <=> ctx.document.kind = "platform")
  <2>1. Blocked(from) => \E c \in from : Sta(c) # "pass"
    BY BlockedMeans DEF Ok
  <2> QED
    BY <2>1 DEF Ok, Result
<1> HIDE DEF s
<1>4. FoundInv'
  BY <1>2, <1>3 DEF KnownInv, FoundInv
<1>5. ProjectInv'
  BY <1>2 DEF KnownInv, ProjectInv
<1>6. EvidenceInv'
  BY <1>2 DEF KnownInv, EvidenceInv, DescribesProject
<1>7. JudgedInv'
  BY <1>2, <1>3 DEF KnownInv, JudgedInv, MatchesInputs
<1> QED
  BY <1>2, <1>4, <1>5, <1>6, <1>7 DEF KnownInv

(* The subject compares the revision read before with the document's.        *)
LEMMA EvidenceSubjectKeeps ==
  ASSUME ChecksInv, KnownInv, EvidenceSubject
  PROVE  ChecksInv' /\ KnownInv'
<1> DEFINE id == "evidence.subject"
           from == {"evidence.document", "evidence.result", "repository.git"}
           same == ctx.document.revision = ctx.revision
           s == IF Blocked(from) THEN "unavailable" ELSE IF same THEN "pass" ELSE "warning"
           x == IF Blocked(from) THEN ctx
                ELSE [ctx EXCEPT !.subject = IF same THEN "same" ELSE "different"]
<1>1. Turn(id) /\ Record(id, s, x) /\ DOMAIN x = Fields
  BY DEF EvidenceSubject, ChecksInv
<1>1a. s # "not-run" /\ (Blocked(Dependencies[id]) => s = "unavailable")
  BY DependsOn
<1>2. /\ ChecksInv' /\ DependInv' /\ Sta(id) = "not-run"
      /\ \A c : Sta(c)' = IF c = id THEN s ELSE Sta(c)
      /\ ctx' = x
  <2> HIDE DEF s, x, id
  <2> QED
    BY <1>1, <1>1a, Moved DEF KnownInv
<1>3. /\ s \in {"pass", "warning", "unavailable"}
      /\ s = "unavailable" => \E c \in from : Sta(c) # "pass"
      /\ s \in Ok => (s = "pass" <=> same)
  <2>1. Blocked(from) => \E c \in from : Sta(c) # "pass"
    BY BlockedMeans DEF Ok
  <2> QED
    BY <2>1 DEF Ok
<1>4. ctx.subject = None
  BY <1>2 DEF KnownInv, EvidenceInv
<1>5. /\ ctx'.subject = IF s = "pass" THEN "same" ELSE IF s = "warning" THEN "different" ELSE None
      /\ \A f \in Fields \ {"subject"} : ctx'[f] = ctx[f]
  BY <1>2, <1>4 DEF ChecksInv, Fields
<1> HIDE DEF s, x
<1>6. FoundInv'
  BY <1>2, <1>3 DEF KnownInv, FoundInv
<1>7. ProjectInv'
  BY <1>2, <1>5 DEF KnownInv, ProjectInv, Fields
<1>8. EvidenceInv'
  BY <1>2, <1>5 DEF KnownInv, EvidenceInv, DescribesProject, Fields
<1>9. JudgedInv'
  BY <1>2, <1>3, <1>5 DEF KnownInv, JudgedInv, MatchesInputs, Fields
<1> QED
  BY <1>2, <1>6, <1>7, <1>8, <1>9 DEF KnownInv

(* Every check of the command has been made.                                 *)
Complete == DOMAIN statuses = Elements(SEQUENCES[command])

(* The checks a complete run has made.                                       *)
LEMMA Present ==
  ASSUME ChecksInv, Complete
  PROVE  /\ {"project.version", "repository.git", "inputs.source-lock", "inputs.lab-catalog",
             "lab.selection"} \subseteq DOMAIN statuses
         /\ command = "status" => "repository.clean" \in DOMAIN statuses
         /\ command = "inspect" => DOMAIN statuses = Elements(Base) \cup Elements(Catalog)
         /\ command \in {"doctor", "evidence"} =>
               {"evidence.file", "evidence.document", "evidence.result", "evidence.inputs",
                "evidence.subject"} \subseteq DOMAIN statuses
BY Arrangements, ConcreteElements DEF ChecksInv, Checks, Complete, Arranged

(* What the result of a run says of its checks.                              *)
LEMMA AggregateMeans ==
  /\ Aggregate(statuses) = "pass" => \A c \in DOMAIN statuses : statuses[c] = "pass"
  /\ Aggregate(statuses) \in {"pass", "warning"} =>
        /\ \A c \in DOMAIN statuses : statuses[c] # "fail"
        /\ \A c \in DOMAIN statuses \ Optional : statuses[c] # "unavailable"
  /\ Aggregate(statuses) \in {"pass", "warning", "fail", "unavailable"}
BY DEF Aggregate

(* validate_state_transitions accepts the statuses of any run.               *)
LEMMA TransitionsValid ==
  ASSUME ChecksInv, KnownInv
  PROVE  ValidTransitions(statuses)
<1>1. ASSUME NEW c \in DOMAIN Dependencies \cap DOMAIN statuses,
             NEW up \in Dependencies[c] \cap DOMAIN statuses, statuses[up] \notin Ok
      PROVE  statuses[c] = "unavailable"
  BY <1>1 DEF KnownInv, DependInv, Blocked
<1>2. /\ Derived["lab.selection"] = [from |-> {"inputs.lab-catalog"}, allowed |-> {"pass", "fail"}]
      /\ Derived["evidence.result"] = [from |-> {"evidence.document"}, allowed |-> {"pass", "fail"}]
      /\ Derived["evidence.document"] = [from |-> {"evidence.file"}, allowed |-> {"pass", "fail"}]
      /\ Derived["repository.clean"] = [from |-> {"repository.git"}, allowed |-> Ok]
      /\ Derived["evidence.subject"] =
            [from |-> {"evidence.document", "evidence.result", "repository.git"}, allowed |-> Ok]
      /\ Derived["evidence.inputs"] =
            [from |-> {"project.version", "evidence.document", "inputs.source-lock", "lab.selection"},
             allowed |-> Ok \cup {"fail"}]
      /\ DOMAIN Derived = {"lab.selection", "repository.clean", "evidence.document", "evidence.result",
                           "evidence.inputs", "evidence.subject"}
  BY DependsOn DEF Derived
<1>3. \A c \in DOMAIN statuses : statuses[c] = Sta(c)
  BY DEF Sta, St
<1>4. ASSUME NEW c \in DOMAIN Derived \cap DOMAIN statuses, Derived[c].from \subseteq DOMAIN statuses,
             \A up \in Derived[c].from : statuses[up] = "pass"
      PROVE  statuses[c] \in Derived[c].allowed
  <2>1. \A up \in Derived[c].from : Sta(up) = "pass"
    BY <1>3, <1>4
  <2>2. Sta(c) # "not-run"
    BY DEF ChecksInv
  <2>3. CASE c = "lab.selection"
    BY <1>2, <1>3, <2>1, <2>2, <2>3 DEF KnownInv, FoundInv, JudgedInv
  <2>4. CASE c = "evidence.result"
    BY <1>2, <1>3, <2>1, <2>2, <2>4 DEF KnownInv, FoundInv, JudgedInv, Result
  <2>5. CASE c = "evidence.document"
    BY <1>2, <1>3, <2>1, <2>2, <2>5 DEF KnownInv, FoundInv, JudgedInv, Result
  <2>6. CASE c = "repository.clean"
    BY <1>2, <1>3, <2>1, <2>2, <2>6 DEF KnownInv, FoundInv, JudgedInv, Ok
  <2>7. CASE c = "evidence.subject"
    BY <1>2, <1>3, <2>1, <2>2, <2>7 DEF KnownInv, FoundInv, JudgedInv, Ok
  <2>8. CASE c = "evidence.inputs"
    BY <1>2, <1>3, <2>1, <2>2, <2>8 DEF KnownInv, FoundInv, JudgedInv, Ok, Result
  <2> QED
    BY <1>2, <2>3, <2>4, <2>5, <2>6, <2>7, <2>8
<1>5. ASSUME {"repository.git", "tool.git"} \subseteq DOMAIN statuses
      PROVE  statuses["tool.git"] \in CASE statuses["repository.git"] = "pass" -> {"pass"}
                               [] statuses["repository.git"] = "fail" -> {"pass", "fail"}
                               [] OTHER -> {"unavailable"}
  <2>1. /\ statuses["tool.git"] = ctx.git /\ ctx.git \in Result
        /\ IF ctx.git = "pass" THEN statuses["repository.git"] \in {"pass", "fail"}
           ELSE statuses["repository.git"] = ctx.git
    BY <1>3, <1>5 DEF ChecksInv, KnownInv, ProjectInv
  <2>2. statuses["repository.git"] \in {"pass", "fail", "unavailable"}
    BY <2>1 DEF Result
  <2> QED
    BY <2>1, <2>2 DEF Result
<1> QED
  BY <1>1, <1>4, <1>5 DEF ValidTransitions

(* What a status of a check of the evidence says of the evidence and the     *)
(* project.                                                                  *)
LEMMA EvidenceKnown ==
  ASSUME ChecksInv, KnownInv
  PROVE  /\ Sta("evidence.document") = "pass" =>
               /\ ctx.raw \in Evidence /\ ctx.raw \in EvidenceType /\ ctx.raw # NoDocument
               /\ ctx.document = ctx.raw
         /\ Sta("evidence.inputs") \in Ok =>
               /\ Sta("evidence.document") = "pass" /\ ctx.version # None
               /\ Sta("inputs.source-lock") = "pass" /\ Sta("lab.selection") = "pass"
               /\ MatchesInputs(ctx.raw) /\ ctx.summary = ctx.raw
         /\ Sta("evidence.subject") \in Ok =>
               /\ Sta("evidence.document") = "pass" /\ Sta("evidence.result") = "pass"
               /\ Sta("repository.git") = "pass"
         /\ Sta("evidence.result") \in {"pass", "fail"} => Sta("evidence.document") = "pass"
<1>1. Sta("evidence.document") = "pass" =>
               /\ ctx.raw \in Evidence /\ ctx.raw \in EvidenceType /\ ctx.raw # NoDocument
               /\ ctx.document = ctx.raw
  BY EvidenceAssumption DEF KnownInv, EvidenceInv, EvidenceType, NoDocument, None
<1>2. ASSUME NEW c \in DOMAIN Dependencies, Sta(c) \notin {"unavailable", "not-run"}
      PROVE  \A up \in Dependencies[c] : Sta(up) \in Ok
  BY <1>2, BlockedMeans DEF KnownInv, DependInv, Sta, St
<1>3. {"evidence.result", "evidence.inputs", "evidence.subject"} \subseteq DOMAIN Dependencies
  BY DependsOn, ConcreteElements
<1>4. Sta("evidence.result") \in {"pass", "fail"} => Sta("evidence.document") = "pass"
  <2>1. Dependencies["evidence.result"] = {"evidence.document"}
    BY DependsOn
  <2> QED
    BY <1>2, <1>3, <2>1 DEF KnownInv, FoundInv, Ok, Result
<1>5. ASSUME Sta("evidence.subject") \in Ok
      PROVE  /\ Sta("evidence.document") = "pass" /\ Sta("evidence.result") = "pass"
             /\ Sta("repository.git") = "pass"
  <2>1. Dependencies["evidence.subject"] = {"evidence.document", "evidence.result", "repository.git"}
    BY DependsOn
  <2> QED
    BY <1>2, <1>3, <1>5, <2>1 DEF KnownInv, FoundInv, Ok, Result
<1>6. ASSUME Sta("evidence.inputs") \in Ok
      PROVE  /\ Sta("evidence.document") = "pass" /\ ctx.version # None
             /\ Sta("inputs.source-lock") = "pass" /\ Sta("lab.selection") = "pass"
             /\ MatchesInputs(ctx.raw) /\ ctx.summary = ctx.raw
  <2>1. Dependencies["evidence.inputs"] = {"project.version", "evidence.document",
                                           "inputs.source-lock", "lab.selection"}
    BY DependsOn
  <2>2. /\ Sta("evidence.document") = "pass" /\ Sta("project.version") = "pass"
        /\ Sta("inputs.source-lock") = "pass" /\ Sta("lab.selection") = "pass"
    BY <1>2, <1>3, <1>6, <2>1 DEF KnownInv, FoundInv, Ok, Result
  <2>3. ctx.version # None
    BY <2>2 DEF KnownInv, ProjectInv, Seen, None
  <2>4. MatchesInputs(ctx.raw)
    BY <1>1, <1>6, <2>2 DEF KnownInv, JudgedInv
  <2>5. ctx.summary = ctx.raw
    BY <2>2, <2>3, <2>4 DEF KnownInv, EvidenceInv, DescribesProject, MatchesInputs
  <2> QED
    BY <2>2, <2>3, <2>4, <2>5
<1> QED
  BY <1>1, <1>4, <1>5, <1>6

(* The document of a complete run satisfies every rule of validate_document. *)
LEMMA DocumentIsValid ==
  ASSUME ChecksInv, KnownInv, Complete
  PROVE  ValidDocument(Document)
<1> DEFINE d == Document
<1>1. /\ d.command = command /\ d.result = Aggregate(statuses) /\ d.statuses = statuses
      /\ d.version = ctx.version /\ d.revision = ctx.revision /\ d.dirty = ctx.dirty
      /\ d.lab = ctx.lab /\ d.index = ctx.index /\ d.manifest = ctx.manifest
      /\ d.data.active = ctx.task /\ d.data.lock = ctx.lock /\ d.data.selected = ctx.manifest
      /\ d.data.inspected = (ctx.version # None /\ ctx.lock # None /\ ctx.manifest # None)
      /\ d.data.evidence = ctx.summary /\ d.data.subject = ctx.subject
  BY DEF Document, Data
<1>2. d.data.inputs = IF ctx.document = NoDocument THEN NoDocument
          ELSE [kind |-> IF ctx.document.kind = "platform" THEN "bound" ELSE "not-recorded",
                index |-> ctx.document.index, manifest |-> ctx.document.manifest]
  BY DEF Document, Data
<1> HIDE DEF d
<1>3. \A c \in DOMAIN statuses : statuses[c] = Sta(c) /\ Sta(c) # "not-run"
  BY DEF Sta, St, ChecksInv
<1>4. ValidIdentity(d)
  <2>1. /\ statuses["project.version"] = Sta("project.version")
        /\ statuses["repository.git"] = Sta("repository.git")
        /\ statuses["inputs.lab-catalog"] = Sta("inputs.lab-catalog")
        /\ statuses["lab.selection"] = Sta("lab.selection")
    BY <1>3, Present
  <2> QED
    BY <1>1, <2>1, DiagnosticsAssumption DEF ValidIdentity, KnownInv, ProjectInv, Seen, None
<1>5. ASSUME d.command \in {"status", "doctor"}, d.statuses["workflow.task"] # "pass"
      PROVE  d.data.active = None
  BY <1>1, <1>3, <1>5 DEF KnownInv, ProjectInv, Sta, St
<1>6. ASSUME d.command = "status" PROVE ValidStatus(d)
  <2>1. /\ statuses["inputs.source-lock"] = Sta("inputs.source-lock")
        /\ statuses["lab.selection"] = Sta("lab.selection")
        /\ statuses["repository.clean"] = Sta("repository.clean")
        /\ Sta("repository.clean") # "not-run"
    BY <1>1, <1>3, <1>6, Present
  <2>2. d.dirty = CASE Sta("repository.clean") = "pass" -> "clean"
                    [] Sta("repository.clean") = "warning" -> "dirty"
                    [] Sta("repository.clean") = "unavailable" -> None
    <3>1. Sta("repository.clean") \in {"pass", "warning", "unavailable"}
      BY <2>1 DEF KnownInv, FoundInv
    <3>2. /\ Sta("repository.clean") = "pass" => ctx.dirty = "clean"
          /\ Sta("repository.clean") = "warning" => ctx.dirty = "dirty"
          /\ Sta("repository.clean") = "unavailable" => ctx.dirty = None
      BY DEF KnownInv, ProjectInv, JudgedInv
    <3> QED
      BY <1>1, <3>1, <3>2
  <2> QED
    BY <1>1, <2>1, <2>2 DEF ValidStatus, KnownInv, ProjectInv, Seen, None
<1>7. ASSUME d.command = "inspect" PROVE ValidInspect(d)
  <2>1. /\ statuses["project.version"] = Sta("project.version")
        /\ statuses["inputs.source-lock"] = Sta("inputs.source-lock")
        /\ statuses["inputs.lab-catalog"] = Sta("inputs.lab-catalog")
        /\ statuses["lab.selection"] = Sta("lab.selection")
    BY <1>3, Present
  <2>2. "lab.selection" \in DOMAIN statuses /\ Sta("lab.selection") = "pass" =>
           Sta("inputs.lab-catalog") = "pass"
    <3>1. "lab.selection" \in DOMAIN Dependencies
      BY DependsOn
    <3>2. Dependencies["lab.selection"] = {"inputs.lab-catalog"}
      BY DependsOn
    <3>3. "lab.selection" \in DOMAIN statuses /\ Sta("lab.selection") = "pass" =>
             ~Blocked({"inputs.lab-catalog"})
      BY <3>1, <3>2 DEF KnownInv, DependInv, Sta, St
    <3> QED
      BY <3>3, BlockedMeans DEF Ok, KnownInv, FoundInv, Result
  <2>3. d.data.inspected <=> \A c \in {"project.version"} \cup Elements(Catalog) : d.statuses[c] = "pass"
    <3>1. (\A c \in {"project.version"} \cup Elements(Catalog) : d.statuses[c] = "pass") <=>
             /\ Sta("project.version") = "pass" /\ Sta("inputs.source-lock") = "pass"
             /\ Sta("lab.selection") = "pass"
      BY <1>1, <2>1, <2>2, ConcreteElements, Present
    <3>2. /\ ctx.version # None <=> Sta("project.version") = "pass"
          /\ ctx.lock # None <=> Sta("inputs.source-lock") = "pass"
          /\ ctx.manifest # None <=> Sta("lab.selection") = "pass"
      BY DEF KnownInv, ProjectInv, Seen, None
    <3> QED
      BY <1>1, <3>1, <3>2
  <2>4. d.data.inspected \in BOOLEAN
    BY <1>1
  <2> QED
    BY <2>3, <2>4 DEF ValidInspect
<1>8. ASSUME d.command \in {"doctor", "evidence"}
      PROVE  /\ ValidProjection(d) /\ ValidInputs(d) /\ ShapedInputs(d.data.inputs)
             /\ Sta("evidence.inputs") # "not-run" /\ Sta("evidence.subject") # "not-run"
  <2>1. /\ statuses["evidence.document"] = Sta("evidence.document")
        /\ statuses["evidence.result"] = Sta("evidence.result")
        /\ statuses["evidence.inputs"] = Sta("evidence.inputs")
        /\ statuses["evidence.subject"] = Sta("evidence.subject")
    BY <1>1, <1>3, <1>8, Present
  <2>2. /\ Sta("evidence.document") \in Result /\ Sta("evidence.result") \in Result
        /\ Sta("evidence.inputs") \in Result \cup {"warning"}
        /\ Sta("evidence.subject") \in {"pass", "warning", "unavailable"}
    BY <1>1, <1>3, <1>8, Present DEF KnownInv, FoundInv
  <2>3. Sta("evidence.document") # "pass" => ctx.summary = NoDocument /\ ctx.document = NoDocument
    BY DEF KnownInv, EvidenceInv
  <2>4. ASSUME ctx.summary # NoDocument
        PROVE  /\ ctx.summary = ctx.raw /\ Sta("evidence.document") = "pass"
               /\ ctx.raw.version = ctx.version
    BY <2>4 DEF KnownInv, EvidenceInv, DescribesProject
  <2>5. ASSUME ctx.summary # NoDocument
        PROVE  /\ Sta("evidence.result") \in {"pass", "fail"}
               /\ (Sta("evidence.result") = "pass" <=> ctx.raw.passed /\ ~ctx.raw.dirty)
    BY <2>2, <2>4, <2>5, EvidenceKnown DEF KnownInv, JudgedInv, Result
  <2>6. ASSUME ctx.summary # NoDocument
        PROVE  /\ Sta("evidence.subject") \in Ok =>
                     (ctx.raw.revision = ctx.revision <=> Sta("evidence.subject") = "pass")
               /\ Sta("evidence.inputs") = "pass" => ctx.raw.kind = "platform"
               /\ Sta("evidence.inputs") = "warning" => ctx.raw.kind = "pci"
    <3>1. ctx.raw.kind \in {"pci", "platform"} /\ ctx.document = ctx.raw
      BY <2>4, <2>6, EvidenceKnown DEF EvidenceType
    <3> QED
      BY <3>1 DEF KnownInv, JudgedInv, Ok
  <2>7. ValidProjection(d)
    <3>1. d.data.evidence = ctx.summary /\ d.statuses = statuses
      BY <1>1
    <3>2. statuses["evidence.inputs"] \in Ok => ctx.summary # NoDocument
      BY <2>1, EvidenceKnown
    <3>3. statuses["evidence.subject"] \in Ok \cup {"unavailable"}
      BY <2>1, <2>2 DEF Ok
    <3>4. ASSUME ctx.summary # NoDocument
          PROVE  (statuses["evidence.result"] = "pass") = (ctx.summary.passed /\ ~ctx.summary.dirty)
      BY <2>1, <2>4, <2>5, <3>4
    <3>5. ASSUME ctx.summary # NoDocument, statuses["evidence.subject"] \in Ok
          PROVE  (ctx.summary.revision = d.revision) = (statuses["evidence.subject"] = "pass")
      BY <1>1, <2>1, <2>4, <2>6, <3>5
    <3> QED
      BY <1>1, <2>1, <2>3, <2>4, <2>5, <2>6, <3>1, <3>2, <3>3, <3>4, <3>5 DEF ValidProjection
  <2>8. ASSUME Sta("evidence.document") = "pass"
        PROVE  /\ d.data.inputs # NoDocument
               /\ d.data.inputs.kind = IF ctx.raw.kind = "platform" THEN "bound" ELSE "not-recorded"
               /\ d.data.inputs.index = ctx.raw.index /\ d.data.inputs.manifest = ctx.raw.manifest
               /\ ctx.raw \in Evidence
    BY <1>2, <2>8, EvidenceKnown DEF NoDocument, None
  <2>9. Sta("evidence.document") # "pass" => d.data.inputs = NoDocument
    BY <1>2, <2>3
  <2>10. ShapedInputs(d.data.inputs)
    BY <2>8, <2>9, EvidenceAssumption DEF ShapedInputs
  <2>11. ValidInputs(d)
    <3>1. d.statuses = statuses /\ d.data.subject = ctx.subject
      BY <1>1
    <3>2. d.data.subject = CASE statuses["evidence.subject"] = "pass" -> "same"
                          [] statuses["evidence.subject"] = "warning" -> "different"
                          [] statuses["evidence.subject"] = "unavailable" -> None
      BY <2>1, <2>2, <3>1 DEF KnownInv, EvidenceInv
    <3>3. ASSUME statuses["evidence.inputs"] = "pass"
          PROVE  d.data.inputs = [kind |-> "bound", index |-> d.index, manifest |-> d.manifest]
      <4>1. /\ Sta("evidence.document") = "pass" /\ MatchesInputs(ctx.raw)
            /\ ctx.document = ctx.raw /\ ctx.raw # NoDocument
        BY <2>1, <3>3, EvidenceKnown DEF Ok
      <4>2. ctx.document.kind = "platform"
        BY <2>1, <3>3 DEF KnownInv, JudgedInv, Ok
      <4> QED
        BY <1>1, <1>2, <4>1, <4>2 DEF MatchesInputs
    <3>4. ASSUME statuses["evidence.inputs"] = "warning"
          PROVE  d.data.inputs.kind = "not-recorded"
      <4>1. Sta("evidence.document") = "pass" /\ ctx.document = ctx.raw
        BY <2>1, <3>4, EvidenceKnown DEF Ok
      <4>2. ctx.document.kind # "platform"
        BY <2>1, <3>4 DEF KnownInv, JudgedInv, Ok
      <4> QED
        BY <2>8, <4>1, <4>2
    <3> QED
      BY <2>1, <2>8, <2>9, <3>1, <3>2, <3>3, <3>4 DEF ValidInputs
  <2> QED
    BY <2>2, <2>7, <2>10, <2>11 DEF Result
<1>9. ASSUME d.result = "pass" PROVE CompleteWhenPassing(d)
  <2>1. \A c \in DOMAIN statuses : Sta(c) = "pass"
    BY <1>1, <1>3, <1>9, AggregateMeans
  <2>2. /\ ctx.version # None /\ ctx.lock # None /\ ctx.manifest # None
    BY <2>1, Present DEF KnownInv, ProjectInv, Seen, None
  <2>3. ASSUME command \in {"doctor", "evidence"}
        PROVE  /\ ctx.summary # NoDocument /\ d.data.inputs # NoDocument /\ ctx.subject = "same"
    <3>1. Sta("evidence.inputs") = "pass" /\ Sta("evidence.subject") = "pass"
      BY <2>1, <2>3, Present
    <3>2. ctx.summary # NoDocument /\ ctx.document # NoDocument /\ ctx.subject = "same"
      BY <3>1, EvidenceKnown DEF Ok, KnownInv, EvidenceInv
    <3> QED
      BY <1>2, <3>2 DEF NoDocument, None
  <2>4. command \in {"status", "doctor", "inspect", "evidence"}
    BY DiagnosticsAssumption DEF ChecksInv, Checks
  <2> QED
    BY <1>1, <2>2, <2>3, <2>4 DEF CompleteWhenPassing
<1>10. ValidTransitions(d.statuses)
  BY <1>1, TransitionsValid
<1>11. d.command \in {"doctor", "evidence"} => ValidProjection(d)
  BY <1>8
<1>12. d.command = "evidence" => ValidInputs(d) /\ ShapedInputs(d.data.inputs)
  BY <1>8
<1> QED
  BY <1>1, <1>4, <1>5, <1>6, <1>7, <1>9, <1>10, <1>11, <1>12 DEF ValidDocument, Complete, d

(* Nothing is known before the first check.                                  *)
LEMMA DiagInitially == DiagInit => DiagInv
<1> SUFFICES ASSUME DiagInit PROVE DiagInv
  OBVIOUS
<1>1. /\ command \in Command /\ DOMAIN statuses = {}
      /\ DOMAIN ctx = Fields
      /\ ctx.version = None /\ ctx.revision = None /\ ctx.dirty = None /\ ctx.task = None
      /\ ctx.git = None /\ ctx.lock = None /\ ctx.index = None /\ ctx.manifest = None
      /\ ctx.subject = None /\ ctx.document = NoDocument /\ ctx.summary = NoDocument
      /\ outcome.state \in {"usage", "running"}
  BY DEF DiagInit, Fields
<1>2. \A c : Sta(c) = "not-run"
  BY <1>1 DEF Sta, St
<1>3. Checks(statuses, command)
  <2>1. Cardinality({}) = 0 /\ IsFiniteSet({})
    BY FS_EmptySet
  <2>2. Len(SEQUENCES[command]) \in Nat /\ 1..0 = {}
    BY <1>1, Arrangements DEF Arranged
  <2> QED
    BY <1>1, <2>1, <2>2 DEF Checks
<1>4. ChecksInv
  BY <1>1, <1>3 DEF ChecksInv
<1>5. FoundInv /\ ProjectInv
  BY <1>1, <1>2 DEF FoundInv, ProjectInv, Seen
<1>6. EvidenceInv /\ DependInv
  BY <1>1, <1>2 DEF EvidenceInv, DependInv
<1>7. JudgedInv
  BY <1>2 DEF JudgedInv, Ok
<1> QED
  BY <1>1, <1>4, <1>5, <1>6, <1>7 DEF DiagInv, KnownInv, OutcomeInv

(* Every check keeps what is known.                                          *)
LEMMA ChecksKeep ==
  ASSUME DiagInv, DiagNext, ~Finish, ~CheckRaises
  PROVE  ChecksInv' /\ KnownInv'
<1> USE DEF DiagInv
<1>1. CASE ProjectVersion
  BY <1>1, VersionKeeps
<1>2. CASE Repository
  BY <1>2, RepositoryKeeps
<1>3. CASE Workflow
  BY <1>3, WorkflowKeeps
<1>4. CASE SourceLock
  BY <1>4, SourceLockKeeps
<1>5. CASE LabCatalog
  BY <1>5, LabCatalogKeeps
<1>6. CASE Selection
  BY <1>6, SelectionKeeps
<1>7. CASE Cleanliness
  BY <1>7, CleanlinessKeeps
<1>8. CASE ToolGit
  BY <1>8, ToolGitKeeps
<1>9. CASE \/ ToolSsh
           \/ \E id \in Elements(Source) : SourceCheckout(id)
           \/ \E id \in Elements(ConfFile) : BuildFile(id)
  BY <1>9, LooksKeep
<1>10. CASE EvidenceFile
  BY <1>10, EvidenceFileKeeps
<1>11. CASE EvidenceDocument
  BY <1>11, EvidenceDocumentKeeps
<1>12. CASE EvidenceResult
  BY <1>12, EvidenceResultKeeps
<1>13. CASE EvidenceInputs
  BY <1>13, EvidenceInputsKeeps
<1>14. CASE EvidenceSubject
  BY <1>14, EvidenceSubjectKeeps
<1> QED
  BY <1>1, <1>2, <1>3, <1>4, <1>5, <1>6, <1>7, <1>8, <1>9, <1>10, <1>11, <1>12, <1>13, <1>14 DEF DiagNext

(* The check whose turn it is is not among those made.                       *)
LEMMA TurnIsLeft ==
  ASSUME Checks(statuses, command), NEW id, Turn(id)
  PROVE  DOMAIN statuses # Elements(SEQUENCES[command])
<1> DEFINE seq == SEQUENCES[command]
           n == Cardinality(DOMAIN statuses)
<1>1. seq \in Seq(Name) /\ Distinct(seq)
  BY Arrangements DEF Checks, Arranged
<1>2. n \in Nat /\ n < Len(seq) /\ DOMAIN statuses = {seq[i] : i \in 1..n}
      /\ Len(seq) \in Nat /\ DOMAIN seq = 1..Len(seq)
  BY <1>1, FS_CardinalityType DEF Checks, Turn
<1>3. seq[n + 1] \notin DOMAIN statuses /\ seq[n + 1] \in Elements(seq)
  <2> HIDE DEF seq, n
  <2>1. n + 1 \in DOMAIN seq /\ \A i \in 1..n : i \in DOMAIN seq /\ i # n + 1
    BY <1>2
  <2> QED
    BY <2>1, <1>1, <1>2 DEF Distinct, Elements
<1> QED
  BY <1>3

(* A run is published when its checks are complete, and its document is then *)
(* valid; an exception a check lets out leaves its own check out.            *)
LEMMA OutcomeKept ==
  ASSUME DiagInv, DiagNext
  PROVE  OutcomeInv'
<1>1. outcome.state = "running"
  BY DEF DiagNext, ProjectVersion, Repository, Workflow, SourceLock, LabCatalog, Selection, Cleanliness,
         ToolGit, ToolSsh, SourceCheckout, BuildFile, Look, EvidenceFile, EvidenceDocument,
         EvidenceResult, EvidenceInputs, EvidenceSubject, CheckRaises, Finish, Turn, Running
<1>2. CASE Finish
  <2>1. ValidDocument(Document)
    BY <1>2, DocumentIsValid DEF DiagInv, Finish, Complete
  <2>2. /\ outcome'.state # "internal"
        /\ outcome'.state = "published" => outcome'.exit = ExitCode[Aggregate(statuses)] /\ outcome'.document = Document
        /\ DOMAIN statuses = Elements(SEQUENCES[command]) /\ UNCHANGED <<command, statuses, ctx>>
    BY <1>2, <2>1 DEF Finish
  <2>3. /\ Document' = Document /\ Aggregate(statuses') = Aggregate(statuses)
        /\ statuses' = statuses /\ command' = command
    BY <2>2 DEF Document, Data, Aggregate
  <2>4. outcome'.state = "published" =>
          /\ DOMAIN statuses' = Elements(SEQUENCES[command'])
          /\ outcome'.exit = ExitCode[Aggregate(statuses')] /\ outcome'.document = Document'
    BY <2>2, <2>3
  <2> QED
    BY <2>2, <2>4 DEF OutcomeInv
<1>3. CASE CheckRaises
  <2>1. DOMAIN statuses # Elements(SEQUENCES[command])
    BY <1>3, TurnIsLeft DEF CheckRaises, DiagInv, ChecksInv
  <2>2. outcome'.state = "internal" /\ UNCHANGED <<command, statuses>>
    BY <1>3 DEF CheckRaises, Internal
  <2> QED
    BY <2>1, <2>2 DEF OutcomeInv
<1>4. CASE ~Finish /\ ~CheckRaises
  <2>1. CASE ProjectVersion \/ Repository \/ Workflow \/ SourceLock
    BY <1>1, <2>1 DEF ProjectVersion, Repository, Workflow, SourceLock, Record, OutcomeInv
  <2>2. CASE LabCatalog
    BY <1>1, <2>2 DEF LabCatalog, Record, OutcomeInv
  <2>3. CASE Selection
    BY <1>1, <2>3 DEF Selection, Record, OutcomeInv
  <2>4. CASE Cleanliness \/ ToolGit \/ ToolSsh
    BY <1>1, <2>4 DEF Cleanliness, ToolGit, ToolSsh, Look, Record, OutcomeInv
  <2>5. CASE \/ \E id \in Elements(Source) : SourceCheckout(id)
             \/ \E id \in Elements(ConfFile) : BuildFile(id)
    BY <1>1, <2>5 DEF SourceCheckout, BuildFile, Look, Record, OutcomeInv
  <2>6. CASE EvidenceFile
    BY <1>1, <2>6 DEF EvidenceFile, Record, OutcomeInv
  <2>7. CASE EvidenceDocument \/ EvidenceResult
    BY <1>1, <2>7 DEF EvidenceDocument, EvidenceResult, Record, OutcomeInv
  <2>8. CASE EvidenceInputs \/ EvidenceSubject
    BY <1>1, <2>8 DEF EvidenceInputs, EvidenceSubject, Record, OutcomeInv
  <2> QED
    BY <1>4, <2>1, <2>2, <2>3, <2>4, <2>5, <2>6, <2>7, <2>8 DEF DiagNext
<1> QED
  BY <1>2, <1>3, <1>4

(* The invariant is inductive.                                               *)
LEMMA DiagStep == DiagInv /\ [DiagNext]_diagVars => DiagInv'
<1> SUFFICES ASSUME DiagInv, [DiagNext]_diagVars PROVE DiagInv'
  OBVIOUS
<1>1. CASE DiagNext /\ ~Finish /\ ~CheckRaises
  BY <1>1, ChecksKeep, OutcomeKept DEF DiagInv
<1>2. CASE Finish \/ CheckRaises
  <2>1. ChecksInv' /\ KnownInv'
    BY <1>2, IdleKeeps DEF Finish, CheckRaises, DiagInv
  <2> QED
    BY <1>2, <2>1, OutcomeKept DEF DiagInv, DiagNext
<1>3. CASE UNCHANGED diagVars
  <2>1. ChecksInv' /\ KnownInv'
    BY <1>3, IdleKeeps DEF diagVars, DiagInv
  <2>2. Document' = Document /\ Aggregate(statuses') = Aggregate(statuses)
    BY <1>3 DEF diagVars, Document, Data, Aggregate
  <2>3. statuses' = statuses /\ command' = command /\ outcome' = outcome
    BY <1>3 DEF diagVars
  <2>4. OutcomeInv'
    BY <2>2, <2>3 DEF OutcomeInv, DiagInv
  <2> QED
    BY <2>1, <2>4 DEF DiagInv
<1> QED
  BY <1>1, <1>2, <1>3

(* The order of the checks, what the context holds for every set of          *)
(* statuses, and what is published, for every set of labs, sources, build    *)
(* files and evidence documents.                                             *)
THEOREM DiagInvariant == DiagSpec => []DiagInv
BY DiagInitially, DiagStep, PTL DEF DiagSpec

(* DocumentsValid: no state of the project, and no change of it between two  *)
(* checks, makes a document that validate_document refuses.  What remains of *)
(* "internal diagnostic failure" is the exception a check lets out, before   *)
(* all checks are made.                                                      *)
THEOREM ReportsAreValid == DiagSpec => []DocumentsValid
<1>1. DiagInv => DocumentsValid
  BY DEF DiagInv, OutcomeInv, DocumentsValid
<1> QED
  BY <1>1, DiagInvariant, PTL

(* A published run of doctor or evidence that exits 0 has a result, inputs   *)
(* and, when its result is "pass", a subject that passed.                    *)
LEMMA ZeroIsEarnedNow == DiagInv => ZeroMeansPassingEvidence
<1> SUFFICES ASSUME DiagInv, outcome.state = "published", outcome.exit = 0,
                    command \in {"doctor", "evidence"}
             PROVE  /\ ctx.raw.passed /\ ~ctx.raw.dirty
                    /\ ctx.raw.version = ctx.version /\ ctx.raw.build = ctx.lab /\ ctx.raw.lock = ctx.lock
                    /\ ctx.raw.kind = "platform" => /\ ctx.raw.lab = ctx.lab
                                                    /\ ctx.raw.manifest = ctx.manifest
                    /\ outcome.document.result = "pass" => /\ ctx.raw.revision = ctx.revision
                                                           /\ ctx.raw.index = ctx.index
  BY DEF ZeroMeansPassingEvidence
<1>1. /\ Complete /\ outcome.document = Document
      /\ Aggregate(statuses) \in {"pass", "warning"}
  BY AggregateMeans DEF DiagInv, OutcomeInv, ExitCode, Complete
<1>2. outcome.document.result = Aggregate(statuses)
  BY <1>1 DEF Document
<1>3. {"evidence.result", "evidence.inputs", "evidence.subject"} \subseteq DOMAIN statuses
  BY <1>1, Present DEF DiagInv
<1>4. \A c \in DOMAIN statuses : Sta(c) = statuses[c] /\ Sta(c) # "not-run"
  BY DEF DiagInv, ChecksInv, Sta, St
<1>5. /\ Sta("evidence.result") = "pass" /\ Sta("evidence.inputs") \in Ok
  BY <1>1, <1>3, <1>4, AggregateMeans DEF DiagInv, KnownInv, FoundInv, Result, Ok, Optional
<1>6. /\ ctx.document = ctx.raw /\ MatchesInputs(ctx.raw)
      /\ ctx.raw.passed /\ ~ctx.raw.dirty
  BY <1>5, EvidenceKnown DEF DiagInv, KnownInv, JudgedInv
<1>7. ASSUME outcome.document.result = "pass"
      PROVE  ctx.raw.revision = ctx.revision /\ ctx.raw.index = ctx.index
  <2>1. Sta("evidence.inputs") = "pass" /\ Sta("evidence.subject") = "pass"
    BY <1>1, <1>2, <1>3, <1>4, <1>7, AggregateMeans
  <2> QED
    BY <1>6, <2>1 DEF DiagInv, KnownInv, JudgedInv, Ok, MatchesInputs
<1> QED
  BY <1>6, <1>7 DEF MatchesInputs

(* ZeroMeansPassingEvidence: exit 0 of doctor or evidence is evidence of a   *)
(* clean passing suite of this version, lab and lock; "pass" is evidence of  *)
(* this revision and catalog.                                                *)
THEOREM ZeroIsEarned == DiagSpec => []ZeroMeansPassingEvidence
BY DiagInvariant, ZeroIsEarnedNow, PTL
=============================================================================
