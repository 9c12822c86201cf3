------------------------------ MODULE SafeRead ------------------------------
(* read_regular of scripts/diagnostics_inputs.py: one read of one repository *)
(* file, system call by system call, while editors and tools go on writing,  *)
(* replacing, linking and deleting it.  A file's bytes are a sequence of     *)
(* units, each named by the change that wrote it; a change takes the next    *)
(* time stamp (two changes within one tick of the file system's clock are    *)
(* outside the model, and so are changes of the directories above the file), *)
(* and the number of a deleted inode may be used again.  A read ends with    *)
(* the bytes, with one of the two errors the callers handle (unavailable,    *)
(* contract), or with an exception none of them expects (raised).            *)
EXTENDS Naturals, Sequences

CONSTANTS
    Inode,      \* the inode numbers of the directory's file system
    Outside,    \* the file a link points to
    Maximum,    \* the byte limit of the read, in units
    MaxChanges  \* bound on the changes of the file system

ASSUME SafeReadAssumption ==
    /\ Outside \in Inode
    /\ Maximum \in Nat \ {0}
    /\ MaxChanges \in Nat

VARIABLES
    path,    \* what the name denotes: its kind and, for a file, its inode
    file,    \* the inodes: their bytes and modification time
    clock,   \* the number of changes so far
    reader   \* where read_regular stands and what it has seen

readVars == <<path, file, clock, reader>>

Stat(i) == [inode |-> i, size |-> Len(file[i].bytes), mtime |-> file[i].mtime]
NoStat == [inode |-> Outside, size |-> 0, mtime |-> 0]

-----------------------------------------------------------------------------
(* The rest of the world. *)
Changing == /\ clock < MaxChanges
            /\ clock' = clock + 1
            /\ UNCHANGED reader

(* While the descriptor is open. *)
Holding == {"stat", "read", "more", "compare"}

InUse == {Outside} \cup (IF path.kind = "file" THEN {path.inode} ELSE {})
                   \cup (IF reader.pc \in Holding THEN {reader.fd} ELSE {})

(* A writer truncates a file it has open, appends to it or overwrites a part *)
(* of it.                                                                    *)
WriteInPlace ==
    /\ Changing
    /\ \E i \in InUse :
          LET old == file[i].bytes IN
          \E new \in {<<>>, Append(old, clock')} \cup {[old EXCEPT ![k] = clock'] : k \in DOMAIN old} :
             /\ Len(new) <= Maximum + 2
             /\ file' = [file EXCEPT ![i] = [bytes |-> new, mtime |-> clock']]
    /\ UNCHANGED path

(* A complete new file takes the name (os.replace); its inode number may be  *)
(* that of a file deleted before.                                            *)
ReplaceFile ==
    /\ Changing
    /\ \E i \in Inode \ InUse, size \in 0..Maximum :
          /\ path' = [kind |-> "file", inode |-> i]
          /\ file' = [file EXCEPT ![i] = [bytes |-> [k \in 1..size |-> clock'], mtime |-> clock']]

(* What a name denotes that denotes no file; a loop is a link to itself.     *)
NoFileKind == {"absent", "link", "loop", "directory"}

(* The name is deleted, or taken by a link or a directory. *)
ReplaceName ==
    /\ Changing
    /\ \E kind \in NoFileKind : path' = [kind |-> kind, inode |-> Outside]
    /\ UNCHANGED file

-----------------------------------------------------------------------------
At(pc) == reader.pc = pc
Reading(next) == /\ reader' = next
                 /\ UNCHANGED <<path, file, clock>>
Refuse(error) == Reading([reader EXCEPT !.pc = error])

(* The end of _safe_path: the name must resolve below the root.  A link may  *)
(* point there or not; of a loop resolve makes a RuntimeError, or (in Python *)
(* 3.13) nothing.                                                            *)
Resolve ==
    /\ At("resolve")
    /\ \/ Reading([reader EXCEPT !.pc = "inspect"])
       \/ path.kind = "link" /\ Refuse("contract")
       \/ path.kind = "loop" /\ Refuse("raised")

(* lstat: the name must denote a regular file; a link is refused here.       *)
Inspect ==
    /\ At("inspect")
    /\ CASE path.kind = "absent" -> Refuse("unavailable")
         [] path.kind \in {"link", "loop"} -> Refuse("contract")
         [] path.kind \in {"directory", "file"} ->
              Reading([reader EXCEPT !.pc = "reparse", !.kind = path.kind, !.before = path.inode])

(* _is_reparse calls lstat again and expects no error but the missing field; *)
(* what is no regular file is refused after it.                              *)
Reparse ==
    /\ At("reparse")
    /\ IF path.kind = "absent" THEN Refuse("raised")
       ELSE IF reader.kind = "directory" THEN Refuse("contract")
       ELSE Reading([reader EXCEPT !.pc = "open"])

(* O_NOFOLLOW; a directory opens and is refused by fstat. *)
Open ==
    /\ At("open")
    /\ CASE path.kind = "absent" -> Refuse("unavailable")
         [] path.kind \in {"link", "loop", "directory"} -> Refuse("contract")
         [] path.kind = "file" -> Reading([reader EXCEPT !.pc = "stat", !.fd = path.inode])

StatOpened ==
    /\ At("stat")
    /\ IF reader.fd # reader.before THEN Refuse("contract")
       ELSE Reading([reader EXCEPT !.pc = "read", !.opened = Stat(reader.fd)])

(* os.read(descriptor, maximum + 1): the kernel copies unit after unit and   *)
(* stops at the end of the file.                                             *)
ReadUnit ==
    /\ At("read")
    /\ LET bytes == file[reader.fd].bytes  n == Len(reader.raw) IN
       IF n <= Maximum /\ n < Len(bytes)
       THEN Reading([reader EXCEPT !.raw = Append(@, bytes[n + 1])])
       ELSE IF n > Maximum THEN Refuse("contract")
       ELSE Reading([reader EXCEPT !.pc = "more"])

(* The second os.read finds nothing more. *)
ReadMore ==
    /\ At("more")
    /\ IF Len(file[reader.fd].bytes) > Len(reader.raw) THEN Refuse("contract")
       ELSE Reading([reader EXCEPT !.pc = "compare"])

(* A mutant: only the size is compared. *)
MutSameStat(opened, after) == opened.inode = after.inode /\ opened.size = after.size

SameStat(opened, after) == opened = after

Compare ==
    /\ At("compare")
    /\ LET after == Stat(reader.fd) IN
       IF ~SameStat(reader.opened, after) \/ Len(reader.raw) # after.size THEN Refuse("contract")
       ELSE Reading([reader EXCEPT !.pc = "returned"])

(* fstat or read fails: nobody turns this OSError into one of the two.       *)
ReadError == reader.pc \in Holding /\ Refuse("raised")

ReadInit ==
    /\ \E i \in Inode, kind \in NoFileKind \cup {"file"} :
          /\ (i = Outside) = (kind # "file")
          /\ path = [kind |-> kind, inode |-> i]
    /\ file = [i \in Inode |-> [bytes |-> <<0, 0>>, mtime |-> 0]]
    /\ clock = 0
    /\ reader = [pc |-> "resolve", kind |-> "absent", before |-> Outside, fd |-> Outside, opened |-> NoStat, raw |-> <<>>]

ReadNext ==
    \/ WriteInPlace \/ ReplaceFile \/ ReplaceName
    \/ Resolve \/ Inspect \/ Reparse \/ Open
    \/ StatOpened \/ ReadUnit \/ ReadMore \/ Compare \/ ReadError

ReadSpec == ReadInit /\ [][ReadNext]_readVars

-----------------------------------------------------------------------------
(* What read_regular returns is the whole content the opened file has at the *)
(* second fstat, never a mixture of two contents and never what is behind a  *)
(* link in the place of the file, whoever writes the file or takes its name  *)
(* between two system calls, each change at a time of its own                *)
(* (diagnostics_inputs.py:72).                                               *)
ReadIsWhole ==
    [][At("compare") /\ reader'.pc = "returned" =>
          /\ reader.raw = file[reader.fd].bytes
          /\ reader.fd # Outside]_readVars
=============================================================================
