------------------------------ MODULE LogFile ------------------------------
(***************************************************************************)
(* The rotating log file of src/src/logging/file.rs: the processes that    *)
(* share a log directory, each with one active `.logging' file that it     *)
(* turns into a `.log' archive, one system call per step.  A process may   *)
(* crash between two calls, and a call may fail.                           *)
(*                                                                         *)
(* A name is a stem, the minute of creation and an index, and an           *)
(* extension.  A file is identified by the stamp of its creation and       *)
(* holds the stamps of its lines, so its largest stamp is its mtime.       *)
(***************************************************************************)
EXTENDS Naturals, Sequences, FiniteSetsExt, Functions

CONSTANTS
    Process,        \* the processes that log into this directory
    MaxFiles,       \* log.max_files
    PeriodLength,   \* minutes of a rotation period; 0 is Rotation::Never
    MaxTime,        \* bound: the last minute
    MaxStamp,       \* bound: creations and writes
    MaxFaults       \* bound: crashes and failing system calls

(* logging.rs ensures that max_files is positive. *)
ASSUME MaxFilesPositive == MaxFiles \in Nat \ {0}

ASSUME LogBounds == {PeriodLength, MaxTime, MaxStamp, MaxFaults} \subseteq Nat

VARIABLES
    dir,            \* the directory: names to files
    lines,          \* the lines of every file ever created
    stamp, time, faults,
    proc,           \* each process's LogFile and where it is in a call
    accepted,       \* lines whose write returned Ok
    archived,       \* stems and files of every `.log' name ever made
    retired         \* lines of the `.log' archives that prune has removed

disk == <<dir, lines, stamp, accepted, archived, retired>>
logVars == <<disk, time, faults, proc>>

Steps == {"off", "create", "check", "unprobe", "idle", "link", "unlink", "abort", "list", "prune",
          "write"}
Stems == (0 .. MaxTime) \X (0 .. MaxStamp)
Files == 1 .. MaxStamp

Active(s) == <<s, "logging">>
Archive(s) == <<s, "log">>
(* is_archive *)
Archives == {x \in DOMAIN dir : x[2] = "log"}
MTime(f) == Max(lines[f] \cup {f})

(* Rotation::period *)
Period(t) == IF PeriodLength = 0 THEN 0 ELSE t \div PeriodLength

(* The directory's and the processes' types. *)
LogTypeOK ==
    /\ DOMAIN dir \subseteq Stems \X {"logging", "log"}
    /\ Range(dir) \subseteq DOMAIN lines /\ DOMAIN lines \subseteq Files
    /\ \A f \in DOMAIN lines : lines[f] \subseteq 1 .. stamp
    /\ stamp \in 0 .. MaxStamp /\ time \in 0 .. MaxTime /\ faults \in 0 .. MaxFaults
    /\ \A p \in Process : /\ proc[p].pc \in Steps /\ proc[p].op \in {"new", "rotate", "drop"}
                          /\ {proc[p].path, proc[p].stem} \subseteq Stems
                          /\ {proc[p].file, proc[p].fresh} \subseteq 0 .. MaxStamp
    /\ accepted \cup retired \subseteq 1 .. stamp /\ archived \subseteq Stems \X Files

(* No LogFile. *)
Off == [pc |-> "off", op |-> "new", path |-> <<0, 0>>, file |-> 0, period |-> 0, stem |-> <<0, 0>>,
        fresh |-> 0, todo |-> <<>>]

LogInit ==
    /\ dir = <<>> /\ lines = <<>>
    /\ stamp = 0 /\ time = 0 /\ faults = 0
    /\ proc = [p \in Process |-> Off]
    /\ accepted = {} /\ archived = {} /\ retired = {}

--------------------------------------------------------------------------------
(* Process p, at step pc, goes on with the LogFile r. *)
Step(p, pc, r) == proc[p].pc = pc /\ proc' = [proc EXCEPT ![p] = r]
Linked(x, f) == [y \in DOMAIN dir \cup {x} |-> IF y = x THEN f ELSE dir[y]]
Unlinked(x) == Restrict(dir, DOMAIN dir \ {x})
NextIndex(s) == <<s[1], s[2] + 1>>

(* create begins with the plain timestamp. *)
Creating(r, op) == [r EXCEPT !.pc = "create", !.op = op, !.stem = <<time, 0>>]

(* The new file becomes the LogFile's, in `at' and in rotate. *)
Switched(r) == [r EXCEPT !.pc = "list", !.path = r.stem, !.file = r.fresh, !.period = Period(r.stem[1])]

(* Between two writes. *)
Idle(r) == [r EXCEPT !.pc = "idle", !.stem = r.path, !.fresh = r.file, !.todo = <<>>]

(* Where an error leaves the process, the ? of each caller: rotate refuses *)
(* the write, after removing the new file if archive failed; a failed      *)
(* create leaves no LogFile; a failed prune in `at' drops the LogFile just *)
(* made; Drop only reports the error.                                      *)
Failed(r) ==
    CASE r.op = "rotate" /\ r.pc \in {"link", "unlink"} -> [r EXCEPT !.pc = "abort"]
      [] r.op = "rotate" /\ r.pc \notin {"link", "unlink"} -> Idle(r)
      [] r.op = "new" /\ r.pc \in {"list", "prune"} -> [Idle(r) EXCEPT !.pc = "link", !.op = "drop"]
      [] OTHER -> Off

(* LogFile::new, at: the process starts logging. *)
NewLog(p) ==
    /\ Step(p, "off", Creating(proc[p], "new"))
    /\ UNCHANGED <<disk, time, faults>>

(* mutant: open without create_new *)
CreatableAlways(s) == TRUE

(* create_new: the file must not exist. *)
Creatable(s) == Active(s) \notin DOMAIN dir

(* create, open: the name is taken, so try the next index. *)
NameTaken(p) ==
    /\ ~Creatable(proc[p].stem)
    /\ Step(p, "create", [proc[p] EXCEPT !.stem = NextIndex(@)])
    /\ UNCHANGED <<disk, time, faults>>

(* create, open with create_new: it makes the file. *)
CreateNew(p) ==
    /\ Creatable(proc[p].stem)
    /\ stamp < MaxStamp
    /\ stamp' = stamp + 1
    /\ dir' = Linked(Active(proc[p].stem), stamp')
    /\ lines' = [f \in DOMAIN lines \cup {stamp'} |-> IF f = stamp' THEN {} ELSE lines[f]]
    /\ Step(p, "create", [proc[p] EXCEPT !.pc = "check", !.fresh = stamp'])
    /\ UNCHANGED <<time, faults, accepted, archived, retired>>

(* mutant: create does not look for the archive *)
ArchiveTakenUnseen(s) == FALSE

(* create: path.with_extension("log").exists() *)
ArchiveTaken(s) == Archive(s) \in DOMAIN dir

(* create gives up a file whose archive exists; otherwise it is the file   *)
(* of a new LogFile, or rotate goes on to archive the old one.             *)
CheckArchive(p) ==
    LET r == proc[p] IN
    /\ Step(p, "check", IF ArchiveTaken(r.stem) THEN [r EXCEPT !.pc = "unprobe"]
                        ELSE IF r.op = "new" THEN Switched(r) ELSE [r EXCEPT !.pc = "link"])
    /\ UNCHANGED <<disk, time, faults>>

(* create: remove the unused file and try the next index. *)
Unprobe(p) ==
    /\ Step(p, "unprobe", [proc[p] EXCEPT !.pc = "create", !.stem = NextIndex(@)])
    /\ dir' = Unlinked(Active(proc[p].stem))
    /\ UNCHANGED <<lines, stamp, time, faults, accepted, archived, retired>>

(* archive: hard_link, which fails when the archive exists. *)
HardLink(p) ==
    LET r == proc[p]
        ok == Active(r.path) \in DOMAIN dir /\ Archive(r.path) \notin DOMAIN dir IN
    /\ Step(p, "link", IF ok THEN [r EXCEPT !.pc = "unlink"] ELSE Failed(r))
    /\ dir' = IF ok THEN Linked(Archive(r.path), r.file) ELSE dir
    /\ archived' = IF ok THEN archived \cup {<<r.path, r.file>>} ELSE archived
    /\ UNCHANGED <<lines, stamp, time, faults, accepted, retired>>

(* archive: remove the active name; rotate then switches to the new file. *)
RemoveActive(p) ==
    LET r == proc[p] IN
    /\ Step(p, "unlink", IF r.op = "rotate" THEN Switched(r) ELSE [r EXCEPT !.pc = "list"])
    /\ dir' = Unlinked(Active(r.path))
    /\ UNCHANGED <<lines, stamp, time, faults, accepted, archived, retired>>

(* rotate: archive failed, so remove the new file and keep the old one;    *)
(* an error of this remove is ignored.                                     *)
AbortRotation(p) ==
    /\ Step(p, "abort", Idle(proc[p]))
    /\ dir' = Unlinked(Active(proc[p].stem))
    /\ UNCHANGED <<lines, stamp, time, faults, accepted, archived, retired>>

(* mutant: saturating_sub(max_files - 1) *)
ExcessOne(A) == {x \in A : Cardinality({y \in A : MTime(dir[y]) > MTime(dir[x])}) >= MaxFiles - 1}

(* prune: all but the max_files newest archives. *)
Excess(A) == {x \in A : Cardinality({y \in A : MTime(dir[y]) > MTime(dir[x])}) >= MaxFiles}

(* prune: list the archives, sort them and take the excess. *)
List(p) ==
    /\ \E s \in [1 .. Cardinality(Excess(Archives)) -> Excess(Archives)] :
          /\ \A i, j \in DOMAIN s : i < j => MTime(dir[s[i]]) < MTime(dir[s[j]])
          /\ Step(p, "list", [proc[p] EXCEPT !.pc = "prune", !.todo = s])
    /\ UNCHANGED <<disk, time, faults>>

(* prune: remove the next one; that another process has removed it is an   *)
(* error.                                                                  *)
PruneNext(p) ==
    LET r == proc[p]
        x == Head(r.todo) IN
    /\ r.todo # <<>>
    /\ IF x \in DOMAIN dir
       THEN /\ Step(p, "prune", [r EXCEPT !.todo = Tail(@)])
            /\ dir' = Unlinked(x)
            /\ retired' = retired \cup lines[dir[x]]
       ELSE Step(p, "prune", Failed(r)) /\ UNCHANGED <<dir, retired>>
    /\ UNCHANGED <<lines, stamp, time, faults, accepted, archived>>

(* prune returns: the LogFile is open, the write goes on, or Drop ends and *)
(* tells the Guard.                                                        *)
Pruned(p) ==
    /\ proc[p].todo = <<>>
    /\ Step(p, "prune", CASE proc[p].op = "new" -> Idle(proc[p])
                          [] proc[p].op = "rotate" -> [proc[p] EXCEPT !.pc = "write"]
                          [] proc[p].op = "drop" -> Off)
    /\ UNCHANGED <<disk, time, faults>>

(* write, rotate: a new period has begun. *)
Rotate(p) ==
    /\ Period(time) # proc[p].period
    /\ Step(p, "idle", Creating(proc[p], "rotate"))
    /\ UNCHANGED <<disk, time, faults>>

(* write: the bytes go to the current file. *)
WriteLine(p) ==
    /\ \/ Period(time) = proc[p].period /\ Step(p, "idle", proc[p])
       \/ Step(p, "write", Idle(proc[p]))
    /\ stamp < MaxStamp
    /\ stamp' = stamp + 1
    /\ lines' = [lines EXCEPT ![proc[p].file] = @ \cup {stamp'}]
    /\ accepted' = accepted \cup {stamp'}
    /\ UNCHANGED <<dir, time, faults, archived, retired>>

(* Drop: archive and prune. *)
Drop(p) ==
    /\ Step(p, "idle", [proc[p] EXCEPT !.pc = "link", !.op = "drop"])
    /\ UNCHANGED <<disk, time, faults>>

(* A system call fails. *)
CallFails(p) ==
    /\ faults < MaxFaults
    /\ faults' = faults + 1
    /\ \/ \E pc \in {"create", "unprobe", "link", "unlink", "list", "prune"} : Step(p, pc, Failed(proc[p]))
       \/ \E pc \in {"abort", "write"} : Step(p, pc, Idle(proc[p]))
    /\ UNCHANGED <<disk, time>>

(* The process is killed, or Guard's two seconds pass before Drop is done. *)
Crash(p) ==
    /\ proc[p].pc # "off" /\ faults < MaxFaults
    /\ faults' = faults + 1
    /\ Step(p, proc[p].pc, Off)
    /\ UNCHANGED <<disk, time>>

(* A minute passes. *)
Minute ==
    /\ time < MaxTime
    /\ time' = time + 1
    /\ UNCHANGED <<disk, faults, proc>>

LogNext ==
    \/ \E p \in Process :
          \/ NewLog(p) \/ NameTaken(p) \/ CreateNew(p) \/ CheckArchive(p) \/ Unprobe(p)
          \/ HardLink(p) \/ RemoveActive(p) \/ AbortRotation(p)
          \/ List(p) \/ PruneNext(p) \/ Pruned(p)
          \/ Rotate(p) \/ WriteLine(p) \/ Drop(p) \/ CallFails(p) \/ Crash(p)
    \/ Minute

LogSpec == LogInit /\ [][LogNext]_logVars

--------------------------------------------------------------------------------
(* Every line whose write succeeded is still in a file of the directory,   *)
(* unless retention has removed its archive: neither a crash or an error   *)
(* between the steps of a rotation, nor a restart, nor a second process    *)
(* loses or overwrites a log, and the unfinished `.logging' files of dead  *)
(* processes are neither reused nor pruned.                                *)
NoLineLost ==
    LogTypeOK /\ \A l \in accepted \ retired : \E f \in Range(dir) : l \in lines[f]

(* An archive is gone only if an archive of its name had max_files newer   *)
(* ones: prune takes no other name, however stale its listing of the       *)
(* directory is and whoever else archives, prunes or dies meanwhile.  It   *)
(* goes by the name alone, so of a stem that is used again for a second    *)
(* archive either may be the one that was old: see RetainsMaxFiles.        *)
PrunesOnlyOld ==
    \A a \in archived :
        \/ Archive(a[1]) \in DOMAIN dir /\ dir[Archive(a[1])] = a[2]
        \/ \E b \in archived :
              /\ b[1] = a[1]
              /\ Cardinality({c \in archived : MTime(c[2]) > MTime(b[2])}) >= MaxFiles

(* docs/configuration.md:88, "`max_files` retains that many completed      *)
(* timestamped `.log` archives".  This does not hold of the code: create   *)
(* reuses a stem that was pruned within its minute, and a process that     *)
(* lists the directory before and removes after deletes the new archive.   *)
RetainsMaxFiles == Cardinality(Archives) >= Min({MaxFiles, Cardinality(archived)})

(* Rotation does not wedge by itself: without a crash or a failed call the *)
(* archive name of the current file is free whenever a rotation links it.  *)
ArchiveFree ==
    \A p \in Process :
        faults = 0 /\ proc[p].pc \in {"idle", "write", "link"} => Archive(proc[p].path) \notin DOMAIN dir
=============================================================================
