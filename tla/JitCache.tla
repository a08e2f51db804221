------------------------------ MODULE JitCache ------------------------------
(***************************************************************************)
(* utils/cache_utils.py: the cache of compiled kernels, one key of it.     *)
(* Processes share a directory that holds, for the key, the library        *)
(* (<hash>.so), the object file it is linked from (<hash>.o) and the lock  *)
(* file (<hash>.lock); each process also has its cache in memory.  A call  *)
(* of the interface does                                                   *)
(*     if key not in compile_cache: compile_cache[key] = cute.compile(..)  *)
(*     compile_cache[key](..)                                              *)
(* (bsa_attn_interface.py:3659-3706 and its siblings).  flock is external: *)
(* a lock belongs to an open file, is per inode, and ends with the process.*)
(* So is the linker, a child process that does not inherit the lock: it    *)
(* may be killed with the process that waits for it, or outlive it.        *)
(***************************************************************************)
EXTENDS Naturals

CONSTANTS Procs,          \* processes sharing the cache directory
          Faults,         \* which of "crash" and "clear" happen
          MaxClearCalls,  \* bound: calls of clear() in a behaviour
          MaxOrphans      \* bound: linkers at a time that outlive their processes

ASSUME FaultsAssumption == Faults \subseteq {"crash", "clear"}
ASSUME BoundAssumption  == MaxClearCalls \in Nat /\ MaxOrphans \in Nat
ASSUME ProcsAssumption  == {"none", "whole", "torn", "orphan"} \cap Procs = {}

VARIABLES at,        \* where each process is
          mem,       \* the key is in the process's memory cache
          want,      \* the lock its FileLock asks for
          fd,        \* inode of the lock file it has open, 0 for none
          flock,     \* the lock it holds on that inode
          so,        \* the library on disk: "none", "whole", "torn" (its linker
                     \* was killed), or whose linker is writing it: a process's
                     \* or an "orphan"
          obj,       \* the object file exists
          path,      \* inode the name <hash>.lock refers to, 0 if missing
          inodes,    \* lock files created so far
          doomed,    \* files a running clear() has yet to unlink
          clears,    \* calls of clear() so far
          orphans,   \* how many linkers without a process have yet to open
                     \* their output, and how many are writing it
          lost       \* history: what crashes did to linkers, "killed" or "left"

cacheVars == <<at, mem, want, fd, flock, so, obj, path, inodes, doomed, clears, orphans, lost>>
disk == <<so, obj, path, inodes>>
linkers == <<orphans, lost>>

Files == {"so", "obj", "lock"}

\* A well-typed state; a lock is held only on an open file.
TypeOK ==
    /\ at \in [Procs -> {"idle", "open", "try", "sleep", "locked", "load", "compile",
                         "export", "link", "linking", "unlink", "run", "clear"}]
    /\ mem \in [Procs -> BOOLEAN]
    /\ want \in [Procs -> {"shared", "exclusive"}]
    /\ fd \in [Procs -> 0..inodes]
    /\ flock \in [Procs -> {"none", "shared", "exclusive"}]
    /\ so \in Procs \cup {"none", "whole", "torn", "orphan"}
    /\ obj \in BOOLEAN
    /\ inodes \in Nat /\ path \in 0..inodes
    /\ doomed \in [Procs -> SUBSET Files]
    /\ clears \in 0..MaxClearCalls
    /\ orphans \in [starting: Nat, linking: Nat] /\ lost \subseteq {"killed", "left"}
    /\ \A p \in Procs : fd[p] = 0 => flock[p] = "none"

InitCache ==
    /\ at = [p \in Procs |-> "idle"] /\ mem = [p \in Procs |-> FALSE]
    /\ want = [p \in Procs |-> "shared"]
    /\ fd = [p \in Procs |-> 0] /\ flock = [p \in Procs |-> "none"]
    /\ so = "none" /\ obj = FALSE /\ path = 0 /\ inodes = 0
    /\ doomed = [p \in Procs |-> {}] /\ clears = 0
    /\ orphans = [starting |-> 0, linking |-> 0] /\ lost = {}

Goto(p, label) == at' = [at EXCEPT ![p] = label]

(***************************************************************************)
(* FileLock                                                                *)
(***************************************************************************)

\* FileLock.__enter__ begins, asking for the given lock.
Lock(p, mode) == want' = [want EXCEPT ![p] = mode] /\ Goto(p, "open")

\* FileLock.__exit__: unlock and close.
Release(p) == fd' = [fd EXCEPT ![p] = 0] /\ flock' = [flock EXCEPT ![p] = "none"]

\* os.open(.., O_CREAT): the file the name refers to, or a new one.
Open(p) ==
    /\ at[p] = "open"
    /\ \/ path # 0 /\ UNCHANGED <<path, inodes>>
       \/ path = 0 /\ inodes' = inodes + 1 /\ path' = inodes'
    /\ fd' = [fd EXCEPT ![p] = path']
    /\ Goto(p, "try")
    /\ UNCHANGED <<mem, want, flock, so, obj, doomed, clears, linkers>>

\* Bugs for the runs to find: no lock, and a shared lock that ignores writers.
GrantedAnyway(p) == TRUE
GrantedToReaders(p) ==
    want[p] = "shared" \/ \A q \in Procs \ {p} : fd[q] = fd[p] => flock[q] = "none"

\* Nobody else holds a lock on p's open file that conflicts with the one p wants.
Granted(p) ==
    \A q \in Procs \ {p} :
        fd[q] = fd[p] => \/ flock[q] = "none"
                         \/ flock[q] = "shared" /\ want[p] = "shared"

\* flock(LOCK_NB): taken, or an OSError and 0.1 s of sleep.
Try(p) ==
    /\ at[p] = "try"
    /\ \/ Granted(p) /\ flock' = [flock EXCEPT ![p] = want[p]] /\ Goto(p, "locked")
       \/ ~Granted(p) /\ Goto(p, "sleep") /\ UNCHANGED flock
    /\ UNCHANGED <<mem, want, fd, disk, doomed, clears, linkers>>

Retry(p) ==
    /\ at[p] = "sleep" /\ Goto(p, "try")
    /\ UNCHANGED <<mem, want, fd, flock, disk, doomed, clears, linkers>>

\* A bug for the runs to find: the deadline starts anew.
TimeoutRestarts(p) ==
    /\ at[p] = "sleep" /\ Goto(p, "try")
    /\ UNCHANGED <<mem, want, fd, flock, disk, doomed, clears, linkers>>

\* The deadline passed while polling: close the file and raise RuntimeError.
Timeout(p) ==
    /\ at[p] = "sleep" /\ Release(p) /\ Goto(p, "idle")
    /\ UNCHANGED <<mem, want, disk, doomed, clears, linkers>>

(***************************************************************************)
(* JITPersistentCache                                                      *)
(***************************************************************************)

\* `key in cache`: a hit in memory, or _try_load_from_storage.
Ask(p) ==
    /\ at[p] = "idle"
    /\ \/ mem[p] /\ Goto(p, "run") /\ UNCHANGED want
       \/ ~mem[p] /\ Lock(p, "shared")
    /\ UNCHANGED <<mem, fd, flock, disk, doomed, clears, linkers>>

\* A bug for the runs to find: a miss leaves the shared lock held.
LookupKeepsLock(p) ==
    /\ at[p] = "locked" /\ want[p] = "shared"
    /\ \/ so # "none" /\ Goto(p, "load")
       \/ so = "none" /\ Goto(p, "compile")
    /\ UNCHANGED <<mem, want, fd, flock, disk, doomed, clears, linkers>>

\* so_path.exists() under the shared lock; a miss makes the caller compile.
Lookup(p) ==
    /\ at[p] = "locked" /\ want[p] = "shared"
    /\ \/ so # "none" /\ Goto(p, "load") /\ UNCHANGED <<fd, flock>>
       \/ so = "none" /\ Release(p) /\ Goto(p, "compile")
    /\ UNCHANGED <<mem, want, disk, doomed, clears, linkers>>

\* load_module: fills the memory cache, or raises on a library that is not
\* whole or not there any more.
LoadModule(p) ==
    /\ at[p] = "load" /\ Release(p)
    /\ \/ so = "whole" /\ mem' = [mem EXCEPT ![p] = TRUE] /\ Goto(p, "run")
       \/ so # "whole" /\ Goto(p, "idle") /\ UNCHANGED mem
    /\ UNCHANGED <<want, disk, doomed, clears, linkers>>

\* cute.compile, then __setitem__: memory first, then _try_export_to_storage.
Compile(p) ==
    /\ at[p] = "compile" /\ mem' = [mem EXCEPT ![p] = TRUE]
    /\ Lock(p, "exclusive")
    /\ UNCHANGED <<fd, flock, disk, doomed, clears, linkers>>

\* A bug for the runs to find: the library is exported although it exists.
CheckNothing(p) ==
    /\ at[p] = "locked" /\ want[p] = "exclusive" /\ Goto(p, "export")
    /\ UNCHANGED <<mem, want, fd, flock, disk, doomed, clears, linkers>>

\* Under the exclusive lock: skip what another process already exported.
Recheck(p) ==
    /\ at[p] = "locked" /\ want[p] = "exclusive"
    /\ \/ so # "none" /\ Release(p) /\ Goto(p, "run")
       \/ so = "none" /\ Goto(p, "export") /\ UNCHANGED <<fd, flock>>
    /\ UNCHANGED <<mem, want, disk, doomed, clears, linkers>>

Export(p) ==
    /\ at[p] = "export" /\ obj' = TRUE /\ Goto(p, "link")
    /\ UNCHANGED <<mem, want, fd, flock, so, path, inodes, doomed, clears, linkers>>

\* The linker opens its output, or is not called as the library that somebody
\* else has put there is newer than the object file; without that it raises.
LinkBegins(p) ==
    /\ at[p] = "link"
    /\ \/ obj /\ so' = p /\ Goto(p, "linking") /\ UNCHANGED <<fd, flock>>
       \/ obj /\ so # "none" /\ Goto(p, "unlink") /\ UNCHANGED <<so, fd, flock>>
       \/ ~obj /\ Release(p) /\ Goto(p, "idle") /\ UNCHANGED so
    /\ UNCHANGED <<mem, want, obj, path, inodes, doomed, clears, linkers>>

LinkEnds(p) ==
    /\ at[p] = "linking" /\ Goto(p, "unlink")
    /\ so' = IF so = p THEN "whole" ELSE so
    /\ UNCHANGED <<mem, want, fd, flock, obj, path, inodes, doomed, clears, linkers>>

\* obj_path.unlink(), which raises if the file is gone; either way __exit__ runs.
RemoveObj(p) ==
    /\ at[p] = "unlink" /\ obj' = FALSE /\ Release(p)
    /\ \/ obj /\ Goto(p, "run")
       \/ ~obj /\ Goto(p, "idle")
    /\ UNCHANGED <<mem, want, so, path, inodes, doomed, clears, linkers>>

\* compile_cache[key](..): found in memory.
Run(p) ==
    /\ at[p] = "run" /\ mem[p] /\ Goto(p, "idle")
    /\ UNCHANGED <<mem, want, fd, flock, disk, doomed, clears, linkers>>

(***************************************************************************)
(* clear() and crashes                                                     *)
(***************************************************************************)

Present == {f \in Files : \/ f = "so"   /\ so # "none"
                          \/ f = "obj"  /\ obj
                          \/ f = "lock" /\ path # 0}

\* clear(): memory first, then the files listed, one by one, under no lock.
BeginClear(p) ==
    /\ "clear" \in Faults /\ clears < MaxClearCalls /\ clears' = clears + 1
    /\ at[p] = "idle" /\ Goto(p, "clear")
    /\ mem' = [mem EXCEPT ![p] = FALSE] /\ doomed' = [doomed EXCEPT ![p] = Present]
    /\ UNCHANGED <<want, fd, flock, disk, linkers>>

UnlinkDoomed(p, f) ==
    /\ at[p] = "clear" /\ f \in doomed[p]
    /\ \/ /\ f \in Present
          /\ so'   = IF f = "so" THEN "none" ELSE so
          /\ obj'  = (f # "obj" /\ obj)
          /\ path' = IF f = "lock" THEN 0 ELSE path
          /\ doomed' = [doomed EXCEPT ![p] = @ \ {f}]
          /\ UNCHANGED at
       \/ /\ f \notin Present     \* FileNotFoundError
          /\ doomed' = [doomed EXCEPT ![p] = {}] /\ Goto(p, "idle")
          /\ UNCHANGED <<so, obj, path>>
    /\ UNCHANGED <<mem, want, fd, flock, inodes, clears, linkers>>

EndClear(p) ==
    /\ at[p] = "clear" /\ doomed[p] = {} /\ Goto(p, "idle")
    /\ UNCHANGED <<mem, want, fd, flock, disk, doomed, clears, linkers>>

\* A process dies and a new one takes its place; the kernel drops its lock, the
\* disk keeps what was written.
Dies(p) ==
    /\ "crash" \in Faults /\ Release(p) /\ Goto(p, "idle")
    /\ mem' = [mem EXCEPT ![p] = FALSE] /\ doomed' = [doomed EXCEPT ![p] = {}]
    /\ UNCHANGED <<want, obj, path, inodes, clears>>

\* Its linker, if it has one, is killed with it.
Crash(p) ==
    /\ Dies(p)
    /\ so' = IF so = p THEN "torn" ELSE so
    /\ lost' = IF at[p] = "linking" THEN lost \cup {"killed"} ELSE lost
    /\ UNCHANGED orphans

\* Its linker goes on, with no lock.
CrashLeavesLinker(p) ==
    /\ Dies(p)
    /\ orphans.starting + orphans.linking < MaxOrphans
    /\ \/ at[p] = "link" /\ orphans' = [orphans EXCEPT !.starting = @ + 1] /\ UNCHANGED so
       \/ /\ at[p] = "linking" /\ orphans' = [orphans EXCEPT !.linking = @ + 1]
          /\ so' = IF so = p THEN "orphan" ELSE so
    /\ lost' = lost \cup {"left"}

(***************************************************************************)
(* Linkers that outlived their processes                                   *)
(***************************************************************************)

\* It opens its output, or fails as somebody has removed the object file.
OrphanBegins ==
    /\ orphans.starting > 0
    /\ \/ obj /\ so' = "orphan"
          /\ orphans' = [starting |-> orphans.starting - 1, linking |-> orphans.linking + 1]
       \/ ~obj /\ orphans' = [orphans EXCEPT !.starting = @ - 1] /\ UNCHANGED so
    /\ UNCHANGED <<at, mem, want, fd, flock, obj, path, inodes, doomed, clears, lost>>

\* The one whose file still has the name ends or is killed too, or another one
\* does either.
OrphanEnds ==
    /\ orphans.linking > 0 /\ orphans' = [orphans EXCEPT !.linking = @ - 1]
    /\ \/ so = "orphan" /\ so' = "whole" /\ UNCHANGED lost
       \/ so = "orphan" /\ "crash" \in Faults /\ so' = "torn" /\ lost' = lost \cup {"killed"}
       \/ (so # "orphan" \/ orphans.linking > 1) /\ UNCHANGED <<so, lost>>
    /\ UNCHANGED <<at, mem, want, fd, flock, obj, path, inodes, doomed, clears>>

CacheStep(p) ==
    \/ Open(p) \/ Try(p) \/ Retry(p)
    \/ Lookup(p) \/ LoadModule(p) \/ Compile(p) \/ Recheck(p) \/ Export(p)
    \/ LinkBegins(p) \/ LinkEnds(p) \/ RemoveObj(p) \/ Run(p)
    \/ (\E f \in Files : UnlinkDoomed(p, f)) \/ EndClear(p)

CacheNext ==
    \/ \E p \in Procs : \/ CacheStep(p) \/ Ask(p) \/ Timeout(p) \/ BeginClear(p)
                        \/ Crash(p) \/ CrashLeavesLinker(p)
    \/ OrphanBegins \/ OrphanEnds

CacheSpec == InitCache /\ [][CacheNext]_cacheVars

\* A process that is in a call goes on, and polling ends at its deadline; no
\* process has to make a call, to clear, or to crash, and no linker that nobody
\* waits for has to end.
FairCacheSpec == CacheSpec /\ \A p \in Procs : WF_cacheVars(CacheStep(p)) /\ SF_cacheVars(Timeout(p))

(***************************************************************************)
(* Properties                                                              *)
(***************************************************************************)

Writing(p) == at[p] \in {"export", "link", "linking", "unlink"}

\* No process writes the library or its object file while another one loads or
\* writes it: the docstring of _try_load_from_storage (line 224).
LoadsLocked ==
    \A p, q \in Procs : Writing(p) /\ p # q => ~Writing(q) /\ at[q] # "load"

\* The same, as long as nobody has called clear(): neither the crash of a holder,
\* with or without its linker, nor the creation of the lock file nor its polling
\* lets two processes in.  It is about processes: a linker that outlives its own
\* has no lock, and what it does to the others is in the next two properties.
LockedUntilCleared == clears = 0 => LoadsLocked

\* Until a clear() a process about to load finds a whole library; or, and only if
\* a crash has hit a link, the rest of one whose linker was killed, or one that a
\* linker left behind is still writing.  It is never missing, and never one that a
\* living process links.
LoadsSettledLibrary ==
    clears = 0 => \A p \in Procs : at[p] = "load" =>
        \/ so = "whole"
        \/ so = "torn" /\ "killed" \in lost
        \/ so = "orphan" /\ "left" \in lost

\* No hold and wait: a process asking for a lock has none, so the shared lock of
\* its failed lookup cannot block its own (or another's) export.
NoHoldAndWait ==
    \A p \in Procs : at[p] \in {"compile", "open", "try", "sleep"} => flock[p] = "none"

\* Until a clear(), or a crash that leaves a linker behind, a finished library is
\* never written again, by whatever process: another one may have it mapped.
NeverRewritten ==
    [][so = "whole" /\ clears = 0 /\ "left" \notin lost => so' = "whole"]_cacheVars

\* Every call comes back, with the kernel or with an exception, whatever the
\* other processes do to the directory and the locks.
EveryCallReturns == \A p \in Procs : at[p] # "idle" ~> at[p] = "idle"
=============================================================================
