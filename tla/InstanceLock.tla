---------------------------- MODULE InstanceLock ----------------------------
(***************************************************************************)
(* instance_lock.py under run.sh: several restart loops on one machine     *)
(* start main.py over and over, each start takes the advisory lock on      *)
(* bot.pid or gives up, and a clean end releases it and removes the file.  *)
(*                                                                         *)
(* A lock belongs to a file and a file outlives its name as long as some   *)
(* process has it open: that is all of the file system this needs.  The    *)
(* pid written into the file is read for messages only and left out.       *)
(***************************************************************************)
EXTENDS Integers

CONSTANTS
    Loops,      \* the run.sh loops; each has at most one process at a time
    MaxFiles    \* bound: files ever created under the name bot.pid

None == 0

VARIABLES
    phase,    \* what the process of each loop is doing
    fd,       \* the file it has open
    holder,   \* holder[f]: the loop whose process has the lock on file f
    path,     \* the file that has the name bot.pid, if any
    files     \* files created so far

vars == <<phase, fd, holder, path, files>>

Files == 1 .. MaxFiles

Init ==
    /\ phase = [l \in Loops |-> "waiting"] /\ fd = [l \in Loops |-> None]
    /\ holder = [f \in Files |-> {}] /\ path = None /\ files = 0

\* os.open(lock_path, O_CREAT | O_RDWR)
Open(l) ==
    /\ phase[l] = "waiting"
    /\ IF path # None THEN UNCHANGED <<path, files>>
       ELSE files < MaxFiles /\ files' = files + 1 /\ path' = files + 1
    /\ fd' = [fd EXCEPT ![l] = path']
    /\ phase' = [phase EXCEPT ![l] = "opened"]
    /\ UNCHANGED holder

\* flock(LOCK_EX | LOCK_NB) on the file that was opened, whatever its name now.
Lock(l) ==
    /\ phase[l] = "opened" /\ holder[fd[l]] = {}
    /\ holder' = [holder EXCEPT ![fd[l]] = {l}]
    /\ phase' = [phase EXCEPT ![l] = "running"]
    /\ UNCHANGED <<fd, path, files>>

\* InstanceAlreadyRunningError: main.py exits and run.sh tries again.
Blocked(l) ==
    /\ phase[l] = "opened" /\ holder[fd[l]] # {}
    /\ fd' = [fd EXCEPT ![l] = None]
    /\ phase' = [phase EXCEPT ![l] = "waiting"]
    /\ UNCHANGED <<holder, path, files>>

\* release, run by atexit: unlock and close ...
Unlock(l) ==
    /\ phase[l] = "running"
    /\ holder' = [holder EXCEPT ![fd[l]] = {}]
    /\ fd' = [fd EXCEPT ![l] = None]
    /\ phase' = [phase EXCEPT ![l] = "leaving"]
    /\ UNCHANGED <<path, files>>

\* ... then remove whatever is called bot.pid.
Remove(l) ==
    /\ phase[l] = "leaving" /\ path' = None
    /\ phase' = [phase EXCEPT ![l] = "waiting"]
    /\ UNCHANGED <<fd, holder, files>>

\* kill -9, or any death without atexit: the kernel closes the file.
Dies(l) ==
    /\ phase[l] # "waiting"
    /\ holder' = [f \in Files |-> holder[f] \ {l}]
    /\ fd' = [fd EXCEPT ![l] = None]
    /\ phase' = [phase EXCEPT ![l] = "waiting"]
    /\ UNCHANGED <<path, files>>

Next ==
    \E l \in Loops :
        Open(l) \/ Lock(l) \/ Blocked(l) \/ Unlock(l) \/ Remove(l) \/ Dies(l)

Spec == Init /\ [][Next]_vars

\* The same, when no process ever ends in an orderly way.
DeathsOnly == \E l \in Loops : Open(l) \/ Lock(l) \/ Blocked(l) \/ Dies(l)

CrashSpec == Init /\ [][DeathsOnly]_vars

-----------------------------------------------------------------------------

\* instance_lock.py: it "prevents more than one BAKA process from running at
\* once against the same database and bot token".
OneInstance == \A k, l \in Loops : phase[k] = "running" /\ phase[l] = "running" => k = l
=============================================================================
