--------------------------------- MODULE Upkeep ---------------------------------
(***************************************************************************)
(* The panel replaces itself and its data: a backup is staged and put in   *)
(* place by the next start (backup/restore.go, cmd/wui/start.go), and a    *)
(* release is left for the root helper, which installs it and restarts the *)
(* panel (update/staged.go, update/job.go, cmd/wui/sign.go).  The two meet *)
(* in the restart: the helper's comes in the middle of whatever the panel  *)
(* is doing, and so does a crash.                                          *)
(*                                                                         *)
(* A file's content is the number of the archive it is from, 0 for what    *)
(* was on the server; a release is its version.  A file is renamed into    *)
(* place, so it is there whole or not at all.                              *)
(***************************************************************************)
EXTENDS Integers, FiniteSets

CONSTANTS
    Others,         \* the files of the data directory beside the database
    Versions,       \* the releases, by number
    MaxRestores,    \* bound on the restores
    MaxAsks,        \* bound on the requests to the helper
    MaxCrashes,     \* bound on the crashes
    MayRepeat       \* whether a restore may be asked for while one is about to be applied

None == -1
Setup == 0
Data == Others \cup {"db"}
Archived == Data \cup {"dump"}

ASSUME UpkeepAssumption ==
    /\ Others \cap {"db", "dump", "addresses", "marker"} = {}
    /\ Versions \subseteq Nat \ {0, 1}
    /\ {MaxRestores, MaxAsks, MaxCrashes} \subseteq Nat
    /\ MayRepeat \in BOOLEAN

VARIABLES
    phase,      \* the panel: up, or the step of its start it is at
    data,       \* the data directory
    wal,        \* whose write-ahead log lies beside the database
    ours,       \* whether the database's addresses name this server
    staged,     \* the staging directory: what is in it, of which archive
    import,     \* the portable dump waiting to be loaded
    setAside,   \* the last one that could not be loaded, as it is kept
    start,      \* what the start found: the files to move, and how
    restore,    \* the restore request under way: its step, its archive, its files
    leaving,    \* whether the process is about to end, a restore being staged
    restores,   \* how many there were
    asking,     \* the panel's request to the helper: its step and what it is for
    stage,      \* the helper's directory: binary, signature, request, result
    helper,     \* the helper: its step and what it read
    installed,  \* the version installed
    running,    \* the version the panel runs
    told,       \* the last answer given to the operator
    asks,       \* how many requests there were
    crashes     \* how many crashes there were

disk == <<data, wal, ours, staged, import, setAside>>
restoring == <<disk, start, restore, leaving, restores>>
updating == <<asking, stage, helper, installed, told, asks>>
vars == <<phase, restoring, updating, running, crashes>>

NoStart == [todo |-> {}, byFile |-> FALSE, keep |-> FALSE, restored |-> FALSE]
NoRestore == [at |-> "idle", of |-> 0, left |-> {}]
NoAsk == [at |-> "idle", for |-> 0]
NoHelper == [at |-> "idle", req |-> None, binary |-> None, sig |-> None,
             ok |-> FALSE, new |-> FALSE]
Empty == [f \in {} |-> 0]

Init ==
    /\ phase = "up"
    /\ data = [f \in Data |-> 0] /\ wal = 0 /\ ours = TRUE
    /\ staged = Empty /\ import = None /\ setAside = None
    /\ start = NoStart /\ restore = NoRestore /\ leaving = FALSE /\ restores = 0
    /\ asking = NoAsk /\ helper = NoHelper
    /\ stage = [binary |-> None, sig |-> None, request |-> None, result |-> "none"]
    /\ installed = 1 /\ running = 1
    /\ told = [for |-> Setup, ok |-> FALSE]
    /\ asks = 0 /\ crashes = 0

Steps == {"idle", "clear", "unpack", "stash", "mark"}
TypeOK ==
    /\ phase \in {"up", "boot", "move", "discard", "open", "load", "loaded", "refused", "address"}
    /\ data \in [Data -> 0..MaxRestores] /\ wal \in (0..MaxRestores) \cup {None}
    /\ DOMAIN staged \subseteq Archived \cup {"addresses", "marker"}
    /\ {import, setAside} \subseteq (0..MaxRestores) \cup {None}
    /\ start.todo \subseteq DOMAIN staged
    /\ restore.at \in Steps /\ (restore.at # "idle" \/ leaving => phase = "up")
    /\ asking.at \in {"idle", "binary", "sig", "request", "await", "restarting"}
    /\ (asking.at # "idle" => phase = "up")
    /\ installed \in Versions \cup {1} /\ running <= installed

-------------------------------------------------------------------------------
(* Restore: a request, while the panel is up. *)

\* The archive is read through, what is being replaced is saved, and the
\* staging directory is made empty.  Every archive has a portable dump; one
\* taken on this engine has the database's file too.
RestoreAsked ==
    /\ phase = "up" /\ restore.at = "idle" /\ restores < MaxRestores
    /\ leaving => MayRepeat
    /\ restores' = restores + 1
    /\ \E files \in {Archived, Archived \ {"db"}} :
         restore' = [at |-> "clear", of |-> restores + 1, left |-> files]
    /\ UNCHANGED <<phase, disk, start, leaving, updating, running, crashes>>

Without(s, f) == [g \in DOMAIN s \ {f} |-> s[g]]
With(s, f, a) == [g \in DOMAIN s \cup {f} |-> IF g = f THEN a ELSE s[g]]

RestoreClears ==
    /\ phase = "up" /\ restore.at = "clear"
    /\ \/ \E f \in DOMAIN staged : staged' = Without(staged, f) /\ UNCHANGED restore
       \/ /\ DOMAIN staged = {}
          /\ restore' = [restore EXCEPT !.at = "unpack"]
          /\ UNCHANGED staged
    /\ UNCHANGED <<phase, data, wal, ours, import, start, leaving, restores, setAside, updating, running, crashes>>

RestoreUnpacks ==
    /\ phase = "up" /\ restore.at = "unpack"
    /\ \/ \E f \in restore.left :
            /\ staged' = With(staged, f, restore.of)
            /\ restore' = [restore EXCEPT !.left = @ \ {f}]
       \/ /\ restore.left = {}
          /\ restore' = [restore EXCEPT !.at = "stash"]
          /\ UNCHANGED staged
    /\ UNCHANGED <<phase, data, wal, ours, import, start, leaving, restores, setAside, updating, running, crashes>>

\* This server's addresses, then the marker, which is what the next start
\* looks for; the process ends a moment later.
RestoreMarks ==
    /\ phase = "up"
    /\ \/ /\ restore.at = "stash"
          /\ staged' = With(staged, "addresses", restore.of)
          /\ restore' = [restore EXCEPT !.at = "mark"]
          /\ UNCHANGED leaving
       \/ /\ restore.at = "mark"
          /\ staged' = With(staged, "marker", restore.of)
          /\ restore' = NoRestore
          /\ leaving' = TRUE
    /\ UNCHANGED <<phase, data, wal, ours, import, start, restores, setAside, updating, running, crashes>>

-------------------------------------------------------------------------------
(* The process ends, and the service manager starts it again on the binary *)
(* that is installed.                                                      *)

Ended ==
    /\ phase' = "boot"
    /\ start' = NoStart /\ restore' = NoRestore /\ leaving' = FALSE
    /\ asking' = NoAsk
    /\ running' = installed

Exit ==
    /\ phase = "up" /\ leaving
    /\ Ended
    /\ UNCHANGED <<disk, restores, stage, helper, installed, told, asks, crashes>>

\* A crash of the panel, or of the server and the helper with it.
Crash ==
    /\ crashes < MaxCrashes
    /\ crashes' = crashes + 1
    /\ Ended
    /\ helper' \in {helper, NoHelper}
    /\ UNCHANGED <<disk, restores, stage, installed, told, asks>>

-------------------------------------------------------------------------------
(* The start: ApplyPending, then the database is opened.                   *)

\* A staging directory without a marker is applied for what it holds.
Boot_Wrong ==
    /\ phase = "boot"
    /\ IF DOMAIN staged # {}
       THEN /\ phase' = "move"
            /\ start' = [todo |-> DOMAIN staged \cap Archived,
                         byFile |-> "db" \in DOMAIN staged,
                         keep |-> "addresses" \in DOMAIN staged, restored |-> TRUE]
            /\ UNCHANGED staged
       ELSE /\ phase' = "open"
            /\ staged' = Empty
            /\ UNCHANGED start
    /\ UNCHANGED <<data, wal, ours, import, restore, leaving, restores, setAside, updating, running, crashes>>

\* Without a marker what is staged is incomplete and discarded.  With one its
\* files are listed; the database's file wins over the dump.
Boot ==
    /\ phase = "boot"
    /\ IF "marker" \in DOMAIN staged
       THEN /\ phase' = "move"
            /\ start' = [todo |-> DOMAIN staged \cap Archived,
                         byFile |-> "db" \in DOMAIN staged,
                         keep |-> "addresses" \in DOMAIN staged, restored |-> TRUE]
            /\ UNCHANGED staged
       ELSE /\ phase' = "open"
            /\ staged' = Empty
            /\ UNCHANGED start
    /\ UNCHANGED <<data, wal, ours, import, restore, leaving, restores, setAside, updating, running, crashes>>

\* One file is moved over its place; the dump is kept aside, or left.
MoveOne(f) ==
    /\ phase = "move" /\ f \in start.todo
    /\ start' = [start EXCEPT !.todo = @ \ {f}]
    /\ IF f = "dump"
       THEN IF start.byFile THEN UNCHANGED <<staged, import, data, ours>>
            ELSE /\ import' = staged[f] /\ staged' = Without(staged, f)
                 /\ UNCHANGED <<data, ours>>
       ELSE /\ data' = [data EXCEPT ![f] = staged[f]]
            /\ ours' = (ours /\ f # "db")
            /\ staged' = Without(staged, f)
            /\ UNCHANGED import
    /\ UNCHANGED <<phase, wal, restore, leaving, restores, setAside, updating, running, crashes>>

\* The write-ahead log goes, and then the staging directory, file by file.
Moved ==
    /\ phase = "move" /\ start.todo = {}
    /\ wal' = None
    /\ phase' = "discard"
    /\ UNCHANGED <<data, ours, staged, import, start, restore, leaving,
                   restores, setAside, updating, running, crashes>>

Discard ==
    /\ phase = "discard"
    /\ \/ \E f \in DOMAIN staged : staged' = Without(staged, f) /\ UNCHANGED phase
       \/ DOMAIN staged = {} /\ phase' = "open" /\ UNCHANGED staged
    /\ UNCHANGED <<data, wal, ours, import, start, restore, leaving,
                   restores, setAside, updating, running, crashes>>

\* What a log holds is replayed over the database it lies beside.
Open ==
    /\ phase = "open"
    /\ IF wal # None THEN data' = [data EXCEPT !["db"] = wal] ELSE UNCHANGED data
    /\ wal' = data'["db"]
    /\ phase' = "load"
    /\ UNCHANGED <<ours, staged, import, start, restore, leaving, restores, setAside, updating,
                   running, crashes>>

\* A dump is loaded only by the start that put it there.
Load_Wrong ==
    /\ phase = "load"
    /\ \/ /\ import = None \/ ~start.restored
          /\ phase' = "address"
          /\ UNCHANGED <<data, wal, ours, start>>
       \/ /\ import # None /\ start.restored
          /\ data' = [data EXCEPT !["db"] = import] /\ wal' = import
          /\ ours' = FALSE
          /\ start' = [start EXCEPT !.restored = TRUE]
          /\ phase' = "loaded"
    /\ UNCHANGED <<staged, import, restore, leaving, restores, setAside, updating, running, crashes>>

\* A dump that waits is loaded, whoever left it, all of it or, if the database
\* refuses any of it, nothing.
Load ==
    /\ phase = "load"
    /\ \/ /\ phase' = IF import = None THEN "address" ELSE "refused"
          /\ UNCHANGED <<data, wal, ours, start>>
       \/ /\ import # None
          /\ data' = [data EXCEPT !["db"] = import] /\ wal' = import
          /\ ours' = FALSE
          /\ start' = [start EXCEPT !.restored = TRUE]
          /\ phase' = "loaded"
    /\ UNCHANGED <<staged, import, restore, leaving, restores, setAside, updating, running, crashes>>

\* Loaded, it is removed; refused, it is renamed aside.
Loaded ==
    /\ phase \in {"loaded", "refused"}
    /\ import' = None
    /\ setAside' = IF phase = "refused" THEN import ELSE setAside
    /\ phase' = "address"
    /\ UNCHANGED <<data, wal, ours, staged, start, restore, leaving, restores, updating,
                   running, crashes>>

\* The addresses that name this server are put back, those this start read.
PutBack ==
    /\ phase = "address"
    /\ ours' = (ours \/ (start.restored /\ start.keep))
    /\ phase' = "up"
    /\ start' = NoStart
    /\ UNCHANGED <<data, wal, staged, import, restore, leaving, restores, setAside, updating,
                   running, crashes>>

Startup == \/ Boot \/ Moved \/ Discard \/ Open \/ Load \/ Loaded \/ PutBack
           \/ \E f \in Archived : MoveOne(f)

-------------------------------------------------------------------------------
(* The panel's side of an update: one request at a time. *)

\* Start, or RequestSetup: a release newer than the one running is downloaded
\* and its signature checked; what an earlier attempt left as its answer is
\* removed.
Asked ==
    /\ phase = "up" /\ asking.at = "idle" /\ asks < MaxAsks
    /\ asks' = asks + 1
    /\ \E v \in {Setup} \cup {v \in Versions : v > running} :
         asking' = [at |-> IF v = Setup THEN "request" ELSE "binary", for |-> v]
    /\ stage' = [stage EXCEPT !.result = "none"]
    /\ UNCHANGED <<phase, restoring, helper, installed, running, told, crashes>>

\* handOver: the binary, its signature, and last the request.
Leave(step, next) ==
    /\ phase = "up" /\ asking.at = step
    /\ stage' = [stage EXCEPT ![step] = asking.for]
    /\ asking' = [asking EXCEPT !.at = next]
    /\ UNCHANGED <<phase, restoring, helper, installed, running, told, asks, crashes>>

HandOver == Leave("binary", "sig") \/ Leave("sig", "request") \/ Leave("request", "await")

\* awaitResult: the answer found is taken for the answer to this request.
Answered ==
    /\ phase = "up" /\ asking.at = "await" /\ stage.result # "none"
    /\ told' = [for |-> asking.for, ok |-> stage.result = "ok"]
    /\ asking' = IF stage.result = "ok" /\ asking.for # Setup
                 THEN [asking EXCEPT !.at = "restarting"] ELSE NoAsk
    /\ UNCHANGED <<phase, restoring, stage, helper, installed, running, asks, crashes>>

\* helperTimeout: after two minutes the panel gives up; the request stays.
GivesUp ==
    /\ phase = "up" /\ asking.at = "await" /\ stage.result = "none"
    /\ told' = [for |-> asking.for, ok |-> FALSE]
    /\ asking' = NoAsk
    /\ UNCHANGED <<phase, restoring, stage, helper, installed, running, asks, crashes>>

Panel == \/ RestoreAsked \/ RestoreClears \/ RestoreUnpacks \/ RestoreMarks \/ Exit
         \/ Asked \/ HandOver \/ Answered \/ GivesUp

-------------------------------------------------------------------------------
(* The helper: ApplyStaged, run as root whenever there is a request. *)

HelperTakes ==
    /\ helper.at = "idle" /\ stage.request # None
    /\ helper' = [NoHelper EXCEPT !.req = stage.request, !.ok = stage.request = Setup,
                    !.at = IF stage.request = Setup THEN "unsign" ELSE "read"]
    /\ stage' = [stage EXCEPT !.request = None]
    /\ UNCHANGED <<phase, restoring, asking, installed, running, told, asks, crashes>>

HelperReads ==
    /\ helper.at \in {"read", "sign"}
    /\ helper' = IF helper.at = "read"
                 THEN [helper EXCEPT !.binary = stage.binary,
                         !.at = IF stage.binary = None THEN "unsign" ELSE "sign"]
                 ELSE [helper EXCEPT !.sig = stage.sig,
                         !.at = IF stage.sig = helper.binary THEN "replace" ELSE "unsign"]
    /\ UNCHANGED <<phase, restoring, asking, stage, installed, running, told, asks, crashes>>

\* replaceIfNewer: a signed build is put in place only over an older one.
HelperReplaces ==
    /\ helper.at = "replace"
    /\ LET later == helper.binary > installed
       IN  /\ installed' = IF later THEN helper.binary ELSE installed
           /\ helper' = [helper EXCEPT !.at = "unsign", !.ok = later, !.new = later]
    /\ UNCHANGED <<phase, restoring, asking, stage, running, told, asks, crashes>>

\* The staged files are removed, and then the outcome is recorded.
HelperCleans ==
    /\ \/ /\ helper.at = "unsign"
          /\ stage' = [stage EXCEPT !.sig = None]
          /\ helper' = [helper EXCEPT !.at = "unstage"]
       \/ /\ helper.at = "unstage"
          /\ stage' = [stage EXCEPT !.binary = None]
          /\ helper' = [helper EXCEPT !.at = "record"]
    /\ UNCHANGED <<phase, restoring, asking, installed, running, told, asks, crashes>>

HelperRecords ==
    /\ helper.at = "record"
    /\ stage' = [stage EXCEPT !.result = IF helper.ok THEN "ok" ELSE "failed"]
    /\ helper' = IF helper.new THEN [helper EXCEPT !.at = "restart"] ELSE NoHelper
    /\ UNCHANGED <<phase, restoring, asking, installed, running, told, asks, crashes>>

\* Nobody restarts the panel.
HelperRestarts_Wrong ==
    /\ helper.at = "restart"
    /\ helper' = NoHelper
    /\ UNCHANGED <<phase, restoring, asking, stage, installed, running, told, asks, crashes>>

\* A moment later the panel is restarted, whatever it is doing.
HelperRestarts ==
    /\ helper.at = "restart"
    /\ helper' = NoHelper
    /\ Ended
    /\ UNCHANGED <<disk, restores, stage, installed, told, asks, crashes>>

Helper == HelperTakes \/ HelperReads \/ HelperReplaces \/ HelperCleans
          \/ HelperRecords \/ HelperRestarts

-------------------------------------------------------------------------------
(* The specification. *)

Next == Panel \/ Startup \/ Helper \/ Crash

Spec == Init /\ [][Next]_vars

\* A start and a restore go on to their end, and so does the helper: each is
\* one process doing one thing after another.
Fairness ==
    /\ WF_vars(Startup) /\ WF_vars(Helper)
    /\ WF_vars(RestoreClears \/ RestoreUnpacks \/ RestoreMarks \/ Exit)

FairSpec == Spec /\ Fairness

-------------------------------------------------------------------------------
(* Properties. *)

\* Whenever the panel serves, its files are all of one state, its own or one
\* archive's, whatever crash or restart came while a restore was being staged
\* or put in place. The database alone may be another's: the one it was, when the
\* archive's dump could not be loaded into it. (ApplyPending, openPanelDatabase.)
OneState ==
    phase = "up" => \E a \in {data["db"], setAside} : \A f \in Others : data[f] = a

\* A restore that was marked ready is on the server in the end, however often
\* the start that puts it there is cut off, and by whichever way it is loaded;
\* a dump that the database refused is at least kept.
Ready(a) == "marker" \in DOMAIN staged /\ staged["marker"] = a
StagedIsApplied ==
    \A a \in 1..MaxRestores :
        Ready(a) ~> (\/ restores > a
                     \/ a \in {data["db"], setAside} /\ \A f \in Others : data[f] = a)

\* An installed release is the one running in the end.
RunsWhatIsInstalled == (running < installed) ~> (running = installed)

=================================================================================
