------------------------------- MODULE Dapps --------------------------------
(***************************************************************************)
(* One application of modules/dapps.js: installed, launched, stopped and   *)
(* uninstalled by calls of the API, which wait for the database, the       *)
(* directory and the download while other calls and the events of the      *)
(* sandboxes go on.                                                        *)
(*                                                                         *)
(* What the calls share are the flags `loading', `uninstalling' and        *)
(* `launched', the registered sandbox, the directory, the public link and  *)
(* the tables of the application, and what `require' once read of its      *)
(* files: it reads a path once in the life of a process, and createTables  *)
(* writes into the object that it returned.                                *)
(*                                                                         *)
(* A call occupies one of the slots of Calls while it is under way.  What  *)
(* a call only reads at its beginning (the application in the database,    *)
(* the passphrase) can only make it fail at once, and is left out.         *)
(***************************************************************************)
EXTENDS Integers, FiniteSets

CONSTANTS Calls,       \* slots of the calls that are under way at once
          MaxCalls,    \* bound: calls
          MaxFaults,   \* bound: downloads, queries and directories that fail
          MaxRestarts  \* bound: restarts of the node

ASSUME DappsAssumption == {MaxCalls, MaxFaults, MaxRestarts} \subseteq Nat

VARIABLES
  app,          \* what is in the archive: a public directory, tables
  call,         \* what the call in a slot waits for
  dir,          \* the directory of the application
  unpacked,     \* which of the files that matter here are in it
  link,         \* whether public/dapps/<id> exists
  tables,       \* whether the tables of the application exist
  config,       \* whether this process has read config.json
  blockchain,   \* what `require' returns for blockchain.json
  loading, uninstalling, launched, dappready,
  sandbox,      \* the registered sandbox, or 0
  running,      \* the sandboxes whose processes run
  exited,       \* the sandboxes whose event of exit may still come
  made,         \* the number of sandboxes made
  message,      \* a message of the peers, as far as it got
  bounds,       \* how much of the bounds is used
  mishaps       \* history: what has happened that the properties except

flags == <<loading, uninstalling, launched>>
files == <<dir, unpacked, link, config>>
boxes == <<sandbox, running, exited, made>>
vars == <<app, call, dir, unpacked, link, tables, config, blockchain, loading,
          uninstalling, launched, dappready, sandbox, running, exited, made, message, bounds,
          mishaps>>

(* The files that matter here, of those that the archive unpacks to.       *)
Archive == {"config", "blockchain"} \cup (IF app.public THEN {"public"} ELSE {})

Idle == "idle"
Installing == {"install", "mkdir", "download", "dependencies", "undo", "undo drop", "undo rmdir"}
Removing == {"remove", "drop", "rmdir"}
Undoing == {"undo", "undo drop", "undo rmdir"}
Launching == {"installed", "symlink", "sandbox", "tables", "routes"}
Stages == {Idle, "uninstall", "stop"} \cup Installing \cup Removing \cup Launching

Waits(c, stage) == call[c] = stage
Goes(c, stage) == call' = [call EXCEPT ![c] = stage]
Uses(bound) == bounds[bound] > 0 /\ bounds' = [bounds EXCEPT ![bound] = @ - 1]
Fails == Uses("faults")
Under(stages) == {c \in Calls : call[c] \in stages}

(* A launch and a call that installs, stops or removes the application are *)
(* under way at the same time: launchDApp does not look for the others,    *)
(* nor they for it.                                                        *)
Crossing(stages) == IF Under(stages) # {} THEN mishaps \cup {"crossed"} ELSE mishaps
Others == {"uninstall", "stop"} \cup Removing \cup (Installing \ {"install"})

TypeOK ==
  /\ app \in [public : BOOLEAN, tables : BOOLEAN]
  /\ call \in [Calls -> Stages]
  /\ dir \in {"none", "part", "whole"} /\ unpacked \subseteq Archive
  /\ blockchain \in {"unread", "read", "made", "spoilt"}
  /\ {link, tables, config, loading, uninstalling, launched, dappready} \subseteq BOOLEAN
  /\ {sandbox, made} \subseteq Nat
  /\ running \cup exited \subseteq 1 .. made
  /\ message \in [seen : BOOLEAN, handed : Nat]
  /\ bounds \in [calls : 0 .. MaxCalls, faults : 0 .. MaxFaults, restarts : 0 .. MaxRestarts]
  /\ mishaps \subseteq {"crossed", "failed", "twice", "unstopped", "exited", "late",
                     "stale", "restarted", "incomplete"}

Init ==
  /\ app \in [public : BOOLEAN, tables : BOOLEAN]
  /\ call = [c \in Calls |-> Idle]
  /\ dir = "none" /\ unpacked = {} /\ link = FALSE /\ tables = FALSE
  /\ config = FALSE /\ blockchain = "unread"
  /\ loading = FALSE /\ uninstalling = FALSE /\ launched = FALSE /\ dappready = FALSE
  /\ sandbox = 0 /\ running = {} /\ exited = {} /\ made = 0
  /\ message = [seen |-> FALSE, handed |-> 0]
  /\ bounds = [calls |-> MaxCalls, faults |-> MaxFaults, restarts |-> MaxRestarts]
  /\ mishaps = {}

-----------------------------------------------------------------------------
(* shared.install, installDApp, downloadLink, installDependencies.         *)

(* A call to install has listed the directories, and the application was   *)
(* not among them.                                                         *)
InstallCalled(c) ==
  /\ Waits(c, Idle) /\ dir = "none"
  /\ Uses("calls")
  /\ Goes(c, "install")
  /\ UNCHANGED <<app, files, tables, blockchain, flags, dappready, boxes, message, mishaps>>

InstallBegins(c) ==
  /\ Waits(c, "install")
  /\ IF loading \/ uninstalling THEN Goes(c, Idle) /\ UNCHANGED loading
                                ELSE Goes(c, "mkdir") /\ loading' = TRUE
  /\ mishaps' = Crossing(Launching)
  /\ UNCHANGED <<app, files, tables, blockchain, uninstalling, launched, dappready, boxes,
                 message, bounds>>

\* Mutant of MakeDirectory: a directory that is there is taken for its own.
MakeDirectoryTaken(c) ==
  /\ Waits(c, "mkdir")
  /\ Goes(c, "download")
  /\ dir' = IF dir = "none" THEN "part" ELSE dir
  /\ UNCHANGED <<app, unpacked, link, config, tables, blockchain, flags, dappready, boxes, message,
                 bounds, mishaps>>

(* The directory is made, unless it has been meanwhile.                    *)
MakeDirectory(c) ==
  /\ Waits(c, "mkdir")
  /\ IF dir = "none" THEN Goes(c, "download") /\ dir' = "part" /\ UNCHANGED loading
                     ELSE Goes(c, Idle) /\ loading' = FALSE /\ UNCHANGED dir
  /\ UNCHANGED <<app, unpacked, link, config, tables, blockchain, uninstalling, launched,
                 dappready, boxes, message, bounds, mishaps>>

(* The archive is downloaded, and unpacked one file after the other.       *)
Unpacks(c) ==
  /\ Waits(c, "download")
  /\ \E file \in Archive \ unpacked : unpacked' = unpacked \cup {file}
  /\ Goes(c, "download")
  /\ UNCHANGED <<app, dir, link, config, tables, blockchain, flags, dappready, boxes,
                 message, bounds, mishaps>>

(* The last of it is.                                                      *)
Downloaded(c) ==
  /\ Waits(c, "download")
  /\ Goes(c, "dependencies") /\ dir' = "whole" /\ unpacked' = Archive
  /\ UNCHANGED <<app, link, config, tables, blockchain, flags, dappready, boxes, message,
                 bounds, mishaps>>

\* Mutant of DownloadFails: the flag is forgotten on this way out.
DownloadFailsLoading(c) ==
  /\ Waits(c, "download")
  /\ Fails /\ mishaps' = mishaps \cup {"incomplete"}
  /\ Goes(c, Idle)
  /\ UNCHANGED <<app, files, tables, blockchain, flags, dappready, boxes, message>>

(* Where that fails the directory stays, with what is unpacked by then.    *)
DownloadFails(c) ==
  /\ Waits(c, "download")
  /\ Fails /\ mishaps' = mishaps \cup {"incomplete"}
  /\ Goes(c, Idle) /\ loading' = FALSE
  /\ UNCHANGED <<app, files, tables, blockchain, uninstalling, launched, dappready, boxes,
                 message>>

(* npm has installed what the application needs, or tried to; or the       *)
(* application is of a type that needs nothing.                            *)
Installed(c) ==
  /\ Waits(c, "dependencies")
  /\ Goes(c, Idle) /\ loading' = FALSE
  /\ UNCHANGED <<app, files, tables, blockchain, uninstalling, launched, dappready, boxes,
                 message, bounds, mishaps>>

(* There is no package.json, or npm could not be loaded: the application   *)
(* is removed.                                                             *)
DependenciesFail(c) ==
  /\ Waits(c, "dependencies")
  /\ Fails
  /\ Goes(c, "undo") /\ uninstalling' = TRUE
  /\ UNCHANGED <<app, files, tables, blockchain, loading, launched, dappready, boxes,
                 message, mishaps>>

-----------------------------------------------------------------------------
(* shared.uninstall and removeDApp.                                        *)

UninstallCalled(c) ==
  /\ Waits(c, Idle)
  /\ Uses("calls")
  /\ ~loading /\ ~uninstalling
  /\ uninstalling' = TRUE
  /\ Goes(c, IF launched THEN "uninstall" ELSE "remove")
  /\ mishaps' = Crossing(Launching)
  /\ UNCHANGED <<app, files, tables, blockchain, loading, launched, dappready, boxes,
                 message>>

(* stopDApp, where it finds the public link: the registered sandbox exits. *)
(* Its event of exit may come later, as it does when the application exits *)
(* of itself; `events' are those that have come.                           *)
StopDApp(events) ==
  /\ running' = running \ {sandbox}
  /\ exited' = (exited \cup ({sandbox} \cap running)) \ events
  /\ sandbox' = 0

(* The link is looked up before anything else: an application without a    *)
(* public directory has none, and is not stopped; nor is one whose link    *)
(* leads nowhere, that directory being removed.                            *)
Stoppable == link /\ "public" \in unpacked

(* The uninstallation has stopped the application; or it could not, and    *)
(* returns without clearing its flag.                                      *)
UninstallStops(c) ==
  /\ Waits(c, "uninstall")
  /\ IF Stoppable THEN /\ StopDApp({}) /\ Goes(c, "remove") /\ launched' = FALSE
                  ELSE /\ Goes(c, Idle)
                       /\ UNCHANGED <<sandbox, running, exited, launched>>
  /\ UNCHANGED <<app, files, tables, blockchain, loading, uninstalling, dappready, made,
                 message, bounds, mishaps>>

(* What removeDApp leaves behind when it is done or has failed.            *)
Removed(c) ==
  /\ Goes(c, Idle) /\ uninstalling' = FALSE
  /\ loading' = (loading /\ call[c] \notin Undoing)

(* blockchain.json is read, if it is there and was not read before.        *)
Reads == IF blockchain = "unread" /\ "blockchain" \in unpacked THEN "read" ELSE blockchain

(* There is nothing to remove.                                             *)
NothingToRemove(c) ==
  /\ call[c] \in {"remove", "undo"} /\ dir = "none"
  /\ Removed(c)
  /\ UNCHANGED <<app, files, tables, blockchain, launched, dappready, boxes, message,
                 bounds, mishaps>>

(* The tables are dropped if blockchain.json could be read.                *)
RemoveBegins(c) ==
  /\ call[c] \in {"remove", "undo"} /\ dir # "none"
  /\ blockchain' = Reads
  /\ Goes(c, IF blockchain' = "unread"
             THEN IF Waits(c, "undo") THEN "undo rmdir" ELSE "rmdir"
             ELSE IF Waits(c, "undo") THEN "undo drop" ELSE "drop")
  /\ UNCHANGED <<app, files, tables, flags, dappready, boxes, message, bounds, mishaps>>

(* dropTables knows the tables by the type that createTables gave them in  *)
(* this process, and by the name it gave them if it did so once.           *)
DropTables(c) ==
  /\ call[c] \in {"drop", "undo drop"}
  /\ tables' = (tables /\ blockchain # "made")
  /\ Goes(c, IF Waits(c, "drop") THEN "rmdir" ELSE "undo rmdir")
  /\ UNCHANGED <<app, files, blockchain, flags, dappready, boxes, message, bounds, mishaps>>

(* The directory is removed whether or not the tables were dropped.        *)
DropFails(c) ==
  /\ call[c] \in {"drop", "undo drop"}
  /\ Fails /\ mishaps' = mishaps \cup {"failed"}
  /\ Goes(c, IF Waits(c, "drop") THEN "rmdir" ELSE "undo rmdir")
  /\ UNCHANGED <<app, files, tables, blockchain, flags, dappready, boxes, message>>

(* What the process has read of the files stays, for an application        *)
(* installed again.                                                        *)
RemoveDirectory(c) ==
  /\ call[c] \in {"rmdir", "undo rmdir"}
  /\ dir' = "none" /\ unpacked' = {}
  /\ Removed(c)
  /\ UNCHANGED <<app, link, config, tables, blockchain, launched, dappready, boxes,
                 message, bounds, mishaps>>

(* None, some or all of the files are gone, and the directory is not.      *)
PartlyRemoved ==
  \/ UNCHANGED <<dir, unpacked>>
  \/ dir' = "part" /\ unpacked' \in SUBSET unpacked

RemoveDirectoryFails(c) ==
  /\ call[c] \in {"rmdir", "undo rmdir"}
  /\ PartlyRemoved
  /\ Fails /\ mishaps' = mishaps \cup {"failed"}
                            \cup (IF dir' = "part" THEN {"incomplete"} ELSE {})
  /\ Removed(c)
  /\ UNCHANGED <<app, link, config, tables, blockchain, launched, dappready, boxes, message>>

-----------------------------------------------------------------------------
(* launchDApp, createSymlink, createSandbox and createRoutes.              *)

\* Mutant of LaunchCalled: whether the application is launched is not asked.
LaunchCalledTwice(c) ==
  /\ Waits(c, Idle)
  /\ Uses("calls")
  /\ launched' = TRUE
  /\ Goes(c, "installed")
  /\ mishaps' = Crossing(Others)
  /\ UNCHANGED <<app, files, tables, blockchain, loading, uninstalling, dappready, boxes,
                 message>>

(* The flag is set before anything is waited for.                          *)
LaunchCalled(c) ==
  /\ Waits(c, Idle)
  /\ Uses("calls")
  /\ ~launched /\ launched' = TRUE
  /\ Goes(c, "installed")
  /\ mishaps' = Crossing(Others)
  /\ UNCHANGED <<app, files, tables, blockchain, loading, uninstalling, dappready, boxes,
                 message>>

(* A step that fails clears the flag and leaves what the others have done. *)
NotLaunched(c) == Goes(c, Idle) /\ launched' = FALSE

(* The directory is there, whether or not the installation is complete.    *)
LaunchInstalled(c) ==
  /\ Waits(c, "installed")
  /\ IF dir # "none" THEN Goes(c, "symlink") /\ UNCHANGED launched ELSE NotLaunched(c)
  /\ UNCHANGED <<app, files, tables, blockchain, loading, uninstalling, dappready, boxes,
                 message, bounds, mishaps>>

CreateSymlink(c) ==
  /\ Waits(c, "symlink")
  /\ link' = (link \/ "public" \in unpacked)
  /\ Goes(c, "sandbox")
  /\ UNCHANGED <<app, dir, unpacked, config, tables, blockchain, flags, dappready, boxes,
                 message, bounds, mishaps>>

\* Mutant of Prepared: the types of blockchain.json stay as they are.
PreparedUntyped ==
  IF ~app.tables THEN Reads ELSE IF Reads = "read" THEN "read" ELSE "spoilt"

(* createTables puts the id before the name and "create" for the type of a *)
(* table, in the object itself; the second time it does not know the type. *)
Prepared ==
  IF ~app.tables THEN Reads ELSE IF Reads = "read" THEN "made" ELSE "spoilt"

(* No other file is asked for: a directory that is there in part will do   *)
(* if these two are.                                                       *)
Readable ==
  /\ config \/ "config" \in unpacked
  /\ blockchain # "unread" \/ "blockchain" \in unpacked

(* One of the two is not there: this process has read it before.           *)
Remembered ==
  \/ "config" \notin unpacked
  \/ "blockchain" \notin unpacked

(* The files are read and the queries are made; or a file cannot be read,  *)
(* or createTables refuses its types.                                      *)
CreateSandbox(c) ==
  /\ Waits(c, "sandbox")
  /\ config' = (config \/ "config" \in unpacked)
  /\ IF Readable
     THEN /\ blockchain' = Prepared
          /\ IF blockchain' = "spoilt" THEN NotLaunched(c)
                                       ELSE Goes(c, "tables") /\ UNCHANGED launched
     ELSE NotLaunched(c) /\ UNCHANGED blockchain
  /\ mishaps' =
       IF ~Readable THEN mishaps
       ELSE mishaps \cup (IF blockchain \in {"unread", "read"} THEN {} ELSE {"twice"})
                    \cup (IF Remembered THEN {"stale"} ELSE {})
  /\ UNCHANGED <<app, dir, unpacked, link, tables, loading, uninstalling, dappready, boxes,
                 message, bounds>>

(* The tables are there; a process is started and registered.              *)
TablesCreated(c) ==
  /\ Waits(c, "tables")
  /\ tables' = (tables \/ app.tables)
  /\ made' = made + 1 /\ sandbox' = made + 1 /\ running' = running \cup {made + 1}
  /\ Goes(c, "routes")
  /\ UNCHANGED <<app, files, blockchain, flags, dappready, exited, message, bounds, mishaps>>

TablesFail(c) ==
  /\ Waits(c, "tables")
  /\ Fails /\ mishaps' = mishaps \cup {"failed"}
  /\ NotLaunched(c)
  /\ UNCHANGED <<app, files, tables, blockchain, loading, uninstalling, dappready, boxes,
                 message>>

(* The routes lead to `request' with the id of the application.            *)
CreateRoutes(c) ==
  /\ Waits(c, "routes")
  /\ Goes(c, Idle)
  /\ UNCHANGED <<app, files, tables, blockchain, flags, dappready, boxes, message, bounds,
                 mishaps>>

(* routes.json cannot be read: the sandbox is stopped, if it can be.       *)
RoutesFail(c) ==
  /\ Waits(c, "routes")
  /\ Fails
  /\ NotLaunched(c)
  /\ IF Stoppable THEN StopDApp({}) /\ UNCHANGED mishaps
                  ELSE /\ mishaps' = mishaps \cup {"unstopped"}
                       /\ UNCHANGED <<sandbox, running, exited>>
  /\ UNCHANGED <<app, files, tables, blockchain, loading, uninstalling, dappready, made,
                 message>>

-----------------------------------------------------------------------------
(* shared.stop, the events of a sandbox, and messages.                     *)

StopCalled(c) ==
  /\ Waits(c, Idle) /\ launched
  /\ Uses("calls")
  /\ Goes(c, "stop")
  /\ mishaps' = Crossing(Launching)
  /\ UNCHANGED <<app, files, tables, blockchain, flags, dappready, boxes, message>>

(* It is not asked again whether the application is launched.              *)
Stops(c) ==
  /\ Waits(c, "stop")
  /\ Goes(c, Idle)
  /\ IF Stoppable THEN StopDApp({}) /\ launched' = FALSE
                  ELSE UNCHANGED <<sandbox, running, exited, launched>>
  /\ UNCHANGED <<app, files, tables, blockchain, loading, uninstalling, dappready, made,
                 message, bounds, mishaps>>

(* A process ends.                                                         *)
SandboxExits(s) ==
  /\ s \in running
  /\ running' = running \ {s} /\ exited' = exited \cup {s}
  /\ mishaps' = mishaps \cup {"exited"}
  /\ UNCHANGED <<app, call, files, tables, blockchain, flags, dappready, sandbox, made,
                 message, bounds>>

(* Its event stops the application: whatever sandbox is registered by now. *)
OnExit(s) ==
  /\ s \in exited
  /\ IF Stoppable THEN StopDApp({s})
                  ELSE /\ exited' = exited \ {s}
                       /\ UNCHANGED <<sandbox, running>>
  /\ mishaps' = IF sandbox \in {0, s} THEN mishaps ELSE mishaps \cup {"late"}
  /\ UNCHANGED <<app, call, files, tables, blockchain, flags, dappready, made, message,
                 bounds>>

SetReady(s) ==
  /\ s \in running
  /\ dappready' = TRUE
  /\ UNCHANGED <<app, call, files, tables, blockchain, flags, boxes, message, bounds,
                 mishaps>>

(* A peer sends the message.  It is marked as known before it is handed to *)
(* the sandbox, even if there is none that is ready; all that its answer   *)
(* does is to have it passed on.                                           *)
PostDappMessage ==
  LET taken == IF ~message.seen /\ sandbox # 0 /\ dappready THEN 1 ELSE 0
  IN  /\ message' = [seen |-> TRUE, handed |-> message.handed + taken]
      /\ UNCHANGED <<app, call, files, tables, blockchain, flags, dappready, boxes, bounds,
                     mishaps>>

(* The node is stopped and started.  The processes end with it; public     *)
(* links are removed at the start.                                         *)
Restart ==
  /\ Uses("restarts")
  /\ call' = [c \in Calls |-> Idle]
  /\ IF Under({"rmdir", "undo rmdir"}) # {} THEN PartlyRemoved
                                            ELSE UNCHANGED <<dir, unpacked>>
  /\ link' = FALSE /\ config' = FALSE /\ blockchain' = "unread"
  /\ loading' = FALSE /\ uninstalling' = FALSE /\ launched' = FALSE /\ dappready' = FALSE
  /\ sandbox' = 0 /\ running' = {} /\ exited' = {}
  /\ message' = [seen |-> FALSE, handed |-> 0]
  /\ UNCHANGED <<app, tables, made>>
  /\ mishaps' = (mishaps \cap {"failed"}) \cup (IF tables THEN {"restarted"} ELSE {})
                \cup (IF dir' = "part" THEN {"incomplete"} ELSE {})

Step(c) ==
  \/ InstallCalled(c) \/ InstallBegins(c) \/ MakeDirectory(c) \/ Unpacks(c)
  \/ Downloaded(c) \/ DownloadFails(c) \/ Installed(c) \/ DependenciesFail(c)
  \/ UninstallCalled(c) \/ UninstallStops(c) \/ NothingToRemove(c) \/ RemoveBegins(c)
  \/ DropTables(c) \/ DropFails(c) \/ RemoveDirectory(c) \/ RemoveDirectoryFails(c)
  \/ LaunchCalled(c) \/ LaunchInstalled(c) \/ CreateSymlink(c) \/ CreateSandbox(c)
  \/ TablesCreated(c) \/ TablesFail(c) \/ CreateRoutes(c) \/ RoutesFail(c)
  \/ StopCalled(c) \/ Stops(c)

Next ==
  \/ \E c \in Calls : Step(c)
  \/ \E s \in running : SandboxExits(s) \/ SetReady(s)
  \/ \E s \in exited : OnExit(s)
  \/ PostDappMessage
  \/ Restart

Spec == Init /\ [][Next]_vars

-----------------------------------------------------------------------------
Excepts(set) == mishaps \cap set # {}

(***************************************************************************)
(* The directory is worked on by one call at a time: two installations, an *)
(* installation and an uninstallation, and the removal after a failed      *)
(* installation keep out of each other's way by two flags, which they test *)
(* and set between one answer of the file system and the next request.     *)
(***************************************************************************)
Writing == (Installing \ {"install"}) \cup Removing \cup {"uninstall"}

OneWriter == Cardinality(Under(Writing)) <= 1

(***************************************************************************)
(* The calls keep what module DAppDirectory promises: an installation      *)
(* fills the directory that it has made, no other one that was there       *)
(* before or made since, although it tests and makes it in two requests;   *)
(* and nothing is removed from under a call that still works on it.        *)
(***************************************************************************)
Directory == INSTANCE DAppDirectory WITH
  directory <- dir, writers <- Under(Writing), maker <- Under({"download"})

DirectoryKept == Directory!Spec

(***************************************************************************)
(* A flag is held by somebody: `loading' and `uninstalling' by a call that *)
(* will clear them, on every way out; `launched' by a launch or by a       *)
(* sandbox that runs.  Otherwise the application can be neither installed, *)
(* uninstalled nor launched until the node is started again.  The code     *)
(* loses them where an application has no public directory, or it is not   *)
(* among what is there of a directory, so that it cannot be stopped, where *)
(* it was stopped while it was being launched, and where its process ended *)
(* by itself, or was ended by the late event of an older one.              *)
(***************************************************************************)
FlagsHeld ==
  /\ loading => Under(Installing \ {"install"}) # {}
  /\ uninstalling =>
       \/ Under(Removing \cup Undoing \cup {"uninstall"}) # {}
       \/ ~app.public \/ Excepts({"crossed", "incomplete"})
  /\ launched =>
       \/ Under(Launching) # {} \/ running # {}
       \/ Excepts({"exited", "late"})

(***************************************************************************)
(* At most one process of the application runs, it is the registered one,  *)
(* which `stop' and the messages reach, and the application counts as      *)
(* launched.  Unless it was stopped or uninstalled while it was being      *)
(* launched, or its routes failed and it could not be stopped.             *)
(***************************************************************************)
OneSandbox ==
  \/ running = {} \/ (running = {sandbox} /\ launched)
  \/ Excepts({"crossed", "unstopped"})

(***************************************************************************)
(* Messages are sent to a process that runs, or whose event of exit is     *)
(* under way: not to one that ended long ago.  The event only clears the   *)
(* entry of an application with a public directory, and only where that    *)
(* is there and has not been removed under it.                             *)
(***************************************************************************)
MessagesReach ==
  \/ sandbox \in {0} \cup running \cup exited
  \/ ~app.public \/ Excepts({"crossed", "incomplete"})

(***************************************************************************)
(* What runs is installed: at the least the two files that launching reads,*)
(* and all of it unless a download or a removal has failed or was cut      *)
(* short by a restart, because a part of the directory that has those two  *)
(* is launched like the whole.  Neither holds where the application was    *)
(* launched while it was being uninstalled, nor where the two files had    *)
(* been read before an earlier uninstallation, so that nobody sees them    *)
(* missing.                                                                *)
(***************************************************************************)
RunsInstalled ==
  running # {} =>
    \/ /\ {"config", "blockchain"} \subseteq unpacked
       /\ dir = "whole" \/ Excepts({"incomplete"})
    \/ Excepts({"crossed", "stale", "unstopped"})

(***************************************************************************)
(* The tables of an application that is not installed are gone.  They are  *)
(* not where the queries failed, where it was launched twice or being      *)
(* launched, and where the process that drops them has not created them.   *)
(***************************************************************************)
TablesGone ==
  dir = "none" /\ tables => Excepts({"failed", "twice", "crossed", "restarted"})

(***************************************************************************)
(* A message that several peers send is handed to the application once in  *)
(* the life of a process of the node.                                      *)
(***************************************************************************)
HandedOnce == message.handed <= 1

(***************************************************************************)
(* There is one process, it is what messages reach, and one message reaches *)
(* it once.                                                                *)
(***************************************************************************)
SandboxOK == OneSandbox /\ MessagesReach /\ HandedOnce

(***************************************************************************)
(* Neither processes nor tables outlive the files of an application.       *)
(***************************************************************************)
InstalledOnly == RunsInstalled /\ TablesGone
=============================================================================
