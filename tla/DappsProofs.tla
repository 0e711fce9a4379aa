----------------------------- MODULE DappsProofs ------------------------------
(***************************************************************************)
(* For any number of calls, faults and restarts, the two flags of Dapps    *)
(* keep the calls that work on the directory of the application apart, the *)
(* directory is what module DAppDirectory promises, the flags are held by  *)
(* somebody, and one process of the application runs, of what is installed.*)
(*                                                                         *)
(* The strengthening says whose the flags are: a call that installs is     *)
(* under `loading', one that uninstalls under `uninstalling', and one that *)
(* undoes an installation under both, so that neither flag is clear while  *)
(* anybody works on the directory.                                         *)
(***************************************************************************)
EXTENDS Dapps, FiniteSetTheorems, TLAPS

Loaders == Installing \ {"install"}
Removers == Removing \cup Undoing \cup {"uninstall"}

Flagged ==
  /\ \A c \in Calls : call[c] \in Loaders => loading
  /\ \A c \in Calls : call[c] \in Removers => uninstalling

Apart == \A c, d \in Calls : call[c] \in Writing /\ call[d] \in Writing => c = d

\* Who downloads has made the directory, and nobody has touched it since.
Made == \A c \in Calls : call[c] = "download" => dir = "part"

IInv == TypeOK /\ Flagged /\ Apart /\ Made

-----------------------------------------------------------------------------
(* The stages and the frames of the actions                                *)

LEMMA Staging ==
  /\ Writing = Loaders \cup Removers
  /\ Loaders \subseteq Stages /\ Removers \subseteq Stages
  BY DEF Writing, Loaders, Removers, Installing, Removing, Undoing, Stages

\* A call that does not work on the directory before nor after its step.
Aside(c) ==
  /\ call[c] \notin Writing
  /\ \E stage \in Stages \ Writing : Goes(c, stage)
  /\ UNCHANGED <<dir, loading, uninstalling>>

LEMMA AsideKeeps ==
  ASSUME IInv, NEW c \in Calls, Aside(c)
  PROVE  (Flagged /\ Apart /\ Made)' /\ Under(Writing)' = Under(Writing)
                                     /\ Under({"download"})' = Under({"download"})
  <1>1. call \in [Calls -> Stages]
    BY DEF IInv, TypeOK
  <1>2. PICK stage \in Stages \ Writing : call' = [call EXCEPT ![c] = stage]
    BY DEF Aside, Goes
  <1>3. "download" \in Writing
    BY DEF Writing, Installing
  <1>4. \A d \in Calls : \/ call'[d] = call[d]
                         \/ call[d] \notin Writing /\ call'[d] \notin Writing
    BY <1>1, <1>2 DEF Aside
  <1>5. \A d \in Calls : /\ call'[d] \in Loaders => call[d] \in Loaders
                         /\ call'[d] \in Removers => call[d] \in Removers
                         /\ call'[d] \in Writing <=> call[d] \in Writing
                         /\ call'[d] = "download" <=> call[d] = "download"
    BY <1>3, <1>4, Staging
  <1> QED BY <1>5 DEF Aside, IInv, Flagged, Apart, Made, Under

\* The steps of a call that launches, stops, or asks for the flags in vain.
AsideStep(c) ==
  \/ InstallCalled(c) \/ LaunchCalled(c) \/ LaunchInstalled(c) \/ CreateSymlink(c)
  \/ CreateSandbox(c) \/ TablesCreated(c) \/ TablesFail(c) \/ CreateRoutes(c)
  \/ RoutesFail(c) \/ StopCalled(c) \/ Stops(c)

LEMMA StepsAside ==
  ASSUME IInv, NEW c \in Calls, AsideStep(c)
  PROVE  Aside(c)
  <1>1. {Idle, "install", "installed", "symlink", "sandbox", "tables", "routes", "stop"}
          \subseteq Stages \ Writing
    BY DEF Idle, Stages, Writing, Installing, Removing, Launching
  <1> QED
    BY <1>1 DEF AsideStep, Aside, InstallCalled, LaunchCalled, LaunchInstalled,
       CreateSymlink, CreateSandbox, TablesCreated, TablesFail, CreateRoutes, RoutesFail,
       StopCalled, Stops, NotLaunched, Waits, Goes, flags, files, boxes

\* The events that no call waits for.
Event ==
  \/ \E s \in running : SandboxExits(s) \/ SetReady(s)
  \/ \E s \in exited : OnExit(s)
  \/ PostDappMessage

LEMMA EventsAside == Event => UNCHANGED <<call, dir, loading, uninstalling>>
  BY DEF Event, SandboxExits, SetReady, OnExit, PostDappMessage,
         flags, files, boxes

-----------------------------------------------------------------------------
(* The types                                                               *)

\* What a step leaves of the bounds and the mishaps.
Counts == [calls : 0 .. MaxCalls, faults : 0 .. MaxFaults, restarts : 0 .. MaxRestarts]

LEMMA UsesType ==
  ASSUME IInv, NEW b \in {"calls", "faults", "restarts"}, Uses(b)
  PROVE  bounds' \in Counts
  BY DappsAssumption DEF IInv, TypeOK, Uses, Counts

Mishaps == {"crossed", "failed", "twice", "unstopped", "exited", "late", "stale",
            "restarted", "incomplete"}

CallTypes ==
  /\ call \in [Calls -> Stages]
  /\ dir \in {"none", "part", "whole"}
  /\ blockchain \in {"unread", "read", "made", "spoilt"}
  /\ {link, tables, config, loading, uninstalling, launched, dappready} \subseteq BOOLEAN

BoxTypes ==
  /\ {sandbox, made} \subseteq Nat
  /\ running \cup exited \subseteq 1 .. made

MessageType ==
  message \in [seen : BOOLEAN, handed : Nat]

LEMMA Types ==
  TypeOK <=> /\ app \in [public : BOOLEAN, tables : BOOLEAN]
             /\ CallTypes /\ unpacked \subseteq Archive /\ BoxTypes /\ MessageType
             /\ bounds \in Counts /\ mishaps \subseteq Mishaps
  BY DEF TypeOK, CallTypes, BoxTypes, MessageType, Counts, Mishaps

-----------------------------------------------------------------------------
(* The flags and the directory                                             *)

\* The stages a call can be in while it works on the directory.
LEMMA WritingStages ==
  /\ Writing = {"mkdir", "download", "dependencies", "undo", "undo drop", "undo rmdir",
                "remove", "drop", "rmdir", "uninstall"}
  /\ Loaders = {"mkdir", "download", "dependencies", "undo", "undo drop", "undo rmdir"}
  /\ Removers = {"remove", "drop", "rmdir", "uninstall", "undo", "undo drop", "undo rmdir"}
  /\ Idle \notin Writing /\ "install" \notin Writing
  BY DEF Writing, Loaders, Removers, Installing, Removing, Undoing, Idle

LEMMA InitIInv == Init => IInv
  <1> SUFFICES ASSUME Init PROVE IInv
    OBVIOUS
  <1>1. CallTypes /\ BoxTypes
    <2>1. call \in [Calls -> Stages]
      BY DEF Init, Stages
    <2>2. {sandbox, made} \subseteq Nat /\ running = {} /\ exited = {}
      BY DEF Init
    <2> QED BY <2>1, <2>2 DEF Init, CallTypes, BoxTypes
  <1>2. MessageType /\ bounds \in Counts /\ mishaps \subseteq Mishaps
    BY DappsAssumption DEF Init, MessageType, Counts, Mishaps
  <1>3. app \in [public : BOOLEAN, tables : BOOLEAN]
    BY DEF Init
  <1>4. TypeOK
    <2>1. unpacked \subseteq Archive
      BY DEF Init
    <2> QED BY <1>1, <1>2, <1>3, <2>1, Types
  <1>5. \A c \in Calls : call[c] = Idle
    BY DEF Init
  <1>6. Idle \notin Writing /\ Idle \notin Loaders /\ Idle \notin Removers /\ Idle # "download"
    BY WritingStages DEF Idle
  <1> QED BY <1>4, <1>5, <1>6 DEF IInv, Flagged, Apart, Made

LEMMA WritersKeep ==
  ASSUME IInv, NEW c \in Calls, Step(c), ~AsideStep(c)
  PROVE  (Flagged /\ Apart /\ Made)'
  <1>1. call \in [Calls -> Stages]
    BY DEF IInv, TypeOK
  <1> USE <1>1, WritingStages DEF IInv, Flagged, Apart, Made, Waits, Goes
  <1>2. CASE InstallBegins(c)
    BY <1>2 DEF InstallBegins, files
  <1>3. CASE MakeDirectory(c)
    BY <1>3 DEF MakeDirectory
  <1>4. CASE Unpacks(c) \/ Downloaded(c)
    <2>1. /\ call[c] = "download" /\ UNCHANGED <<loading, uninstalling>>
          /\ \/ call' = [call EXCEPT ![c] = "download"] /\ dir' = dir
             \/ call' = [call EXCEPT ![c] = "dependencies"]
      BY <1>4 DEF Unpacks, Downloaded, flags
    <2> QED BY <2>1
  <1>5. CASE DownloadFails(c)
    BY <1>5 DEF DownloadFails, files
  <1>6. CASE Installed(c)
    BY <1>6 DEF Installed, files
  <1>7. CASE DependenciesFail(c)
    BY <1>7 DEF DependenciesFail, files
  <1>8. CASE UninstallCalled(c)
    BY <1>8 DEF UninstallCalled, files
  <1>9. CASE UninstallStops(c)
    BY <1>9 DEF UninstallStops, files
  <1>10. CASE NothingToRemove(c)
    BY <1>10 DEF NothingToRemove, Removed, Undoing, files
  <1>11. CASE RemoveBegins(c)
    BY <1>11 DEF RemoveBegins, files, flags
  <1>12. CASE DropTables(c) \/ DropFails(c)
    <2>1. UNCHANGED <<dir, loading, uninstalling>>
      BY <1>12 DEF DropTables, DropFails, files, flags
    <2>2. \/ call[c] = "drop" /\ call' = [call EXCEPT ![c] = "rmdir"]
          \/ call[c] = "undo drop" /\ call' = [call EXCEPT ![c] = "undo rmdir"]
      BY <1>12 DEF DropTables, DropFails
    <2>3. CASE call[c] = "drop"
      BY <2>1, <2>2, <2>3
    <2>4. CASE call[c] = "undo drop"
      BY <2>1, <2>2, <2>4
    <2> QED BY <2>2, <2>3, <2>4
  <1>13. CASE RemoveDirectory(c) \/ RemoveDirectoryFails(c)
    BY <1>13 DEF RemoveDirectory, RemoveDirectoryFails, Removed, Undoing
  <1> QED
    BY <1>2, <1>3, <1>4, <1>5, <1>6, <1>7, <1>8, <1>9, <1>10, <1>11, <1>12, <1>13
    DEF Step, AsideStep

LEMMA RestartKeeps ==
  ASSUME IInv, Restart
  PROVE  (Flagged /\ Apart /\ Made)' /\ Under(Writing)' = {} /\ Under({"download"})' = {}
  <1>1. \A c \in Calls : call'[c] \notin Writing /\ call'[c] # "download"
    BY WritingStages DEF Restart
  <1> QED BY <1>1, Staging, WritingStages DEF Flagged, Apart, Made, Under

-----------------------------------------------------------------------------
(* The steps keep the types                                                *)

LEMMA StepBoxTypes ==
  ASSUME IInv, Next
  PROVE  BoxTypes'
  <1> USE DEF IInv, TypeOK, BoxTypes, StopDApp
  <1>1. ASSUME NEW c \in Calls, TablesCreated(c)
        PROVE  BoxTypes'
    BY <1>1 DEF TablesCreated
  <1>2. ASSUME NEW c \in Calls, UninstallStops(c) \/ RoutesFail(c) \/ Stops(c)
        PROVE  BoxTypes'
    BY <1>2 DEF UninstallStops, RoutesFail, Stops
  <1>3. ASSUME NEW s, SandboxExits(s) \/ OnExit(s)
        PROVE  BoxTypes'
    BY <1>3 DEF SandboxExits, OnExit
  <1>4. CASE Restart
    <2>1. sandbox' = 0 /\ running' = {} /\ exited' = {} /\ made' = made
      BY <1>4, Zenon DEF Restart
    <2> QED BY <2>1
  <1>5. ASSUME NEW c \in Calls, Step(c),
               ~TablesCreated(c), ~UninstallStops(c), ~RoutesFail(c), ~Stops(c)
        PROVE  UNCHANGED boxes
    BY <1>5 DEF Step, InstallCalled, InstallBegins, MakeDirectory, Unpacks, Downloaded,
       DownloadFails, Installed, DependenciesFail, UninstallCalled, NothingToRemove,
       RemoveBegins, DropTables, DropFails, RemoveDirectory, RemoveDirectoryFails,
       LaunchCalled, LaunchInstalled, CreateSymlink, CreateSandbox, TablesFail,
       CreateRoutes, StopCalled
  <1>6. ASSUME NEW s, SetReady(s) \/ PostDappMessage
        PROVE  UNCHANGED boxes
    BY <1>6 DEF SetReady, PostDappMessage
  <1>7. UNCHANGED boxes => BoxTypes'
    BY DEF boxes
  <1> QED BY <1>1, <1>2, <1>3, <1>4, <1>5, <1>6, <1>7 DEF Next

LEMMA StepMessageType ==
  ASSUME IInv, Next
  PROVE  MessageType'
  <1> USE DappsAssumption DEF IInv, TypeOK, MessageType
  <1>1. CASE PostDappMessage
    BY <1>1 DEF PostDappMessage
  <1>2. CASE Restart
    BY <1>2 DEF Restart
  <1>3. ASSUME NEW c \in Calls, Step(c)
        PROVE  UNCHANGED message
    BY <1>3 DEF Step, InstallCalled, InstallBegins, MakeDirectory, Unpacks, Downloaded,
       DownloadFails, Installed, DependenciesFail, UninstallCalled, UninstallStops,
       NothingToRemove, RemoveBegins, DropTables, DropFails, RemoveDirectory,
       RemoveDirectoryFails, LaunchCalled, LaunchInstalled, CreateSymlink, CreateSandbox,
       TablesCreated, TablesFail, CreateRoutes, RoutesFail, StopCalled, Stops
  <1>4. ASSUME NEW s, SandboxExits(s) \/ SetReady(s) \/ OnExit(s)
        PROVE  UNCHANGED message
    BY <1>4 DEF SandboxExits, SetReady, OnExit
  <1> QED BY <1>1, <1>2, <1>3, <1>3, <1>4 DEF Next

LEMMA StepCounts ==
  ASSUME IInv, Next
  PROVE  bounds' \in Counts
  <1>1. bounds \in Counts
    BY Types DEF IInv
  <1>2. ASSUME NEW c \in Calls, Step(c)
        PROVE  Uses("calls") \/ Uses("faults") \/ UNCHANGED bounds
    BY <1>2 DEF Step, InstallCalled, InstallBegins, MakeDirectory, Unpacks, Downloaded,
       DownloadFails, Installed, DependenciesFail, UninstallCalled, UninstallStops,
       NothingToRemove, RemoveBegins, DropTables, DropFails, RemoveDirectory,
       RemoveDirectoryFails, LaunchCalled, LaunchInstalled, CreateSymlink, CreateSandbox,
       TablesCreated, TablesFail, CreateRoutes, RoutesFail, StopCalled, Stops, Fails
  <1>3. Event => UNCHANGED bounds
    BY DEF Event, SandboxExits, SetReady, OnExit, PostDappMessage
  <1>4. Restart => Uses("restarts")
    BY DEF Restart
  <1> QED BY <1>1, <1>2, <1>3, <1>4, UsesType DEF Next, Event

LEMMA StepMishaps ==
  ASSUME IInv, Next
  PROVE  mishaps' \subseteq Mishaps
  <1>1. mishaps \subseteq Mishaps
    BY Types DEF IInv
  <1>2. ASSUME NEW c \in Calls, Step(c)
        PROVE  mishaps' \subseteq mishaps \cup Mishaps
    BY <1>2 DEF Step, InstallCalled, InstallBegins, MakeDirectory, Unpacks, Downloaded,
       DownloadFails, Installed, DependenciesFail, UninstallCalled, UninstallStops,
       NothingToRemove, RemoveBegins, DropTables, DropFails, RemoveDirectory,
       RemoveDirectoryFails, LaunchCalled, LaunchInstalled, CreateSymlink, CreateSandbox,
       TablesCreated, TablesFail, CreateRoutes, RoutesFail, StopCalled, Stops, Mishaps,
       Crossing
  <1>3. Event => mishaps' \subseteq mishaps \cup Mishaps
    BY DEF Event, SandboxExits, SetReady, OnExit, PostDappMessage, Mishaps
  <1>4. Restart => mishaps' \subseteq mishaps \cup Mishaps
    BY DEF Restart, Mishaps
  <1> QED BY <1>1, <1>2, <1>3, <1>4 DEF Next, Event

LEMMA StepCallTypes ==
  ASSUME IInv, Next
  PROVE  CallTypes'
  <1>1. CallTypes /\ app.tables \in BOOLEAN /\ app.public \in BOOLEAN
    BY Types DEF IInv
  <1>2. CASE Event
    BY <1>1, <1>2 DEF Event, SandboxExits, SetReady, OnExit, PostDappMessage, CallTypes,
       flags, files
  <1>3. CASE Restart
    <2>1. call' \in [Calls -> Stages]
      BY <1>3 DEF Restart, Stages
    <2>2. dir' \in {dir, "part"}
      BY <1>3 DEF Restart, PartlyRemoved
    <2> QED BY <1>1, <1>3, <2>1, <2>2 DEF Restart, CallTypes
  <1>4. ASSUME NEW c \in Calls, Step(c)
        PROVE  CallTypes'
    <2>1. ASSUME NEW stage \in Stages, Goes(c, stage)
          PROVE  call' \in [Calls -> Stages]
      BY <1>1, <2>1 DEF CallTypes, Goes
    <2>2. {Idle, "install", "mkdir", "download", "dependencies", "undo", "undo drop",
           "undo rmdir", "uninstall", "remove", "drop", "rmdir", "installed", "symlink",
           "sandbox", "tables", "routes", "stop"} \subseteq Stages
      BY DEF Stages, Installing, Removing, Launching
    <2>3. call' \in [Calls -> Stages]
      BY <1>4, <2>1, <2>2 DEF Step, InstallCalled, InstallBegins, MakeDirectory,
         Unpacks, Downloaded, DownloadFails, Installed, DependenciesFail, UninstallCalled,
         UninstallStops, NothingToRemove, RemoveBegins, DropTables, DropFails,
         RemoveDirectory, RemoveDirectoryFails, Removed, LaunchCalled, LaunchInstalled,
         CreateSymlink, CreateSandbox, TablesCreated, TablesFail, CreateRoutes,
         RoutesFail, StopCalled, Stops, NotLaunched
    <2>4. CASE \/ InstallCalled(c) \/ InstallBegins(c) \/ MakeDirectory(c)
               \/ Unpacks(c) \/ Downloaded(c) \/ DownloadFails(c) \/ Installed(c)
               \/ DependenciesFail(c) \/ UninstallCalled(c) \/ UninstallStops(c)
      BY <1>1, <2>3, <2>4 DEF InstallCalled, InstallBegins, MakeDirectory, Unpacks, Downloaded,
         DownloadFails, Installed, DependenciesFail, UninstallCalled, UninstallStops,
         CallTypes, flags, files
    <2>5. CASE \/ NothingToRemove(c) \/ RemoveBegins(c) \/ DropTables(c) \/ DropFails(c)
               \/ RemoveDirectory(c) \/ RemoveDirectoryFails(c)
      BY <1>1, <2>3, <2>5 DEF NothingToRemove, RemoveBegins, DropTables, DropFails,
         RemoveDirectory, RemoveDirectoryFails, PartlyRemoved, Removed, Reads, CallTypes,
         flags, files
    <2>6. CASE \/ LaunchCalled(c) \/ LaunchInstalled(c) \/ CreateSymlink(c)
               \/ CreateSandbox(c) \/ TablesCreated(c) \/ TablesFail(c) \/ CreateRoutes(c)
               \/ RoutesFail(c) \/ StopCalled(c) \/ Stops(c)
      BY <1>1, <2>3, <2>6 DEF LaunchCalled, LaunchInstalled, CreateSymlink, CreateSandbox,
         TablesCreated, TablesFail, CreateRoutes, RoutesFail, StopCalled, Stops,
         NotLaunched, Prepared, Reads, CallTypes, flags, files
    <2> QED BY <1>4, <2>4, <2>5, <2>6 DEF Step
  <1> QED BY <1>2, <1>3, <1>4 DEF Next, Event

-----------------------------------------------------------------------------
(* The theorems                                                            *)

LEMMA StutterIInv == IInv /\ UNCHANGED vars => IInv'
  BY DEF IInv, vars, TypeOK, Archive, Flagged, Apart, Made

LEMMA AppStays == Next => app' = app
  BY DEF Next, Step, SandboxExits, SetReady, OnExit, PostDappMessage,
     Restart, InstallCalled, InstallBegins, MakeDirectory, Unpacks, Downloaded,
     DownloadFails, Installed, DependenciesFail, UninstallCalled, UninstallStops,
     NothingToRemove, RemoveBegins, DropTables, DropFails, RemoveDirectory,
     RemoveDirectoryFails, LaunchCalled, LaunchInstalled, CreateSymlink, CreateSandbox,
     TablesCreated, TablesFail, CreateRoutes, RoutesFail, StopCalled, Stops

\* Only files of the archive are unpacked.
LEMMA StepUnpacked ==
  ASSUME IInv, Next
  PROVE  unpacked' \subseteq Archive'
  <1>1. unpacked \subseteq Archive /\ Archive' = Archive
    BY AppStays DEF IInv, TypeOK, Archive
  <1>2. ASSUME NEW c \in Calls, Step(c), ~Unpacks(c), ~Downloaded(c)
        PROVE  unpacked' \subseteq unpacked
    BY <1>2 DEF Step, InstallCalled, InstallBegins, MakeDirectory, DownloadFails, Installed,
       DependenciesFail, UninstallCalled, UninstallStops, NothingToRemove, RemoveBegins,
       DropTables, DropFails, RemoveDirectory, RemoveDirectoryFails, PartlyRemoved,
       LaunchCalled, LaunchInstalled, CreateSymlink, CreateSandbox, TablesCreated,
       TablesFail, CreateRoutes, RoutesFail, StopCalled, Stops, files
  <1>3. ASSUME NEW c \in Calls, Unpacks(c) \/ Downloaded(c)
        PROVE  unpacked' \subseteq Archive
    BY <1>1, <1>3 DEF Unpacks, Downloaded
  <1>4. Restart => unpacked' \subseteq unpacked
    BY DEF Restart, PartlyRemoved
  <1>5. Event => unpacked' = unpacked
    BY DEF Event, SandboxExits, SetReady, OnExit, PostDappMessage, files
  <1> QED BY <1>1, <1>2, <1>3, <1>4, <1>5 DEF Next, Event

LEMMA NextIInv == IInv /\ Next => IInv'
  <1> SUFFICES ASSUME IInv, Next PROVE IInv'
    OBVIOUS
  <1>1. app' = app
    BY AppStays
  <1>2. TypeOK'
    BY <1>1, Types, StepCallTypes, StepUnpacked, StepBoxTypes, StepMessageType, StepCounts,
       StepMishaps
    DEF IInv, CallTypes, BoxTypes, MessageType, TypeOK, Counts, Mishaps
  <1>3. ASSUME NEW c \in Calls, Step(c)
        PROVE  (Flagged /\ Apart /\ Made)'
    BY <1>3, AsideKeeps, StepsAside, WritersKeep
  <1>4. CASE Event
    <2>1. UNCHANGED <<call, dir, loading, uninstalling>>
      BY <1>4, EventsAside
    <2> QED BY <1>2, <2>1 DEF IInv, Flagged, Apart, Made
  <1>5. CASE Restart
    BY <1>2, <1>5, RestartKeeps DEF IInv
  <1> QED BY <1>2, <1>3, <1>4, <1>5 DEF Next, Event, IInv

LEMMA IInvHolds == Spec => []IInv
  <1>1. IInv /\ [Next]_vars => IInv'
    BY NextIInv, StutterIInv
  <1> QED BY InitIInv, <1>1, PTL DEF Spec

(***************************************************************************)
(* The state of Dapps keeps its types.                                     *)
(***************************************************************************)
THEOREM TypeCorrect == Spec => []TypeOK
  <1>1. IInv => TypeOK
    BY DEF IInv
  <1> QED BY <1>1, IInvHolds, PTL

(***************************************************************************)
(* At any time one call at most works on the directory of the application, *)
(* however many are made of install, uninstall and the removal after a     *)
(* failed installation.                                                    *)
(***************************************************************************)
THEOREM WritersApart == Spec => []OneWriter
  <1>1. ASSUME Apart PROVE OneWriter
    <2>1. CASE Under(Writing) = {}
      BY <2>1, FS_EmptySet DEF OneWriter
    <2>2. CASE \E c \in Calls : c \in Under(Writing)
      <3>1. PICK c \in Calls : c \in Under(Writing)
        BY <2>2
      <3>2. Under(Writing) = {c}
        BY <1>1, <3>1 DEF Apart, Under
      <3> QED BY <3>2, FS_Singleton DEF OneWriter
    <2> QED BY <2>1, <2>2 DEF Under
  <1>2. IInv => OneWriter
    BY <1>1 DEF IInv
  <1> QED BY <1>2, IInvHolds, PTL

(***************************************************************************)
(* However often the peers send a message a process of the node hands it   *)
(* over once: it is marked before it is given away, so that only what is   *)
(* not marked can still be handed.                                         *)
(***************************************************************************)
Marked == HandedOnce /\ (message.handed # 0 => message.seen)

THEOREM MessageHandedOnce == Spec => []HandedOnce
  <1>1. Init => Marked
    BY DEF Init, Marked, HandedOnce
  <1>2. ASSUME IInv, Marked, [Next]_vars
        PROVE  Marked'
    <2> USE <1>2 DEF IInv, TypeOK, Marked, HandedOnce
    <2>1. ASSUME NEW c \in Calls, Step(c)
          PROVE  UNCHANGED message
      BY <2>1 DEF Step, InstallCalled, InstallBegins, MakeDirectory, Unpacks, Downloaded,
         DownloadFails, Installed, DependenciesFail, UninstallCalled, UninstallStops,
         NothingToRemove, RemoveBegins, DropTables, DropFails, RemoveDirectory,
         RemoveDirectoryFails, LaunchCalled, LaunchInstalled, CreateSymlink, CreateSandbox,
         TablesCreated, TablesFail, CreateRoutes, RoutesFail, StopCalled, Stops
    <2>2. ASSUME NEW s, SandboxExits(s) \/ SetReady(s) \/ OnExit(s)
          PROVE  UNCHANGED message
      BY <2>2 DEF SandboxExits, SetReady, OnExit
    <2>3. CASE PostDappMessage
      BY <2>3 DEF PostDappMessage
    <2>4. CASE Restart
      <3>1. message'.handed = 0
        BY <2>4 DEF Restart
      <3> QED BY <3>1
    <2>5. CASE UNCHANGED vars
      BY <2>5 DEF vars
    <2> QED BY <2>1, <2>2, <2>3, <2>4, <2>5 DEF Next
  <1>3. Marked => HandedOnce
    BY DEF Marked
  <1> QED BY <1>1, <1>2, <1>3, IInvHolds, PTL DEF Spec

-----------------------------------------------------------------------------
(* The refinement                                                          *)

LEMMA InitDirectory == Init => Directory!Init
  BY WritingStages DEF Init, Directory!Init, Under, Idle

\* The writers and the maker, before and after the step of a writer.
LEMMA WriterSteps ==
  ASSUME IInv, NEW c \in Calls, NEW stage, Goes(c, stage), \A d \in Calls \ {c} : call[d] \notin Writing
  PROVE  /\ Under(Writing) = IF call[c] \in Writing THEN {c} ELSE {}
         /\ Under(Writing)' = IF stage \in Writing THEN {c} ELSE {}
         /\ Under({"download"}) = IF call[c] = "download" THEN {c} ELSE {}
         /\ Under({"download"})' = IF stage = "download" THEN {c} ELSE {}
  <1>1. call \in [Calls -> Stages]
    BY DEF IInv, TypeOK
  <1>2. /\ call'[c] = stage
        /\ \A d \in Calls \ {c} : call'[d] \notin Writing /\ call'[d] # "download"
        /\ \A d \in Calls \ {c} : call[d] \notin Writing /\ call[d] # "download"
    BY <1>1, WritingStages DEF Goes
  <1> QED BY <1>2 DEF Under

\* A call that begins to work on the directory.
LEMMA WriterEnters ==
  ASSUME IInv, NEW c \in Calls, NEW stage \in Writing \ {"download"}, Goes(c, stage),
         dir' = dir, \A d \in Calls : call[d] \notin Writing
  PROVE  Directory!Enter(c)
  <1>1. call \in [Calls -> Stages]
    BY DEF IInv, TypeOK
  <1>2. /\ call'[c] = stage
        /\ \A d \in Calls \ {c} : call'[d] \notin Writing /\ call'[d] # "download"
        /\ \A d \in Calls : call[d] \notin Writing /\ call[d] # "download"
    BY <1>1, WritingStages DEF Goes
  <1>3. /\ Under(Writing) = {} /\ Under(Writing)' = {c}
        /\ Under({"download"}) = {} /\ Under({"download"})' = {}
    BY <1>2 DEF Under
  <1> QED BY <1>3 DEF Directory!Enter

\* A call that goes on working on the directory.
LEMMA WriterStays ==
  ASSUME IInv, NEW c \in Calls, NEW stage \in Writing \ {"download"}, Goes(c, stage),
         call[c] \in Writing \ {"download"}
  PROVE  UNCHANGED <<Under(Writing), Under({"download"})>>
  <1>1. call \in [Calls -> Stages]
    BY DEF IInv, TypeOK
  <1>2. \A d \in Calls : /\ call'[d] \in Writing <=> call[d] \in Writing
                         /\ call'[d] = "download" <=> call[d] = "download"
    BY <1>1 DEF Goes
  <1> QED BY <1>2 DEF Under

LEMMA MapsStep ==
  ASSUME IInv, NEW c \in Calls, Step(c)
  PROVE  [Directory!Next]_(Directory!vars)
  <1> USE DEF Directory!vars, Directory!Next
  <1>1. \A d \in Calls \ {c} : call[c] \in Writing => call[d] \notin Writing
    BY DEF IInv, Apart
  <1>2. \A d \in Calls : call[d] \in Writing => loading \/ uninstalling
    BY Staging DEF IInv, Flagged
  <1>3. CASE AsideStep(c)
    BY <1>3, StepsAside, AsideKeeps DEF Aside
  <1>4. CASE InstallBegins(c)
    <2>1. CASE loading \/ uninstalling
      <3>1. Goes(c, Idle) /\ call[c] \notin Writing /\ UNCHANGED <<dir, loading, uninstalling>>
        BY <1>4, <2>1, WritingStages DEF InstallBegins, Waits, files
      <3>2. Aside(c)
        BY <3>1, WritingStages DEF Aside, Stages
      <3> QED BY <3>1, <3>2, AsideKeeps
    <2>2. CASE ~loading /\ ~uninstalling
      <3>1. Goes(c, "mkdir") /\ call[c] = "install" /\ dir' = dir
        BY <1>4, <2>2 DEF InstallBegins, Waits, files
      <3>2. \A d \in Calls : call[d] \notin Writing
        BY <1>2, <2>2
      <3>3. "mkdir" \in Writing \ {"download"}
        BY WritingStages
      <3> QED BY <3>1, <3>2, <3>3, WriterEnters
    <2> QED BY <2>1, <2>2
  <1>5. CASE MakeDirectory(c)
    <2>1. CASE dir = "none"
      <3>1. Goes(c, "download") /\ call[c] = "mkdir" /\ dir' = "part"
        BY <1>5, <2>1 DEF MakeDirectory, Waits
      <3>2. Directory!Make(c)
        BY <1>1, <2>1, <3>1, WriterSteps, WritingStages DEF Directory!Make
      <3> QED BY <3>2
    <2>2. CASE dir # "none"
      <3>1. Goes(c, Idle) /\ call[c] = "mkdir" /\ dir' = dir
        BY <1>5, <2>2 DEF MakeDirectory, Waits
      <3>2. Directory!Leave(c)
        BY <1>1, <3>1, WriterSteps, WritingStages DEF Directory!Leave, Idle
      <3> QED BY <3>2
    <2> QED BY <2>1, <2>2
  <1>13. CASE Unpacks(c)
    <2>1. Goes(c, "download") /\ call[c] = "download" /\ dir' = dir
      BY <1>13 DEF Unpacks, Waits
    <2> QED BY <1>1, <2>1, WriterSteps, WritingStages
  <1>6. CASE Downloaded(c)
    <2>1. Goes(c, "dependencies") /\ call[c] = "download" /\ dir' = "whole"
      BY <1>6 DEF Downloaded, Waits
    <2>2. dir = "part"
      BY <2>1 DEF IInv, Made
    <2>3. Directory!Fill(c)
      BY <1>1, <2>1, <2>2, WriterSteps, WritingStages DEF Directory!Fill
    <2> QED BY <2>3
  <1>7. CASE DownloadFails(c) \/ Installed(c)
    <2>1. Goes(c, Idle) /\ call[c] \in {"download", "dependencies"} /\ dir' = dir
      BY <1>7 DEF DownloadFails, Installed, Waits, files
    <2>2. Directory!Leave(c)
      BY <1>1, <2>1, WriterSteps, WritingStages DEF Directory!Leave, Idle
    <2> QED BY <2>2
  <1>8. CASE UninstallCalled(c)
    <2>1. call[c] = Idle /\ dir' = dir /\ ~loading /\ ~uninstalling
      BY <1>8 DEF UninstallCalled, Waits, files
    <2>2. Goes(c, "uninstall") \/ Goes(c, "remove")
      BY <1>8 DEF UninstallCalled
    <2>3. \A d \in Calls : call[d] \notin Writing
      BY <1>2, <2>1
    <2>4. {"uninstall", "remove"} \subseteq Writing \ {"download"}
      BY WritingStages
    <2> QED BY <2>1, <2>2, <2>3, <2>4, WriterEnters
  <1>9. CASE UninstallStops(c)
    <2>1. call[c] = "uninstall" /\ dir' = dir
      BY <1>9 DEF UninstallStops, Waits, files
    <2>2. CASE Goes(c, "remove")
      <3>1. "remove" \in Writing \ {"download"} /\ call[c] \in Writing \ {"download"}
        BY <2>1, WritingStages
      <3> QED BY <2>1, <2>2, <3>1, WriterStays
    <2>3. CASE Goes(c, Idle)
      <3>1. Directory!Leave(c)
        BY <1>1, <2>1, <2>3, WriterSteps, WritingStages DEF Directory!Leave, Idle
      <3> QED BY <3>1
    <2> QED BY <1>9, <2>2, <2>3 DEF UninstallStops
  <1>10. CASE NothingToRemove(c)
    <2>1. Goes(c, Idle) /\ call[c] \in {"remove", "undo"} /\ dir' = dir
      BY <1>10 DEF NothingToRemove, Removed, files
    <2>2. Directory!Leave(c)
      BY <1>1, <2>1, WriterSteps, WritingStages DEF Directory!Leave, Idle
    <2> QED BY <2>2
  <1>11. CASE DependenciesFail(c) \/ RemoveBegins(c) \/ DropTables(c) \/ DropFails(c)
    <2>1. dir' = dir
      BY <1>11 DEF DependenciesFail, RemoveBegins, DropTables, DropFails, files
    <2>2. call[c] \in {"dependencies", "remove", "undo", "drop", "undo drop"}
      BY <1>11 DEF DependenciesFail, RemoveBegins, DropTables, DropFails, Waits
    <2>3. \/ Goes(c, "undo") \/ Goes(c, "undo rmdir") \/ Goes(c, "rmdir")
          \/ Goes(c, "undo drop") \/ Goes(c, "drop")
      BY <1>11 DEF DependenciesFail, RemoveBegins, DropTables, DropFails
    <2>4. {"dependencies", "remove", "undo", "undo rmdir", "rmdir", "undo drop", "drop"}
            \subseteq Writing \ {"download"}
      BY WritingStages
    <2> QED BY <2>1, <2>2, <2>3, <2>4, WriterStays
  <1>12. CASE RemoveDirectory(c) \/ RemoveDirectoryFails(c)
    <2>1. Goes(c, Idle) /\ call[c] \in {"rmdir", "undo rmdir"}
          /\ dir' \in {dir, "none", "part"}
      BY <1>12 DEF RemoveDirectory, RemoveDirectoryFails, PartlyRemoved, Removed
    <2>2. Directory!Remove(c) \/ Directory!Leave(c)
      BY <1>1, <2>1, WriterSteps, WritingStages DEF Directory!Remove, Directory!Leave, Idle
    <2> QED BY <2>2
  <1> QED
    BY <1>3, <1>4, <1>5, <1>6, <1>7, <1>8, <1>9, <1>10, <1>11, <1>12, <1>13
    DEF Step, AsideStep

LEMMA MapsRestart ==
  ASSUME IInv, Restart
  PROVE  Directory!Restart
  <1>1. Under({"rmdir", "undo rmdir"}) \subseteq Under(Writing)
    BY WritingStages DEF Under
  <1>2. dir' \in IF Under(Writing) = {} THEN {dir} ELSE {dir, "part"}
    BY <1>1 DEF Restart, PartlyRemoved
  <1> QED BY <1>2, RestartKeeps DEF Directory!Restart

(***************************************************************************)
(* The calls on an application implement the abstract directory: one call  *)
(* at a time enters, only what it has made itself does it fill, and what   *)
(* it removes nobody else works on.                                        *)
(***************************************************************************)
THEOREM DirectoryImplemented == Spec => DirectoryKept
  <1>1. ASSUME IInv, [Next]_vars
        PROVE  [Directory!Next]_(Directory!vars)
    <2>1. ASSUME NEW c \in Calls, Step(c)
          PROVE  [Directory!Next]_(Directory!vars)
      BY <1>1, <2>1, MapsStep
    <2>2. CASE Event
      BY <2>2, EventsAside DEF Directory!vars, Under
    <2>3. CASE Restart
      BY <1>1, <2>3, MapsRestart DEF Directory!Next
    <2>4. CASE UNCHANGED vars
      BY <2>4 DEF vars, Directory!vars, Under
    <2> QED BY <1>1, <2>1, <2>2, <2>3, <2>4 DEF Next, Event
  <1> QED BY InitDirectory, <1>1, IInvHolds, PTL DEF Spec, DirectoryKept, Directory!Spec

-----------------------------------------------------------------------------
(***************************************************************************)
(* The processes of the application.  Nothing a call has waited for is     *)
(* asked again, so the strengthening follows a launch: as long as no other *)
(* call has crossed it, it is the only one, the directory stays, nothing   *)
(* runs before it starts its process, and the link is there by then.       *)
(***************************************************************************)
Opening == Launching \ {"routes"}
Working == Writing \ {"mkdir", "uninstall"}
Happened(what) == what \in mishaps

OneLaunch ==
  /\ \A c, d \in Calls : call[c] \in Launching /\ call[d] \in Launching => c = d
  /\ \A c, d \in Calls : call[c] \in Launching => launched /\ call[d] \notin Others
  /\ \A c \in Calls : call[c] \in Launching \ {"installed"} => dir # "none"

LaunchApart == ~Happened("crossed") => OneLaunch

\* What runs while a launch has not started a process, and otherwise
NoneYet == \A c \in Calls : call[c] \in Opening => running = {}
OnlyOne == running = {} \/ (running = {sandbox} /\ launched)

Processes == ~Happened("crossed") /\ ~Happened("unstopped") => NoneYet /\ OnlyOne

LaunchedRuns ==
  launched => \/ \E c \in Calls : call[c] \in Opening
              \/ running # {}
              \/ Happened("exited") \/ Happened("late")

Ended == running \cap exited = {}

LEMMA StageSets ==
  /\ Launching = {"installed", "symlink", "sandbox", "tables", "routes"}
  /\ Opening = {"installed", "symlink", "sandbox", "tables"}
  /\ Others = {"uninstall", "stop", "remove", "drop", "rmdir", "mkdir", "download",
               "dependencies", "undo", "undo drop", "undo rmdir"}
  /\ Working = {"download", "dependencies", "undo", "undo drop", "undo rmdir", "remove",
                "drop", "rmdir"}
  /\ Idle = "idle"
BY WritingStages DEF Launching, Opening, Others, Working, Installing, Removing, Idle

\* What has happened stays in the history until the node is started again.
LEMMA StepMishapsStay ==
  ASSUME NEW c \in Calls, Step(c)
  PROVE  mishaps \subseteq mishaps'
BY DEF Step, InstallCalled, InstallBegins, MakeDirectory, Unpacks, Downloaded,
     DownloadFails, Installed, DependenciesFail, UninstallCalled, UninstallStops,
     NothingToRemove, RemoveBegins, DropTables, DropFails, RemoveDirectory,
     RemoveDirectoryFails, LaunchCalled, LaunchInstalled, CreateSymlink, CreateSandbox,
     TablesCreated, TablesFail, CreateRoutes, RoutesFail, StopCalled, Stops,
     Crossing

LEMMA EventMishapsStay == Event => mishaps \subseteq mishaps'
BY DEF Event, SandboxExits, SetReady, OnExit, PostDappMessage

LEMMA LaunchStepKeeps ==
  ASSUME IInv, OneLaunch, NEW c \in Calls, Step(c), "crossed" \notin mishaps'
  PROVE  OneLaunch'
<1> USE StageSets DEF OneLaunch, Waits, Goes
<1>0. call \in [Calls -> Stages]
  BY DEF IInv, TypeOK
<1> USE <1>0
<1>1. CASE \/ InstallCalled(c) \/ MakeDirectory(c) \/ Unpacks(c) \/ Downloaded(c)
           \/ DownloadFails(c) \/ Installed(c) \/ DependenciesFail(c)
  <2>1. CASE InstallCalled(c)
    BY <2>1 DEF InstallCalled, flags, files
  <2>2. CASE ~InstallCalled(c)
    <3>1. call[c] \in Others
      BY <1>1, <2>2 DEF MakeDirectory, Unpacks, Downloaded, DownloadFails, Installed,
         DependenciesFail
    <3>2. \E stage \in {Idle, "download", "dependencies", "undo"} :
            call' = [call EXCEPT ![c] = stage]
      BY <1>1, <2>2 DEF MakeDirectory, Unpacks, Downloaded, DownloadFails, Installed,
         DependenciesFail
    <3>3. \A d \in Calls : call'[d] \notin Launching
      BY <3>1, <3>2
    <3> QED
      BY <3>3
  <2> QED
    BY <2>1, <2>2
<1>2. CASE \/ UninstallStops(c) \/ NothingToRemove(c) \/ RemoveBegins(c)
           \/ DropTables(c) \/ DropFails(c) \/ RemoveDirectory(c) \/ RemoveDirectoryFails(c)
  <2>1. call[c] \in Others
    BY <1>2 DEF UninstallStops, NothingToRemove, RemoveBegins, DropTables, DropFails,
       RemoveDirectory, RemoveDirectoryFails
  <2>2. \E stage \in Stages \ Launching : call' = [call EXCEPT ![c] = stage]
    <3>1. CASE UninstallStops(c) \/ RemoveBegins(c) \/ DropTables(c) \/ DropFails(c)
      <4>1. \E stage \in {Idle, "remove", "drop", "rmdir", "undo drop", "undo rmdir"} :
              call' = [call EXCEPT ![c] = stage]
        BY <3>1 DEF UninstallStops, RemoveBegins, DropTables, DropFails
      <4> QED
        BY <4>1 DEF Stages, Removing, Installing
    <3>2. CASE NothingToRemove(c) \/ RemoveDirectory(c) \/ RemoveDirectoryFails(c)
      <4>1. Removed(c)
        BY <3>2 DEF NothingToRemove, RemoveDirectory, RemoveDirectoryFails
      <4> QED
        BY <4>1 DEF Removed, Stages
    <3> QED
      BY <1>2, <3>1, <3>2
  <2>3. \A d \in Calls : call'[d] \notin Launching
    BY <2>1, <2>2
  <2> QED
    BY <2>3
<1>3. CASE \/ InstallBegins(c) \/ UninstallCalled(c) \/ LaunchCalled(c) \/ StopCalled(c)
  BY <1>3 DEF InstallBegins, UninstallCalled, LaunchCalled, StopCalled, Crossing, Under,
     flags, files
<1>4. CASE \/ LaunchInstalled(c) \/ CreateSymlink(c) \/ CreateSandbox(c)
           \/ TablesCreated(c) \/ TablesFail(c) \/ CreateRoutes(c) \/ RoutesFail(c)
  <2>1. call[c] \in Launching
    BY <1>4 DEF LaunchInstalled, CreateSymlink, CreateSandbox, TablesCreated, TablesFail,
       CreateRoutes, RoutesFail
  <2>2. \/ call' = [call EXCEPT ![c] = Idle]
        \/ /\ \E stage \in Launching : call' = [call EXCEPT ![c] = stage]
           /\ UNCHANGED <<launched, dir>> /\ dir # "none"
    <3>1. CASE LaunchInstalled(c)
      BY <3>1 DEF LaunchInstalled, NotLaunched, files
    <3>2. CASE CreateSymlink(c)
      BY <3>2 DEF CreateSymlink, flags
    <3>3. CASE CreateSandbox(c)
      BY <3>3 DEF CreateSandbox, NotLaunched
    <3>4. CASE TablesCreated(c)
      BY <3>4 DEF TablesCreated, flags, files
    <3>5. CASE TablesFail(c)
      BY <3>5 DEF TablesFail, NotLaunched
    <3>6. CASE CreateRoutes(c)
      BY <3>6 DEF CreateRoutes
    <3>7. CASE RoutesFail(c)
      <4>1. NotLaunched(c)
        BY <3>7 DEF RoutesFail
      <4> QED
        BY <4>1 DEF NotLaunched
    <3> QED
      BY <1>4, <3>1, <3>2, <3>3, <3>4, <3>5, <3>6, <3>7
  <2>3. \A d \in Calls \ {c} : call'[d] = call[d] /\ call'[d] \notin Launching \cup Others
    BY <2>1, <2>2
  <2>4. ASSUME call'[c] \in Launching PROVE launched' /\ dir' # "none"
    <3>1. call'[c] # Idle
      BY <2>4
    <3>2. launched /\ UNCHANGED <<launched, dir>> /\ dir # "none"
      BY <2>1, <2>2, <3>1
    <3> QED
      BY <3>2
  <2>5. call'[c] \in Launching \cup {Idle}
    BY <2>2
  <2> QED
    BY <2>3, <2>4, <2>5
<1>5. CASE Stops(c)
  <2>1. call[c] \in Others /\ call' = [call EXCEPT ![c] = Idle]
    BY <1>5 DEF Stops
  <2>2. \A d \in Calls : call'[d] \notin Launching
    BY <2>1
  <2> QED
    BY <2>2
<1> QED
  BY <1>1, <1>2, <1>3, <1>4, <1>5 DEF Step

LEMMA BooleanFlags ==
  ASSUME IInv
  PROVE  /\ call \in [Calls -> Stages]
         /\ link \in BOOLEAN /\ tables \in BOOLEAN /\ config \in BOOLEAN
         /\ loading \in BOOLEAN /\ uninstalling \in BOOLEAN /\ launched \in BOOLEAN
         /\ sandbox \in Nat /\ made \in Nat /\ running \cup exited \subseteq 1 .. made
BY DEF IInv, TypeOK

LEMMA LaunchApartKeeps ==
  ASSUME IInv, LaunchApart, Next
  PROVE  LaunchApart'
<1> USE DEF LaunchApart, Happened
<1>1. CASE Restart
  <2>1. \A c \in Calls : call'[c] \notin Launching
    BY <1>1, StageSets DEF Restart
  <2> QED
    BY <2>1, StageSets DEF OneLaunch
<1>2. CASE Event
  <2>1. UNCHANGED <<call, dir, launched>>
    BY <1>2 DEF Event, SandboxExits, SetReady, OnExit, PostDappMessage,
       flags, files, boxes
  <2>2. OneLaunch => OneLaunch'
    BY <2>1 DEF OneLaunch
  <2>3. mishaps \subseteq mishaps'
    BY <1>2, EventMishapsStay
  <2> QED
    BY <2>2, <2>3
<1>3. ASSUME NEW c \in Calls, Step(c) PROVE LaunchApart'
  BY <1>3, StepMishapsStay, LaunchStepKeeps
<1> QED
  BY <1>1, <1>2, <1>3 DEF Next, Event

-----------------------------------------------------------------------------
(* The steps that neither launch the application nor stop it.              *)

QuietStep(c) ==
  \/ InstallCalled(c) \/ InstallBegins(c) \/ MakeDirectory(c) \/ Unpacks(c)
  \/ Downloaded(c) \/ DownloadFails(c) \/ Installed(c) \/ DependenciesFail(c)
  \/ UninstallCalled(c) \/ NothingToRemove(c) \/ RemoveBegins(c)
  \/ DropTables(c) \/ DropFails(c) \/ RemoveDirectory(c) \/ RemoveDirectoryFails(c)
  \/ StopCalled(c)

LEMMA GoesTo ==
  ASSUME IInv, NEW c \in Calls, NEW stage, Goes(c, stage)
  PROVE  call'[c] = stage /\ \A d \in Calls \ {c} : call'[d] = call[d]
BY BooleanFlags DEF Goes

LEMMA QuietSteps ==
  ASSUME IInv, NEW c \in Calls, QuietStep(c)
  PROVE  /\ UNCHANGED <<app, link, config, launched, sandbox, running, exited, made>>
         /\ call[c] \notin Launching /\ call'[c] \notin Launching
         /\ \A d \in Calls \ {c} : call'[d] = call[d]
<1>1. UNCHANGED <<app, link, config, launched, sandbox, running, exited, made>>
  BY DEF QuietStep, InstallCalled, InstallBegins, MakeDirectory, Unpacks, Downloaded,
     DownloadFails, Installed, DependenciesFail, UninstallCalled, NothingToRemove,
     RemoveBegins, DropTables, DropFails, RemoveDirectory, RemoveDirectoryFails, StopCalled, Removed, flags, files, boxes
<1>2. \E stage \in Stages \ Launching : Goes(c, stage)
  <2>1. {"idle", "install", "stop", "uninstall", "mkdir", "download", "dependencies", "undo",
         "undo drop", "undo rmdir", "remove", "drop", "rmdir"} \subseteq Stages \ Launching
    BY StageSets DEF Stages, Installing, Removing, Idle
  <2> QED
    BY <2>1 DEF QuietStep, InstallCalled, InstallBegins, MakeDirectory, Unpacks, Downloaded,
       DownloadFails, Installed, DependenciesFail, UninstallCalled, NothingToRemove,
       RemoveBegins, DropTables, DropFails, RemoveDirectory, RemoveDirectoryFails, StopCalled,
       Removed, Idle
<1>3. call[c] \notin Launching
  BY StageSets DEF QuietStep, InstallCalled, InstallBegins, MakeDirectory, Unpacks, Downloaded,
     DownloadFails, Installed, DependenciesFail, UninstallCalled, NothingToRemove,
     RemoveBegins, DropTables, DropFails, RemoveDirectory, RemoveDirectoryFails, StopCalled,
     Waits
<1> QED
  BY <1>1, <1>2, <1>3, GoesTo

-----------------------------------------------------------------------------
(* How many processes run                                                  *)

ProcessInv == LaunchApart /\ Processes /\ LaunchedRuns /\ Ended

LEMMA ProcessStepKeeps ==
  ASSUME IInv, ProcessInv, NEW c \in Calls, Step(c)
  PROVE  (Processes /\ LaunchedRuns /\ Ended)'
<1> USE DEF ProcessInv, Waits
<1>0. /\ ~Happened("crossed")' => ~Happened("crossed") /\ OneLaunch
      /\ ~Happened("unstopped")' => ~Happened("unstopped")
      /\ Happened("exited") => Happened("exited")'
      /\ Happened("late") => Happened("late")'
  BY StepMishapsStay DEF Happened, LaunchApart
<1>1. CASE QuietStep(c)
  <2>1. /\ UNCHANGED <<sandbox, running, exited, launched>>
        /\ \A d \in Calls : call'[d] \in Opening <=> call[d] \in Opening
    BY <1>1, QuietSteps, StageSets
  <2> QED
    BY <1>0, <2>1 DEF Processes, NoneYet, OnlyOne, LaunchedRuns, Ended
<1>2. CASE LaunchCalled(c)
  <2>1. /\ UNCHANGED <<sandbox, running, exited>> /\ ~launched /\ launched'
        /\ call'[c] = "installed" /\ \A d \in Calls \ {c} : call'[d] = call[d]
    BY <1>2, GoesTo DEF LaunchCalled, boxes
  <2>2. Processes'
    BY <1>0, <2>1 DEF Processes, NoneYet, OnlyOne
  <2>3. LaunchedRuns'
    BY <2>1, StageSets DEF LaunchedRuns
  <2> QED
    BY <2>1, <2>2, <2>3 DEF Ended
<1>3. CASE LaunchInstalled(c) \/ CreateSymlink(c) \/ CreateSandbox(c) \/ TablesFail(c)
  <2>1. /\ UNCHANGED <<sandbox, running, exited>> /\ call[c] \in Opening
        /\ \/ launched' = launched /\ \E stage \in Opening : Goes(c, stage)
           \/ launched' = FALSE /\ Goes(c, Idle)
    <3>1. UNCHANGED <<sandbox, running, exited>> /\ call[c] \in Opening
      BY <1>3, StageSets DEF LaunchInstalled, CreateSymlink, CreateSandbox, TablesFail, boxes
    <3>2. \/ launched' = launched /\ \E stage \in {"symlink", "sandbox", "tables"} : Goes(c, stage)
          \/ launched' = FALSE /\ Goes(c, Idle)
      BY <1>3 DEF LaunchInstalled, CreateSymlink, CreateSandbox, TablesFail, NotLaunched, flags
    <3> QED
      BY <3>1, <3>2, StageSets
  <2>2. /\ \A d \in Calls \ {c} : call'[d] = call[d]
        /\ \/ launched' = launched /\ call'[c] \in Opening
           \/ launched' = FALSE
    BY <2>1, GoesTo
  <2>3. Processes'
    BY <1>0, <2>1, <2>2 DEF Processes, NoneYet, OnlyOne
  <2>4. LaunchedRuns'
    BY <1>0, <2>1, <2>2 DEF LaunchedRuns
  <2> QED
    BY <2>1, <2>3, <2>4 DEF Ended
<1>4. CASE TablesCreated(c)
  <2>1. /\ sandbox' = made + 1 /\ running' = running \cup {made + 1} /\ exited' = exited
        /\ launched' = launched /\ call[c] = "tables" /\ call'[c] = "routes"
        /\ \A d \in Calls \ {c} : call'[d] = call[d]
    BY <1>4, GoesTo DEF TablesCreated, flags
  <2>2. Processes'
    <3> SUFFICES ASSUME ~Happened("crossed")', ~Happened("unstopped")' PROVE NoneYet' /\ OnlyOne'
      BY DEF Processes
    <3>1. running = {} /\ launched /\ \A d \in Calls \ {c} : call[d] \notin Launching
      BY <1>0, <2>1, StageSets DEF Processes, NoneYet, OneLaunch
    <3>2. \A d \in Calls : call'[d] \notin Opening
      BY <2>1, <3>1, StageSets
    <3>3. running' = {sandbox'} /\ launched'
      BY <2>1, <3>1
    <3> QED
      BY <3>2, <3>3 DEF NoneYet, OnlyOne
  <2>3. LaunchedRuns'
    BY <2>1 DEF LaunchedRuns
  <2>4. made + 1 \notin exited
    BY BooleanFlags
  <2> QED
    BY <2>1, <2>2, <2>3, <2>4 DEF Ended
<1>5. CASE CreateRoutes(c)
  <2>1. /\ UNCHANGED <<sandbox, running, exited, launched>>
        /\ call[c] \notin Opening /\ call'[c] \notin Opening
        /\ \A d \in Calls \ {c} : call'[d] = call[d]
    <3>1. UNCHANGED <<sandbox, running, exited, launched>>
      BY <1>5 DEF CreateRoutes, flags, boxes
    <3>2. call[c] = "routes" /\ Goes(c, Idle)
      BY <1>5 DEF CreateRoutes
    <3>3. call'[c] = Idle /\ \A d \in Calls \ {c} : call'[d] = call[d]
      BY <3>2, GoesTo
    <3> QED
      BY <3>1, <3>2, <3>3, StageSets
  <2> QED
    BY <1>0, <2>1 DEF Processes, NoneYet, OnlyOne, LaunchedRuns, Ended
<1>6. CASE RoutesFail(c) \/ UninstallStops(c) \/ Stops(c)
  <2>1. /\ call[c] \notin Opening /\ call'[c] \notin Opening
        /\ \A d \in Calls \ {c} : call'[d] = call[d]
    <3>1. Goes(c, "idle") \/ Goes(c, "remove")
      BY <1>6 DEF RoutesFail, UninstallStops, Stops, NotLaunched, Idle
    <3>2. call[c] \in {"routes", "uninstall", "stop"}
      BY <1>6 DEF RoutesFail, UninstallStops, Stops
    <3>3. call'[c] \in {"idle", "remove"} /\ \A d \in Calls \ {c} : call'[d] = call[d]
      BY <3>1, GoesTo
    <3> QED
      BY <3>2, <3>3, StageSets
  <2>2. CASE Stoppable
    <3>1. launched' = FALSE /\ running' = running \ {sandbox}
      BY <1>6, <2>2 DEF RoutesFail, UninstallStops, Stops, NotLaunched, StopDApp
    <3>2. exited' = exited \cup ({sandbox} \cap running)
      BY <1>6, <2>2 DEF RoutesFail, UninstallStops, Stops, StopDApp
    <3>3. Processes'
      BY <1>0, <2>1, <3>1 DEF Processes, NoneYet, OnlyOne
    <3> QED
      BY <3>1, <3>2, <3>3 DEF LaunchedRuns, Ended
  <2>3. CASE ~Stoppable
    <3>1. UNCHANGED <<sandbox, running, exited>>
      BY <1>6, <2>3 DEF RoutesFail, UninstallStops, Stops
    <3>2. \/ launched' = launched
          \/ launched' = FALSE /\ Happened("unstopped")'
      BY <1>6, <2>3 DEF RoutesFail, UninstallStops, Stops, NotLaunched, Happened
    <3>3. Processes'
      BY <1>0, <2>1, <3>1, <3>2 DEF Processes, NoneYet, OnlyOne
    <3>4. LaunchedRuns'
      BY <1>0, <2>1, <3>1, <3>2 DEF LaunchedRuns
    <3> QED
      BY <3>1, <3>3, <3>4 DEF Ended
  <2> QED
    BY <2>2, <2>3
<1> QED
  BY <1>1, <1>2, <1>3, <1>4, <1>5, <1>6 DEF Step, QuietStep

LEMMA ProcessKeeps ==
  ASSUME IInv, ProcessInv, Next
  PROVE  ProcessInv'
<1> SUFFICES (Processes /\ LaunchedRuns /\ Ended)'
  BY LaunchApartKeeps DEF ProcessInv
<1> USE DEF ProcessInv
<1>1. ASSUME NEW c \in Calls, Step(c) PROVE (Processes /\ LaunchedRuns /\ Ended)'
  BY <1>1, ProcessStepKeeps
<1>2. CASE Restart
  <2>1. /\ \A c \in Calls : call'[c] \notin Opening
        /\ running' = {} /\ launched' = FALSE
    BY <1>2, StageSets DEF Restart
  <2> QED
    BY <2>1 DEF Processes, NoneYet, OnlyOne, LaunchedRuns, Ended
<1>3. CASE Event
  <2>1. UNCHANGED <<call, launched>>
    BY <1>3, EventsAside DEF Event, SandboxExits, SetReady, OnExit, PostDappMessage, flags
  <2>2. \A what : Happened(what) => Happened(what)'
    BY <1>3, EventMishapsStay DEF Happened
  <2>3. ASSUME NEW s \in running, SandboxExits(s) PROVE (Processes /\ LaunchedRuns /\ Ended)'
    <3>1. /\ running' = running \ {s} /\ exited' = exited \cup {s} /\ sandbox' = sandbox
          /\ Happened("exited")'
      BY <2>3 DEF SandboxExits, Happened
    <3>2. Processes'
      BY <2>1, <2>2, <3>1 DEF Processes, NoneYet, OnlyOne
    <3> QED
      BY <3>1, <3>2 DEF LaunchedRuns, Ended
  <2>4. ASSUME NEW s \in exited, OnExit(s) PROVE (Processes /\ LaunchedRuns /\ Ended)'
    <3>1. CASE Stoppable
      <4>1. /\ running' = running \ {sandbox} /\ sandbox' = 0
            /\ exited' = (exited \cup ({sandbox} \cap running)) \ {s}
            /\ sandbox \notin {0, s} => Happened("late")'
        BY <2>4, <3>1 DEF OnExit, StopDApp, Happened
      <4>2. 0 \notin running /\ s \notin running
        BY BooleanFlags DEF Ended
      <4>3. sandbox \in {0, s} => running' = running
        BY <4>1, <4>2
      <4>4. Processes'
        BY <2>1, <2>2, <4>1 DEF Processes, NoneYet, OnlyOne
      <4>5. LaunchedRuns'
        BY <2>1, <2>2, <4>1, <4>3 DEF LaunchedRuns
      <4> QED
        BY <4>1, <4>4, <4>5 DEF Ended
    <3>2. CASE ~Stoppable
      <4>1. running' = running /\ sandbox' = sandbox /\ exited' = exited \ {s}
        BY <2>4, <3>2 DEF OnExit
      <4> QED
        BY <2>1, <2>2, <4>1 DEF Processes, NoneYet, OnlyOne, LaunchedRuns, Ended
    <3> QED
      BY <3>1, <3>2
  <2>5. CASE \/ \E s \in running : SetReady(s)
             \/ PostDappMessage
    <3>1. UNCHANGED <<sandbox, running, exited>>
      BY <2>5 DEF SetReady, PostDappMessage, boxes
    <3> QED
      BY <2>1, <2>2, <3>1 DEF Processes, NoneYet, OnlyOne, LaunchedRuns, Ended
  <2> QED
    BY <1>3, <2>3, <2>4, <2>5 DEF Event
<1> QED
  BY <1>1, <1>2, <1>3 DEF Next, Event

-----------------------------------------------------------------------------
(* What a step does to the flags                                           *)

\* A call gives up a flag, or goes on holding it, or does not hold it.
LEMMA FlagSteps ==
  ASSUME IInv, NEW c \in Calls, Step(c)
  PROVE  /\ \A d \in Calls \ {c} : call'[d] = call[d]
         /\ \/ ~loading' \/ call'[c] \in Loaders
            \/ loading' = loading /\ call[c] \notin Loaders
         /\ \/ ~uninstalling' \/ call'[c] \in Removers
            \/ uninstalling' = uninstalling /\ call[c] \notin Removers
            \/ call[c] = "uninstall" /\ ~Stoppable
<1> USE DEF Waits
<1>1. CASE AsideStep(c)
  <2>1. Aside(c)
    BY <1>1, StepsAside
  <2>2. PICK stage \in Stages \ Writing : Goes(c, stage)
    BY <2>1 DEF Aside
  <2> QED
    BY <2>1, <2>2, GoesTo, Staging DEF Aside
<1>2. CASE InstallBegins(c) \/ MakeDirectory(c)
  <2>1. /\ call[c] \notin Removers /\ uninstalling' = uninstalling
        /\ \/ loading' = loading /\ call[c] \notin Loaders /\ Goes(c, Idle)
           \/ Goes(c, "mkdir") \/ Goes(c, "download")
           \/ ~loading' /\ Goes(c, Idle)
    BY <1>2, WritingStages DEF InstallBegins, MakeDirectory
  <2> QED
    BY <2>1, GoesTo, WritingStages
<1>3. CASE Unpacks(c) \/ Downloaded(c) \/ DownloadFails(c) \/ Installed(c)
  <2>1. /\ call[c] \notin Removers /\ uninstalling' = uninstalling
        /\ \/ Goes(c, "download") \/ Goes(c, "dependencies")
           \/ ~loading' /\ Goes(c, Idle)
    BY <1>3, WritingStages DEF Unpacks, Downloaded, DownloadFails, Installed, flags
  <2> QED
    BY <2>1, GoesTo, WritingStages
<1>4. CASE DependenciesFail(c)
  BY <1>4, GoesTo, WritingStages DEF DependenciesFail
<1>5. CASE UninstallCalled(c)
  <2>1. call[c] \notin Loaders /\ loading' = loading
        /\ (Goes(c, "uninstall") \/ Goes(c, "remove"))
    BY <1>5, WritingStages DEF UninstallCalled
  <2> QED
    BY <2>1, GoesTo, WritingStages
<1>6. CASE UninstallStops(c)
  <2>1. /\ call[c] = "uninstall" /\ loading' = loading
        /\ Goes(c, "remove") \/ (Goes(c, Idle) /\ ~Stoppable)
    BY <1>6 DEF UninstallStops
  <2>2. call[c] \notin Loaders
    BY <2>1, WritingStages
  <2> QED
    BY <2>1, <2>2, GoesTo, WritingStages
<1>7. CASE NothingToRemove(c) \/ RemoveDirectory(c) \/ RemoveDirectoryFails(c)
  <2>1. /\ call[c] \in {"remove", "undo", "rmdir", "undo rmdir"}
        /\ Goes(c, Idle) /\ ~uninstalling'
        /\ loading' = (loading /\ call[c] \notin Undoing)
    BY <1>7 DEF NothingToRemove, RemoveDirectory, RemoveDirectoryFails, Removed
  <2>2. ~loading' \/ (loading' = loading /\ call[c] \notin Loaders)
    BY <2>1, WritingStages, BooleanFlags DEF Undoing
  <2> QED
    BY <2>1, <2>2, GoesTo
<1>8. CASE RemoveBegins(c) \/ DropTables(c) \/ DropFails(c)
  <2>1. /\ loading' = loading
        /\ \/ /\ call[c] \in {"remove", "drop"}
              /\ Goes(c, "rmdir") \/ Goes(c, "drop")
           \/ Goes(c, "undo rmdir") \/ Goes(c, "undo drop")
    BY <1>8 DEF RemoveBegins, DropTables, DropFails, flags
  <2> QED
    BY <2>1, GoesTo, WritingStages
<1> QED
  BY <1>1, <1>2, <1>3, <1>4, <1>5, <1>6, <1>7, <1>8 DEF Step, AsideStep

-----------------------------------------------------------------------------
(***************************************************************************)
(* Where the files are.  A directory is there in part while it is filled,  *)
(* or since that or a removal was cut short.  An application that is       *)
(* launched, or about to be, lies in its directory, with its public link   *)
(* unless that is there in part, and nobody removes it.                    *)
(***************************************************************************)
Filed ==
  /\ dir = "none" => unpacked = {}
  /\ dir = "whole" => unpacked = Archive
  /\ dir = "part" => Happened("incomplete") \/ \E c \in Calls : call[c] = "download"

Linked == app.public => Stoppable \/ Happened("incomplete")
Placed == {"config", "blockchain"} \subseteq unpacked /\ Linked

Standing ==
  /\ launched /\ (\A c \in Calls : call[c] \notin Launching) => Placed
  /\ \A c \in Calls : call[c] \in {"tables", "routes", "uninstall"} => Placed
  /\ \A c \in Calls : call[c] = "sandbox" => Linked
  /\ \A c \in Calls : call[c] \in Working => ~launched

InPlace == ~Happened("crossed") /\ ~Happened("stale") => Standing

\* The files are read from memory only where they are missing from the directory.
Memory == Happened("stale") => Happened("crossed") \/ Happened("incomplete")

PlaceInv == ProcessInv /\ Filed /\ InPlace /\ Memory

LEMMA FiledKeeps ==
  ASSUME IInv, Filed, Next
  PROVE  Filed'
<1> USE DEF Filed, Happened
<1>0. app' = app /\ Archive' = Archive
  BY AppStays DEF Archive
<1>1. CASE Restart
  <2>1. /\ dir' = "part" => Happened("incomplete")'
        /\ dir' # "part" => UNCHANGED <<dir, unpacked>>
    BY <1>1 DEF Restart, PartlyRemoved
  <2> QED
    BY <1>0, <2>1
<1>2. CASE Event
  <2>1. UNCHANGED <<call, dir, unpacked>>
    BY <1>2, EventsAside DEF Event, SandboxExits, SetReady, OnExit, PostDappMessage, files
  <2> QED
    BY <1>0, <1>2, <2>1, EventMishapsStay
<1>3. ASSUME NEW c \in Calls, Step(c) PROVE Filed'
  <2> USE <1>3 DEF Waits
  <2>0. mishaps \subseteq mishaps'
    BY StepMishapsStay
  <2>a. \A d \in Calls : call[d] = "download" => dir = "part" /\ call[d] \in Writing
    BY WritingStages DEF IInv, Made
  <2>1. CASE MakeDirectory(c)
    <3>1. CASE dir = "none"
      <4>1. Goes(c, "download") /\ dir' = "part"
        BY <2>1, <3>1 DEF MakeDirectory
      <4> QED
        BY <4>1, GoesTo
    <3>2. CASE dir # "none"
      <4>1. UNCHANGED <<dir, unpacked>> /\ call[c] = "mkdir"
        BY <2>1, <3>2 DEF MakeDirectory
      <4>2. \A d \in Calls : call[d] # "download"
        BY <2>a, <4>1, WritingStages DEF IInv, Apart
      <4> QED
        BY <1>0, <2>0, <4>1, <4>2
    <3> QED
      BY <3>1, <3>2
  <2>2. CASE Unpacks(c)
    <3>1. call[c] = "download" /\ Goes(c, "download") /\ dir' = dir
      BY <2>2 DEF Unpacks
    <3> QED
      BY <2>a, <3>1, GoesTo
  <2>3. CASE Downloaded(c)
    BY <1>0, <2>3 DEF Downloaded
  <2>4. CASE DownloadFails(c)
    <3>1. UNCHANGED <<dir, unpacked>> /\ Happened("incomplete")'
      BY <2>4 DEF DownloadFails, files
    <3> QED
      BY <1>0, <3>1
  <2>5. CASE RemoveDirectory(c)
    BY <2>5 DEF RemoveDirectory
  <2>6. CASE RemoveDirectoryFails(c)
    <3>1. call[c] \in {"rmdir", "undo rmdir"}
      BY <2>6 DEF RemoveDirectoryFails
    <3>2. \A d \in Calls : call[d] # "download"
      BY <2>a, <3>1, WritingStages DEF IInv, Apart
    <3>3. /\ dir' = "part" => Happened("incomplete")'
          /\ dir' # "part" => UNCHANGED <<dir, unpacked>>
      BY <2>6 DEF RemoveDirectoryFails, PartlyRemoved
    <3> QED
      BY <1>0, <3>3
  <2>7. CASE /\ ~MakeDirectory(c) /\ ~Unpacks(c) /\ ~Downloaded(c) /\ ~DownloadFails(c)
             /\ ~RemoveDirectory(c) /\ ~RemoveDirectoryFails(c)
    <3>1. UNCHANGED <<dir, unpacked>> /\ call[c] # "download"
      BY <2>7 DEF Step, InstallCalled, InstallBegins, Installed, DependenciesFail,
         UninstallCalled, UninstallStops, NothingToRemove, RemoveBegins, DropTables,
         DropFails, LaunchCalled, LaunchInstalled, CreateSymlink, CreateSandbox,
         TablesCreated, TablesFail, CreateRoutes, RoutesFail, StopCalled, Stops, files, Idle
    <3>2. \A d \in Calls : call[d] = "download" => call'[d] = "download"
      BY <3>1, FlagSteps
    <3> QED
      BY <1>0, <2>0, <3>1, <3>2
  <2> QED
    BY <2>1, <2>2, <2>3, <2>4, <2>5, <2>6, <2>7
<1> QED
  BY <1>1, <1>2, <1>3 DEF Next, Event

\* Nobody works on the directory: what is placed remains so.
LEMMA UndisturbedStanding ==
  ASSUME IInv, Standing, NEW c \in Calls, UNCHANGED <<app, unpacked, link, launched>>,
         mishaps \subseteq mishaps',
         \A d \in Calls \ {c} : call'[d] = call[d],
         call[c] \in Launching => call'[c] \in Launching \/ Placed,
         call'[c] \in {"tables", "routes", "uninstall"} => Placed,
         call'[c] = "sandbox" => call[c] = "sandbox",
         call'[c] \in Working => call[c] \in Working \/ ~launched
  PROVE  Standing'
<1>1. (Placed => Placed') /\ (Linked => Linked')
  BY DEF Placed, Linked, Stoppable, Happened
<1>2. launched' = launched
  OBVIOUS
<1>3. ASSUME launched', \A d \in Calls : call'[d] \notin Launching PROVE Placed'
  <2>1. CASE call[c] \in Launching
    BY <1>1, <1>3, <2>1
  <2>2. CASE call[c] \notin Launching
    <3>1. \A d \in Calls : call[d] \notin Launching
      BY <1>3, <2>2
    <3> QED
      BY <1>1, <1>2, <1>3, <3>1 DEF Standing
  <2> QED
    BY <2>1, <2>2
<1>4. ASSUME NEW d \in Calls, call'[d] \in {"tables", "routes", "uninstall"} PROVE Placed'
  BY <1>1, <1>4 DEF Standing
<1>5. ASSUME NEW d \in Calls, call'[d] = "sandbox" PROVE Linked'
  BY <1>1, <1>2, <1>5 DEF Standing
<1>6. ASSUME NEW d \in Calls, call'[d] \in Working PROVE ~launched'
  BY <1>2, <1>6 DEF Standing
<1> QED
  BY <1>3, <1>4, <1>5, <1>6 DEF Standing

\* A call that fails to launch the application, or stops it
LEMMA StandsStopped ==
  ASSUME IInv, Standing, NEW c \in Calls, UNCHANGED <<app, unpacked, link>>, launched' = FALSE,
         mishaps \subseteq mishaps',
         \A d \in Calls \ {c} : call'[d] = call[d],
         call'[c] \in {"idle", "remove"}
  PROVE  Standing'
BY DEF Standing, Placed, Linked, Stoppable, Happened

\* Only the writer of the directory changes it, and nobody else needs it then.
LEMMA WriterStanding ==
  ASSUME IInv, OneLaunch, Standing, NEW c \in Calls, call[c] \in Writing \ {"uninstall"},
         ~launched, launched' = launched,
         \A d \in Calls \ {c} : call'[d] = call[d],
         call'[c] \notin Launching \cup {"uninstall"}
  PROVE  Standing'
<1>1. call[c] \in Others
  BY WritingStages, StageSets
<1>2. \A d \in Calls : call'[d] \notin Launching
  BY <1>1 DEF OneLaunch
<1>3. \A d \in Calls \ {c} : call[d] # "uninstall"
  BY WritingStages DEF IInv, Apart
<1> QED
  BY <1>2, <1>3, StageSets DEF Standing

LEMMA StandingStepKeeps ==
  ASSUME IInv, LaunchApart, Filed, InPlace, NEW c \in Calls, Step(c),
         ~Happened("crossed")', ~Happened("stale")'
  PROVE  Standing'
<1> USE DEF Waits
<1>0. ~Happened("crossed") /\ ~Happened("stale") /\ OneLaunch /\ Standing
  BY StepMishapsStay DEF Happened, LaunchApart, InPlace
<1>a. app' = app /\ mishaps \subseteq mishaps'
  BY AppStays, StepMishapsStay DEF Next
<1>1. CASE \/ InstallCalled(c) \/ InstallBegins(c) \/ DownloadFails(c) \/ Installed(c)
           \/ DependenciesFail(c) \/ NothingToRemove(c) \/ RemoveBegins(c)
           \/ DropTables(c) \/ DropFails(c) \/ StopCalled(c)
  <2>1. /\ UNCHANGED <<link, launched>> /\ call[c] \notin Launching
        /\ \A d \in Calls \ {c} : call'[d] = call[d]
    BY <1>1, QuietSteps DEF QuietStep
  <2>2. unpacked' = unpacked
    BY <1>1 DEF InstallCalled, InstallBegins, DownloadFails, Installed, DependenciesFail,
       NothingToRemove, RemoveBegins, DropTables, DropFails, StopCalled, files
  <2>3. \/ \E stage \in {"idle", "install", "mkdir", "stop"} : Goes(c, stage)
        \/ /\ \E stage \in {"undo", "undo drop", "undo rmdir", "drop", "rmdir"} : Goes(c, stage)
           /\ call[c] \in {"dependencies", "undo", "undo drop", "remove", "drop"}
    BY <1>1 DEF InstallCalled, InstallBegins, DownloadFails, Installed, DependenciesFail,
       NothingToRemove, RemoveBegins, DropTables, DropFails, StopCalled, Removed, Idle
  <2>4. \/ call'[c] \in {"idle", "install", "mkdir", "stop"}
        \/ /\ call'[c] \in {"undo", "undo drop", "undo rmdir", "drop", "rmdir"}
           /\ call[c] \in {"dependencies", "undo", "undo drop", "remove", "drop"}
    BY <2>3, GoesTo
  <2>5. /\ call'[c] \in Working => call[c] \in Working
        /\ call'[c] \notin {"tables", "routes", "uninstall"} /\ call'[c] # "sandbox"
    BY <2>4, StageSets
  <2> QED
    BY <1>0, <1>a, <2>1, <2>2, <2>5, UndisturbedStanding
<1>2. CASE UninstallCalled(c)
  <2>1. /\ UNCHANGED <<link, launched>> /\ call[c] \notin Launching
        /\ \A d \in Calls \ {c} : call'[d] = call[d]
    BY <1>2, QuietSteps DEF QuietStep
  <2>2. unpacked' = unpacked /\ Goes(c, IF launched THEN "uninstall" ELSE "remove")
    BY <1>2 DEF UninstallCalled, files
  <2>3. Under(Launching) = {}
    BY <1>2 DEF UninstallCalled, Crossing, Happened
  <2>4. launched => Placed
    BY <1>0, <2>3 DEF Standing, Under
  <2>5. call'[c] = IF launched THEN "uninstall" ELSE "remove"
    BY <2>2, GoesTo
  <2>6. /\ call'[c] \in Working => ~launched
        /\ call'[c] \in {"tables", "routes", "uninstall"} => Placed
        /\ call'[c] # "sandbox"
    BY <2>4, <2>5, StageSets
  <2> QED
    BY <1>0, <1>a, <2>1, <2>2, <2>6, UndisturbedStanding
<1>3. CASE MakeDirectory(c)
  <2>1. call[c] = "mkdir" /\ UNCHANGED <<link, launched>>
    BY <1>3 DEF MakeDirectory
  <2>2. \A d \in Calls : call[d] \notin Launching
    BY <1>0, <2>1, StageSets DEF OneLaunch
  <2>3. CASE dir = "none"
    <3>1. ~launched
      BY <1>0, <2>2, <2>3 DEF Standing, Placed, Filed
    <3>2. Goes(c, "download")
      BY <1>3, <2>3 DEF MakeDirectory
    <3>3. call'[c] = "download" /\ \A d \in Calls \ {c} : call'[d] = call[d]
      BY <3>2, GoesTo
    <3>4. call[c] \in Writing \ {"uninstall"} /\ call'[c] \notin Launching \cup {"uninstall"}
      BY <2>1, <3>3, WritingStages, StageSets
    <3> QED
      BY <1>0, <2>1, <3>1, <3>3, <3>4, WriterStanding
  <2>4. CASE dir # "none"
    <3>1. Goes(c, Idle) /\ unpacked' = unpacked
      BY <1>3, <2>4 DEF MakeDirectory
    <3>2. call'[c] = Idle /\ \A d \in Calls \ {c} : call'[d] = call[d]
      BY <3>1, GoesTo
    <3>3. /\ call'[c] \notin Working /\ call'[c] \notin {"tables", "routes", "uninstall"}
          /\ call'[c] # "sandbox"
      BY <3>2, StageSets
    <3> QED
      BY <1>0, <1>a, <2>1, <2>2, <3>1, <3>2, <3>3, UndisturbedStanding
  <2> QED
    BY <2>3, <2>4
<1>4. CASE \/ Unpacks(c) \/ Downloaded(c) \/ RemoveDirectory(c)
           \/ RemoveDirectoryFails(c)
  <2>1. /\ UNCHANGED <<link, launched>>
        /\ call[c] \in {"download", "rmdir", "undo rmdir"}
        /\ Goes(c, "download") \/ Goes(c, "dependencies") \/ Goes(c, "idle")
    BY <1>4 DEF Unpacks, Downloaded, RemoveDirectory, RemoveDirectoryFails, Removed, Idle, flags
  <2>2. /\ call'[c] \in {"download", "dependencies", "idle"}
        /\ \A d \in Calls \ {c} : call'[d] = call[d]
    BY <2>1, GoesTo
  <2>3. ~launched
    BY <1>0, <2>1, StageSets DEF Standing
  <2>4. call[c] \in Writing \ {"uninstall"} /\ call'[c] \notin Launching \cup {"uninstall"}
    BY <2>1, <2>2, WritingStages, StageSets
  <2> QED
    BY <1>0, <2>1, <2>2, <2>3, <2>4, WriterStanding
<1>5. CASE LaunchCalled(c)
  <2>1. Goes(c, "installed") /\ UNCHANGED <<unpacked, link>> /\ launched' /\ Under(Others) = {}
    BY <1>5 DEF LaunchCalled, files, Crossing, Happened
  <2>2. call'[c] = "installed" /\ \A d \in Calls \ {c} : call'[d] = call[d]
    BY <2>1, GoesTo
  <2>3. \A d \in Calls : call[d] \notin Others
    BY <2>1 DEF Under
  <2>4. call'[c] \in Launching /\ \A d \in Calls : call'[d] \notin Working
    BY <2>2, <2>3, StageSets
  <2> QED
    BY <1>0, <1>a, <2>1, <2>2, <2>4 DEF Standing, Placed, Linked, Stoppable, Happened
<1>6. CASE LaunchInstalled(c) /\ dir # "none"
  <2>1. call[c] = "installed" /\ Goes(c, "symlink") /\ UNCHANGED <<unpacked, link, launched>>
    BY <1>6 DEF LaunchInstalled, files
  <2>2. call'[c] = "symlink" /\ \A d \in Calls \ {c} : call'[d] = call[d]
    BY <2>1, GoesTo
  <2>3. call'[c] \in Launching /\ call'[c] \notin Working
    BY <2>2, StageSets
  <2> QED
    BY <1>0, <1>a, <2>1, <2>2, <2>3, UndisturbedStanding
<1>7. CASE CreateSymlink(c)
  <2>1. /\ call[c] = "symlink" /\ Goes(c, "sandbox") /\ UNCHANGED <<unpacked, launched>>
        /\ link' = (link \/ "public" \in unpacked)
    BY <1>7 DEF CreateSymlink, flags
  <2>2. call'[c] = "sandbox" /\ \A d \in Calls \ {c} : call'[d] = call[d]
    BY <2>1, GoesTo
  <2>3. dir # "none" /\ \A d \in Calls : call[d] # "download"
    BY <1>0, <2>1, StageSets DEF OneLaunch
  <2>4. dir = "whole" \/ Happened("incomplete")
    BY <2>3 DEF Filed, IInv, TypeOK
  <2>5. Linked'
    <3>1. CASE Happened("incomplete")
      BY <1>a, <3>1 DEF Linked, Happened
    <3>2. CASE dir = "whole"
      BY <1>a, <2>1, <3>2 DEF Filed, Archive, Linked, Stoppable
    <3> QED
      BY <2>4, <3>1, <3>2
  <2>6. Placed => Placed'
    BY <2>1, <2>5 DEF Placed
  <2>7. call'[c] \in Launching /\ call'[c] \notin Working
    BY <2>2, StageSets
  <2> QED
    BY <1>0, <2>1, <2>2, <2>5, <2>6, <2>7 DEF Standing
<1>8. CASE CreateSandbox(c) /\ ~Goes(c, Idle)
  <2>1. /\ call[c] = "sandbox" /\ Readable /\ Goes(c, "tables")
        /\ UNCHANGED <<unpacked, link, launched>>
    BY <1>8 DEF CreateSandbox, NotLaunched
  <2>2. ~Remembered
    BY <1>8, <2>1 DEF CreateSandbox, Happened
  <2>3. Placed
    BY <1>0, <2>1, <2>2 DEF Standing, Remembered, Placed
  <2>4. call'[c] = "tables" /\ \A d \in Calls \ {c} : call'[d] = call[d]
    BY <2>1, GoesTo
  <2>5. call'[c] \in Launching /\ call'[c] \notin Working
    BY <2>4, StageSets
  <2> QED
    BY <1>0, <1>a, <2>1, <2>3, <2>4, <2>5, UndisturbedStanding
<1>9. CASE TablesCreated(c) \/ CreateRoutes(c)
  <2>1. /\ call[c] \in {"tables", "routes"} /\ UNCHANGED <<unpacked, link, launched>>
        /\ Goes(c, "routes") \/ Goes(c, "idle")
    BY <1>9 DEF TablesCreated, CreateRoutes, Idle, flags, files
  <2>2. Placed
    BY <1>0, <2>1 DEF Standing
  <2>3. call'[c] \in {"routes", "idle"} /\ \A d \in Calls \ {c} : call'[d] = call[d]
    BY <2>1, GoesTo
  <2>4. call'[c] \notin Working /\ call'[c] # "sandbox"
    BY <2>3, StageSets
  <2> QED
    BY <1>0, <1>a, <2>1, <2>2, <2>3, <2>4, UndisturbedStanding
<1>10. CASE \/ LaunchInstalled(c) /\ dir = "none"
            \/ CreateSandbox(c) /\ Goes(c, Idle)
            \/ TablesFail(c) \/ RoutesFail(c)
            \/ (UninstallStops(c) \/ Stops(c)) /\ Stoppable
  <2>1. UNCHANGED <<unpacked, link>>
    BY <1>10 DEF LaunchInstalled, CreateSandbox, TablesFail, RoutesFail, UninstallStops,
       Stops, files
  <2>2. launched' = FALSE /\ (Goes(c, "idle") \/ Goes(c, "remove"))
    <3>1. CASE CreateSandbox(c) /\ Goes(c, Idle)
      <4>1. call'[c] = "idle"
        BY <3>1, GoesTo DEF Idle
      <4>2. ~Goes(c, "tables")
        BY <4>1, GoesTo
      <4> QED
        BY <3>1, <4>2 DEF CreateSandbox, NotLaunched, Idle
    <3>2. CASE \/ LaunchInstalled(c) /\ dir = "none"
               \/ TablesFail(c) \/ RoutesFail(c)
               \/ (UninstallStops(c) \/ Stops(c)) /\ Stoppable
      BY <3>2 DEF LaunchInstalled, TablesFail, RoutesFail, UninstallStops, Stops,
         NotLaunched, Idle
    <3> QED
      BY <3>1, <3>2, <1>10
  <2>3. call'[c] \in {"idle", "remove"} /\ \A d \in Calls \ {c} : call'[d] = call[d]
    BY <2>2, GoesTo
  <2> QED
    BY <1>0, <1>a, <2>1, <2>2, <2>3, StandsStopped
<1>11. CASE (UninstallStops(c) \/ Stops(c)) /\ ~Stoppable
  <2>1. /\ UNCHANGED <<unpacked, link, launched>> /\ Goes(c, "idle")
        /\ call[c] \in {"uninstall", "stop"}
    BY <1>11 DEF UninstallStops, Stops, files, Idle
  <2>2. call'[c] = "idle" /\ \A d \in Calls \ {c} : call'[d] = call[d]
    BY <2>1, GoesTo
  <2>3. call'[c] \notin Working /\ call[c] \notin Launching
    BY <2>1, <2>2, StageSets
  <2> QED
    BY <1>0, <1>a, <2>1, <2>2, <2>3, UndisturbedStanding
<1>12. LaunchInstalled(c) \/ CreateSandbox(c) => Standing'
  BY <1>6, <1>8, <1>10
<1>13. UninstallStops(c) \/ Stops(c) => Standing'
  BY <1>10, <1>11
<1>14. TablesFail(c) \/ RoutesFail(c) => Standing'
  BY <1>10
<1>15. ASSUME \/ InstallCalled(c) \/ InstallBegins(c) \/ DownloadFails(c) \/ Installed(c)
              \/ DependenciesFail(c) \/ NothingToRemove(c) \/ RemoveBegins(c)
              \/ DropTables(c) \/ DropFails(c) \/ StopCalled(c)
       PROVE  Standing'
  BY <1>1, <1>15
<1> QED
  BY <1>2, <1>3, <1>4, <1>5, <1>7, <1>9, <1>12, <1>13, <1>14, <1>15 DEF Step

LEMMA InPlaceKeeps ==
  ASSUME IInv, PlaceInv, Next
  PROVE  InPlace'
<1> USE DEF PlaceInv, ProcessInv
<1>1. ASSUME NEW c \in Calls, Step(c) PROVE InPlace'
  BY <1>1, StandingStepKeeps DEF InPlace
<1>2. CASE Restart
  <2>1. /\ \A c \in Calls : call'[c] = "idle"
        /\ launched' = FALSE
    BY <1>2, StageSets DEF Restart
  <2> QED
    BY <2>1, StageSets DEF InPlace, Standing
<1>3. CASE Event
  <2>1. UNCHANGED <<app, call, unpacked, link, launched>>
    BY <1>3 DEF Event, SandboxExits, SetReady, OnExit, PostDappMessage,
       flags, files
  <2> QED
    BY <1>3, <2>1, EventMishapsStay DEF InPlace, Standing, Placed, Linked,
         Stoppable, Happened
<1> QED
  BY <1>1, <1>2, <1>3 DEF Next, Event

LEMMA StepHistory ==
  ASSUME NEW what, Happened(what), (\E c \in Calls : Step(c)) \/ Event
  PROVE  Happened(what)'
BY StepMishapsStay, EventMishapsStay DEF Happened

LEMMA ReadElsewhere ==
  ASSUME NEW c \in Calls, Step(c), ~CreateSandbox(c)
  PROVE  Happened("stale")' => Happened("stale")
<1> DEFINE Noted == "stale" \in mishaps' => "stale" \in mishaps
<1>1. \/ InstallCalled(c) \/ InstallBegins(c) \/ MakeDirectory(c) \/ Unpacks(c)
      \/ Downloaded(c) \/ DownloadFails(c) \/ Installed(c) \/ DependenciesFail(c)
      => Noted
  BY DEF Crossing, InstallCalled, InstallBegins, MakeDirectory, Unpacks, Downloaded,
     DownloadFails, Installed, DependenciesFail
<1>2. \/ UninstallCalled(c) \/ UninstallStops(c) \/ NothingToRemove(c) \/ RemoveBegins(c)
      \/ DropTables(c) \/ RemoveDirectory(c)
      => Noted
  <2>1. UninstallCalled(c) => mishaps' \in {mishaps, mishaps \cup {"crossed"}}
    BY DEF Crossing, UninstallCalled
  <2>2. \/ UninstallStops(c) \/ NothingToRemove(c) \/ RemoveBegins(c) \/ DropTables(c)
        \/ RemoveDirectory(c)
        => mishaps' = mishaps
    BY DEF UninstallStops, NothingToRemove, RemoveBegins, DropTables, RemoveDirectory
  <2> QED
    BY <2>1, <2>2
<1>3. DropFails(c) \/ RemoveDirectoryFails(c) => Noted
  <2>1. DropFails(c) => mishaps' = mishaps \cup {"failed"}
    BY DEF DropFails
  <2>2. RemoveDirectoryFails(c) =>
          mishaps' \in {mishaps \cup {"failed"}, mishaps \cup {"failed", "incomplete"}}
    BY DEF RemoveDirectoryFails
  <2> QED
    BY <2>1, <2>2
<1>4. \/ LaunchCalled(c) \/ LaunchInstalled(c) \/ CreateSymlink(c) \/ TablesCreated(c)
      \/ TablesFail(c) \/ CreateRoutes(c)
      => Noted
  BY DEF Crossing, LaunchCalled, LaunchInstalled, CreateSymlink, TablesCreated, TablesFail,
     CreateRoutes
<1>5. RoutesFail(c) \/ StopCalled(c) \/ Stops(c) => Noted
  BY DEF Crossing, RoutesFail, StopCalled, Stops
<1> QED
  BY <1>1, <1>2, <1>3, <1>4, <1>5 DEF Step, Happened

LEMMA MemoryKeeps ==
  ASSUME IInv, PlaceInv, Next
  PROVE  Memory'
<1>1. ASSUME NEW c \in Calls, Step(c), Happened("stale")', ~Happened("crossed")'
      PROVE  Happened("incomplete")'
  <2>1. CASE Happened("stale")
    BY <1>1, <2>1, StepHistory DEF PlaceInv, Memory
  <2>2. CASE ~Happened("stale")
    <3>1. CreateSandbox(c) /\ Remembered
      <4>1. CreateSandbox(c)
        BY <1>1, <2>2, ReadElsewhere
      <4> QED
        BY <1>1, <2>2, <4>1 DEF CreateSandbox, Happened
    <3>2. dir # "none" /\ \A d \in Calls : call[d] # "download"
      <4>1. ~Happened("crossed")
        BY <1>1, StepHistory
      <4>2. OneLaunch
        BY <4>1 DEF PlaceInv, ProcessInv, LaunchApart
      <4>3. call[c] \in Launching \ {"installed"}
        BY <3>1, StageSets DEF CreateSandbox, Waits
      <4> QED
        BY <4>2, <4>3, StageSets DEF OneLaunch
    <3>3. dir # "whole"
      BY <3>1 DEF PlaceInv, Filed, Archive, Remembered
    <3>4. Happened("incomplete")
      BY <3>2, <3>3 DEF PlaceInv, Filed, IInv, TypeOK
    <3> QED
      BY <1>1, <3>4, StepHistory
  <2> QED
    BY <2>1, <2>2
<1>2. CASE Restart
  <2>1. "stale" \notin mishaps'
    BY <1>2 DEF Restart
  <2> QED
    BY <2>1 DEF Memory, Happened
<1>3. ASSUME Event, Happened("stale")'
      PROVE  (Happened("crossed") \/ Happened("incomplete"))'
  <2>0. mishaps' \in {mishaps, mishaps \cup {"exited"}, mishaps \cup {"late"}}
    BY <1>3 DEF Event, SandboxExits, SetReady, OnExit, PostDappMessage
  <2>1. Happened("stale")
    BY <1>3, <2>0 DEF Happened
  <2> QED
    BY <1>3, <2>1, StepHistory DEF PlaceInv, Memory
<1> QED
  BY <1>1, <1>2, <1>3 DEF Next, Event, Memory

-----------------------------------------------------------------------------
(***************************************************************************)
(* Which sandbox is registered.  An application with a public directory    *)
(* can be stopped wherever it is registered and its directory is there as  *)
(* a whole, so that nobody leaves a sandbox registered behind.             *)
(***************************************************************************)
Undisturbed ==
  app.public /\ ~Happened("crossed") /\ ~Happened("incomplete")

Registered ==
  /\ sandbox # 0 => launched
  /\ \A c \in Calls : call[c] \in Opening => sandbox = 0
  /\ sandbox \in {0} \cup running \cup exited

Reached == Undisturbed => Registered

\* Where something is registered it can be stopped.
LEMMA CanStop ==
  ASSUME IInv, Standing, app.public, ~Happened("incomplete"),
         \/ Registered /\ sandbox # 0
         \/ \E c \in Calls : call[c] \in {"routes", "uninstall"}
  PROVE  Stoppable
<1>1. CASE \E c \in Calls : call[c] \in {"routes", "uninstall"}
  BY <1>1 DEF Standing, Placed, Linked
<1>2. CASE /\ Registered /\ sandbox # 0
           /\ ~ \E c \in Calls : call[c] \in {"routes", "uninstall"}
  <2>1. launched /\ \A c \in Calls : call[c] \notin Launching
    BY <1>2, StageSets DEF Registered
  <2> QED
    BY <2>1 DEF Standing, Placed, Linked
<1> QED
  BY <1>1, <1>2

LEMMA ReachedStepKeeps ==
  ASSUME IInv, PlaceInv, Reached, NEW c \in Calls, Step(c), Undisturbed'
  PROVE  Registered'
<1> USE DEF Waits
<1>1. app' = app /\ app.public
  BY AppStays DEF Next, Undisturbed
<1>2. ~Happened("crossed") /\ ~Happened("stale") /\ ~Happened("incomplete")
  BY StepHistory DEF Undisturbed, PlaceInv, Memory
<1>3. OneLaunch /\ Standing /\ Registered
  BY <1>1, <1>2 DEF PlaceInv, ProcessInv, LaunchApart, InPlace, Reached, Undisturbed
<1>4. CASE QuietStep(c)
  <2>1. /\ UNCHANGED <<sandbox, running, exited, launched>>
        /\ \A d \in Calls : call'[d] \in Opening => call[d] \in Opening
    BY <1>4, QuietSteps, StageSets
  <2> QED
    BY <1>3, <2>1 DEF Registered
<1>5. CASE LaunchCalled(c)
  <2>1. UNCHANGED <<sandbox, running, exited>> /\ ~launched
    BY <1>5 DEF LaunchCalled, boxes
  <2>2. sandbox' = 0
    BY <1>3, <2>1 DEF Registered
  <2> QED
    BY <2>2 DEF Registered
<1>6. CASE LaunchInstalled(c) \/ CreateSymlink(c) \/ CreateSandbox(c) \/ TablesFail(c)
  <2>1. UNCHANGED <<sandbox, running, exited>> /\ call[c] \in Opening
    BY <1>6, StageSets DEF LaunchInstalled, CreateSymlink, CreateSandbox, TablesFail, boxes
  <2>2. sandbox' = 0
    BY <1>3, <2>1 DEF Registered
  <2> QED
    BY <2>2 DEF Registered
<1>7. CASE TablesCreated(c)
  <2>1. /\ sandbox' = made + 1 /\ running' = running \cup {made + 1}
        /\ launched' = launched /\ call[c] = "tables" /\ call'[c] = "routes"
        /\ \A d \in Calls \ {c} : call'[d] = call[d]
    BY <1>7, GoesTo DEF TablesCreated, flags
  <2>2. launched /\ \A d \in Calls \ {c} : call[d] \notin Launching
    BY <1>3, <2>1, StageSets DEF OneLaunch
  <2>3. \A d \in Calls : call'[d] \notin Opening
    BY <2>1, <2>2, StageSets
  <2> QED
    BY <2>1, <2>2, <2>3 DEF Registered
<1>8. CASE CreateRoutes(c)
  <2>1. /\ UNCHANGED <<sandbox, running, exited, launched>> /\ Goes(c, Idle)
    BY <1>8 DEF CreateRoutes, flags, boxes
  <2>2. call'[c] = Idle /\ \A d \in Calls \ {c} : call'[d] = call[d]
    BY <2>1, GoesTo
  <2> QED
    BY <1>3, <2>1, <2>2, StageSets DEF Registered
<1>9. CASE RoutesFail(c) \/ UninstallStops(c)
  <2>1. call[c] \in {"routes", "uninstall"}
    BY <1>9 DEF RoutesFail, UninstallStops
  <2>2. Stoppable
    BY <1>1, <1>2, <1>3, <2>1, CanStop
  <2>3. sandbox' = 0
    BY <1>9, <2>2 DEF RoutesFail, UninstallStops, StopDApp
  <2> QED
    BY <2>3 DEF Registered
<1>10. CASE Stops(c)
  <2>1. CASE Stoppable
    <3>1. sandbox' = 0
      BY <1>10, <2>1 DEF Stops, StopDApp
    <3> QED
      BY <3>1 DEF Registered
  <2>2. CASE ~Stoppable
    <3>1. UNCHANGED <<sandbox, running, exited, launched>> /\ Goes(c, Idle)
      BY <1>10, <2>2 DEF Stops
    <3>2. call'[c] = Idle /\ \A d \in Calls \ {c} : call'[d] = call[d]
      BY <3>1, GoesTo
    <3> QED
      BY <1>3, <3>1, <3>2, StageSets DEF Registered
  <2> QED
    BY <2>1, <2>2
<1> QED
  BY <1>4, <1>5, <1>6, <1>7, <1>8, <1>9, <1>10 DEF Step, QuietStep

LEMMA ReachedKeeps ==
  ASSUME IInv, PlaceInv, Reached, Next
  PROVE  Reached'
<1>1. ASSUME NEW c \in Calls, Step(c) PROVE Reached'
  BY <1>1, ReachedStepKeeps DEF Reached
<1>2. CASE Restart
  <2>1. sandbox' = 0
    BY <1>2 DEF Restart
  <2> QED
    BY <2>1 DEF Reached, Registered
<1>3. ASSUME Event, Undisturbed' PROVE Registered'
  <2>1. UNCHANGED <<app, call, launched>>
    BY <1>3, EventsAside, AppStays DEF Event, SandboxExits, SetReady, OnExit,
       PostDappMessage, flags
  <2>2. ~Happened("crossed") /\ ~Happened("stale") /\ ~Happened("incomplete") /\ app.public
    BY <1>3, <2>1, StepHistory DEF Undisturbed, PlaceInv, Memory
  <2>3. Standing /\ Registered
    BY <2>2 DEF PlaceInv, InPlace, Reached, Undisturbed
  <2>4. CASE \E s \in running : SandboxExits(s)
    <3>1. sandbox' = sandbox /\ running' \cup exited' = running \cup exited
      BY <2>4 DEF SandboxExits
    <3> QED
      BY <2>1, <2>3, <3>1 DEF Registered
  <2>5. ASSUME NEW s \in exited, OnExit(s) PROVE Registered'
    <3>1. CASE Stoppable
      <4>1. sandbox' = 0
        BY <2>5, <3>1 DEF OnExit, StopDApp
      <4> QED
        BY <4>1 DEF Registered
    <3>2. CASE ~Stoppable
      <4>1. sandbox' = sandbox /\ running' = running /\ exited' = exited \ {s}
        BY <2>5, <3>2 DEF OnExit
      <4>2. sandbox = 0
        BY <2>2, <2>3, <3>2, CanStop
      <4> QED
        BY <4>1, <4>2 DEF Registered
    <3> QED
      BY <3>1, <3>2
  <2>6. CASE \/ \E s \in running : SetReady(s)
             \/ PostDappMessage
    <3>1. UNCHANGED <<sandbox, running, exited>>
      BY <2>6 DEF SetReady, PostDappMessage, boxes
    <3> QED
      BY <2>1, <2>3, <3>1 DEF Registered
  <2> QED
    BY <1>3, <2>4, <2>5, <2>6 DEF Event
<1> QED
  BY <1>1, <1>2, <1>3 DEF Next, Event, Reached

-----------------------------------------------------------------------------
(* Who holds the flags                                                     *)

LoadingHeld == loading => \E c \in Calls : call[c] \in Loaders
UninstallingHeld == Undisturbed /\ uninstalling => \E c \in Calls : call[c] \in Removers

LEMMA HeldKeeps ==
  ASSUME IInv, PlaceInv, LoadingHeld, UninstallingHeld, Next
  PROVE  (LoadingHeld /\ UninstallingHeld)'
<1>1. ASSUME NEW c \in Calls, Step(c) PROVE (LoadingHeld /\ UninstallingHeld)'
  <2> USE <1>1
  <2>1. LoadingHeld'
    BY FlagSteps DEF LoadingHeld
  <2>2. ASSUME Undisturbed', uninstalling' PROVE \E d \in Calls : call'[d] \in Removers
    <3>1. app' = app /\ ~Happened("crossed") /\ ~Happened("stale") /\ ~Happened("incomplete")
      BY <2>2, StepHistory, AppStays DEF Undisturbed, Next, PlaceInv, Memory
    <3>2. Undisturbed /\ Standing
      BY <2>2, <3>1 DEF Undisturbed, PlaceInv, InPlace
    <3>3. ~(call[c] = "uninstall" /\ ~Stoppable)
      BY <3>2, CanStop DEF Undisturbed
    <3> QED
      BY <2>2, <3>2, <3>3, FlagSteps DEF UninstallingHeld
  <2> QED
    BY <2>1, <2>2 DEF UninstallingHeld
<1>2. CASE Restart
  BY <1>2 DEF Restart, LoadingHeld, UninstallingHeld
<1>3. CASE Event
  <2>1. UNCHANGED <<app, call, loading, uninstalling>>
    BY <1>3, EventsAside, AppStays DEF Next, Event
  <2>2. Undisturbed' => Undisturbed
    BY <1>3, <2>1, StepHistory DEF Undisturbed
  <2> QED
    BY <2>1, <2>2 DEF LoadingHeld, UninstallingHeld
<1> QED
  BY <1>1, <1>2, <1>3 DEF Next, Event

-----------------------------------------------------------------------------
(***************************************************************************)
(* The tables.  Where none of the excuses has happened they exist only     *)
(* while the process that made them knows their types, and so are dropped  *)
(* before the directory is removed.                                        *)
(***************************************************************************)
Known ==
  /\ tables => blockchain = "made"
  /\ \A c \in Calls : call[c] = "tables" /\ app.tables => blockchain = "made"
  /\ \A c \in Calls : call[c] \in {"rmdir", "undo rmdir"} => ~tables
  /\ dir = "none" => ~tables

TablesKnown ==
  \/ Happened("failed") \/ Happened("twice") \/ Happened("crossed") \/ Happened("restarted")
  \/ Known

\* A call that does not turn to the tables and leaves them and the types alone
LEMMA KnownStays ==
  ASSUME Known, NEW c \in Calls, UNCHANGED <<app, tables, blockchain>>,
         \A d \in Calls \ {c} : call'[d] = call[d],
         call'[c] \notin {"tables", "rmdir", "undo rmdir"},
         dir' = "none" => dir = "none" \/ ~tables
  PROVE  Known'
BY DEF Known

LEMMA KnownStepKeeps ==
  ASSUME IInv, LaunchApart, Known, NEW c \in Calls, Step(c), ~Happened("crossed")',
         ~Happened("failed")', ~Happened("twice")'
  PROVE  Known'
<1> USE DEF Waits
<1>1. app' = app
  BY AppStays DEF Next
<1>2. OneLaunch
  BY StepHistory DEF LaunchApart
<1>3. CASE \/ InstallCalled(c) \/ InstallBegins(c) \/ MakeDirectory(c)
           \/ Unpacks(c) \/ Downloaded(c) \/ DownloadFails(c) \/ Installed(c)
           \/ DependenciesFail(c) \/ UninstallCalled(c) \/ UninstallStops(c) \/ NothingToRemove(c)
  <2>1. UNCHANGED <<tables, blockchain>> /\ (dir' = "none" => dir = "none")
    BY <1>3 DEF InstallCalled, InstallBegins, MakeDirectory, Unpacks, Downloaded,
       DownloadFails, Installed, DependenciesFail, UninstallCalled, UninstallStops,
       NothingToRemove, files
  <2>2. \E stage \in {"idle", "install", "mkdir", "download", "dependencies", "undo",
                     "uninstall", "remove"} : Goes(c, stage)
    BY <1>3 DEF InstallCalled, InstallBegins, MakeDirectory, Unpacks, Downloaded,
       DownloadFails, Installed, DependenciesFail, UninstallCalled, UninstallStops,
       NothingToRemove,
       Removed, Idle
  <2>3. /\ call'[c] \notin {"tables", "rmdir", "undo rmdir"}
        /\ \A d \in Calls \ {c} : call'[d] = call[d]
    BY <2>2, GoesTo
  <2> QED
    BY <1>1, <2>1, <2>3, KnownStays
<1>4. CASE \/ LaunchCalled(c) \/ LaunchInstalled(c) \/ CreateSymlink(c) \/ CreateRoutes(c)
           \/ RoutesFail(c) \/ StopCalled(c) \/ Stops(c)
  <2>1. UNCHANGED <<tables, blockchain, dir>>
    BY <1>4 DEF LaunchCalled, LaunchInstalled, CreateSymlink, CreateRoutes, RoutesFail,
       StopCalled, Stops, files
  <2>2. \E stage \in {"idle", "installed", "symlink", "sandbox", "stop"} : Goes(c, stage)
    BY <1>4 DEF LaunchCalled, LaunchInstalled, CreateSymlink, CreateRoutes, RoutesFail,
       StopCalled, Stops, NotLaunched, Idle
  <2>3. /\ call'[c] \notin {"tables", "rmdir", "undo rmdir"}
        /\ \A d \in Calls \ {c} : call'[d] = call[d]
    BY <2>2, GoesTo
  <2> QED
    BY <1>1, <2>1, <2>3, KnownStays
<1>5. CASE RemoveBegins(c)
  <2>1. UNCHANGED <<tables, dir>> /\ blockchain' = Reads
    BY <1>5 DEF RemoveBegins, files
  <2>2. blockchain = "made" => blockchain' = "made"
    BY <2>1 DEF Reads
  <2>3. \/ blockchain' = "unread" /\ (Goes(c, "undo rmdir") \/ Goes(c, "rmdir"))
        \/ Goes(c, "undo drop") \/ Goes(c, "drop")
    BY <1>5 DEF RemoveBegins
  <2>4. /\ \A d \in Calls \ {c} : call'[d] = call[d]
        /\ \/ call'[c] \in {"undo rmdir", "rmdir"} /\ blockchain' = "unread"
           \/ call'[c] \in {"undo drop", "drop"}
    BY <2>3, GoesTo
  <2> QED
    BY <1>1, <2>1, <2>2, <2>4 DEF Known
<1>6. CASE DropTables(c)
  <2>1. /\ UNCHANGED <<blockchain, dir>> /\ tables' = FALSE
    BY <1>6 DEF DropTables, files, Known
  <2>2. Goes(c, "rmdir") \/ Goes(c, "undo rmdir")
    BY <1>6 DEF DropTables
  <2>3. call'[c] \in {"rmdir", "undo rmdir"} /\ \A d \in Calls \ {c} : call'[d] = call[d]
    BY <2>2, GoesTo
  <2> QED
    BY <1>1, <2>1, <2>3 DEF Known
<1>7. CASE RemoveDirectory(c)
  <2>1. /\ UNCHANGED <<blockchain, tables>> /\ Goes(c, Idle)
        /\ call[c] \in {"rmdir", "undo rmdir"}
    BY <1>7 DEF RemoveDirectory, Removed
  <2>2. call'[c] = "idle" /\ \A d \in Calls \ {c} : call'[d] = call[d]
    BY <2>1, GoesTo DEF Idle
  <2>3. ~tables
    BY <2>1 DEF Known
  <2> QED
    BY <1>1, <2>1, <2>2, <2>3, KnownStays
<1>8. CASE CreateSandbox(c)
  <2>1. UNCHANGED <<tables, dir>> /\ call[c] = "sandbox"
    BY <1>8 DEF CreateSandbox
  <2>2. \A d \in Calls \ {c} : call[d] \notin Launching
    BY <1>2, <2>1, StageSets DEF OneLaunch
  <2>3. CASE ~Readable
    <3>1. blockchain' = blockchain /\ Goes(c, "idle")
      BY <1>8, <2>3 DEF CreateSandbox, NotLaunched, Idle
    <3>2. call'[c] = "idle" /\ \A d \in Calls \ {c} : call'[d] = call[d]
      BY <3>1, GoesTo
    <3> QED
      BY <1>1, <2>1, <3>1, <3>2, KnownStays
  <2>4. CASE Readable
    <3>1. blockchain \in {"unread", "read"}
      BY <1>8, <2>4 DEF CreateSandbox, Happened
    <3>2. ~tables
      BY <3>1 DEF Known
    <3>3. blockchain' = Prepared /\ (Goes(c, "idle") \/ Goes(c, "tables"))
      BY <1>8, <2>4 DEF CreateSandbox, NotLaunched, Idle
    <3>4. app.tables => blockchain' = "made"
      BY <2>4, <3>1, <3>3 DEF Prepared, Reads, Readable
    <3>5. call'[c] \in {"idle", "tables"} /\ \A d \in Calls \ {c} : call'[d] = call[d]
      BY <3>3, GoesTo
    <3> QED
      BY <1>1, <2>1, <3>2, <3>4, <3>5 DEF Known
  <2> QED
    BY <2>3, <2>4
<1>9. CASE TablesCreated(c)
  <2>1. /\ UNCHANGED <<blockchain, dir>> /\ tables' = (tables \/ app.tables)
        /\ call[c] = "tables" /\ Goes(c, "routes")
    BY <1>9 DEF TablesCreated, files
  <2>2. call'[c] = "routes" /\ \A d \in Calls \ {c} : call'[d] = call[d]
    BY <2>1, GoesTo
  <2>3. dir # "none" /\ \A d \in Calls : call[d] \notin Others
    BY <1>2, <2>1, StageSets DEF OneLaunch
  <2>4. \A d \in Calls : call'[d] \notin {"rmdir", "undo rmdir"}
    BY <2>2, <2>3, StageSets
  <2>5. tables' => blockchain' = "made"
    BY <2>1 DEF Known
  <2>6. \A d \in Calls : call'[d] = "tables" /\ app.tables => blockchain' = "made"
    BY <2>1, <2>2 DEF Known
  <2> QED
    BY <1>1, <2>1, <2>3, <2>4, <2>5, <2>6 DEF Known
<1>10. ~DropFails(c) /\ ~RemoveDirectoryFails(c) /\ ~TablesFail(c)
  BY DEF DropFails, RemoveDirectoryFails, TablesFail, Happened
<1> QED
  BY <1>3, <1>4, <1>5, <1>6, <1>7, <1>8, <1>9, <1>10 DEF Step

LEMMA TablesKnownKeeps ==
  ASSUME IInv, LaunchApart, TablesKnown, Next
  PROVE  TablesKnown'
<1>1. ASSUME NEW c \in Calls, Step(c) PROVE TablesKnown'
  BY <1>1, KnownStepKeeps, StepHistory DEF TablesKnown
<1>2. CASE Restart
  <2>1. /\ \A c \in Calls : call'[c] = "idle"
        /\ tables' = tables
        /\ tables => Happened("restarted")'
    BY <1>2, StageSets DEF Restart, Happened
  <2> QED
    BY <2>1 DEF TablesKnown, Known
<1>3. CASE Event
  <2>1. UNCHANGED <<app, call, dir, tables, blockchain>>
    BY <1>3, EventsAside, AppStays DEF Event, SandboxExits, SetReady, OnExit,
       PostDappMessage
  <2> QED
    BY <1>3, <2>1, StepHistory DEF TablesKnown, Known
<1> QED
  BY <1>1, <1>2, <1>3 DEF Next, Event

-----------------------------------------------------------------------------
(* What the properties follow from                                         *)

Strong ==
  /\ IInv /\ PlaceInv /\ Reached /\ LoadingHeld /\ UninstallingHeld /\ TablesKnown

LEMMA InitStrong == Init => Strong
<1> SUFFICES ASSUME Init PROVE Strong
  OBVIOUS
<1>1. \A c \in Calls : call[c] = "idle"
  BY StageSets DEF Init
<1>2. /\ ~launched /\ running = {} /\ exited = {} /\ sandbox = 0 /\ ~config
      /\ ~loading /\ ~uninstalling /\ ~tables /\ mishaps = {}
  BY DEF Init
<1>3. IInv
  BY InitIInv
<1>4. LaunchApart /\ Processes /\ LaunchedRuns /\ Ended
  BY <1>1, <1>2, StageSets DEF LaunchApart, OneLaunch, Processes, NoneYet, OnlyOne,
     LaunchedRuns, Ended
<1>5. Filed /\ InPlace /\ Memory
  BY <1>1, <1>2, StageSets DEF Init, Filed, InPlace, Standing, Memory, Happened
<1>6. Reached /\ LoadingHeld /\ UninstallingHeld /\ TablesKnown
  BY <1>1, <1>2 DEF Reached, Registered, LoadingHeld, UninstallingHeld, TablesKnown, Known
<1> QED
  BY <1>3, <1>4, <1>5, <1>6 DEF Strong, PlaceInv, ProcessInv

LEMMA NextStrong == Strong /\ [Next]_vars => Strong'
<1> SUFFICES ASSUME Strong, [Next]_vars PROVE Strong'
  OBVIOUS
<1>1. CASE Next
  <2>1. IInv' /\ ProcessInv'
    BY <1>1, NextIInv, ProcessKeeps DEF Strong, PlaceInv
  <2>2. Filed' /\ InPlace' /\ Memory'
    BY <1>1, FiledKeeps, InPlaceKeeps, MemoryKeeps DEF Strong, PlaceInv
  <2>3. Reached' /\ (LoadingHeld /\ UninstallingHeld)'
    BY <1>1, ReachedKeeps, HeldKeeps DEF Strong
  <2>4. TablesKnown'
    BY <1>1, TablesKnownKeeps DEF Strong, PlaceInv, ProcessInv
  <2> QED
    BY <2>1, <2>2, <2>3, <2>4 DEF Strong, PlaceInv
<1>2. CASE UNCHANGED vars
  <2>1. IInv'
    BY <1>2, StutterIInv DEF Strong
  <2>2. UNCHANGED <<app, call, dir, unpacked, link, tables, blockchain, loading,
                    uninstalling, launched, sandbox, running, exited, mishaps>>
    BY <1>2 DEF vars
  <2>3. (LaunchApart /\ Processes /\ LaunchedRuns /\ Ended)'
    BY <2>2 DEF Strong, PlaceInv, ProcessInv, LaunchApart, OneLaunch, Processes, NoneYet,
       OnlyOne, LaunchedRuns, Ended, Happened
  <2>4. (Filed /\ InPlace /\ Memory)'
    BY <2>2 DEF Strong, PlaceInv, Filed, Archive, InPlace, Standing, Placed, Linked,
       Stoppable, Memory, Happened
  <2>5. (Reached /\ LoadingHeld /\ UninstallingHeld /\ TablesKnown)'
    BY <2>2 DEF Strong, Reached, Registered, Undisturbed, LoadingHeld, UninstallingHeld,
       TablesKnown, Known, Happened
  <2> QED
    BY <2>1, <2>3, <2>4, <2>5 DEF Strong, PlaceInv, ProcessInv
<1> QED
  BY <1>1, <1>2

LEMMA StrongHolds == Spec => []Strong
  BY InitStrong, NextStrong, PTL DEF Spec

(***************************************************************************)
(* However calls, events and failures follow one another, a flag that is   *)
(* set has a holder: a call that will clear it, or, for `launched', the    *)
(* process that runs.  Where it has none one of the ways the code loses it *)
(* has been taken.                                                         *)
(***************************************************************************)
THEOREM FlagsAreHeld == Spec => []FlagsHeld
<1>1. ASSUME Strong PROVE FlagsHeld
  <2>1. loading => Under(Installing \ {"install"}) # {}
    BY <1>1 DEF Strong, LoadingHeld, Loaders, Under
  <2>2. uninstalling =>
          \/ Under(Removing \cup Undoing \cup {"uninstall"}) # {}
          \/ ~app.public \/ Excepts({"crossed", "incomplete"})
    BY <1>1 DEF Strong, UninstallingHeld, Undisturbed, Removers, Under, Excepts, Happened
  <2>3. launched =>
          \/ Under(Launching) # {} \/ running # {}
          \/ Excepts({"exited", "late"})
    BY <1>1, StageSets DEF Strong, PlaceInv, ProcessInv, LaunchedRuns, Under, Excepts, Happened
  <2> QED
    BY <2>1, <2>2, <2>3 DEF FlagsHeld
<1> QED
  BY <1>1, StrongHolds, PTL

(***************************************************************************)
(* One process of the application at most runs, the registered one, to     *)
(* which messages go, one message once.                                    *)
(***************************************************************************)
THEOREM SandboxAlone == Spec => []SandboxOK
<1>1. ASSUME Strong, HandedOnce PROVE SandboxOK
  <2>1. OneSandbox
    BY <1>1 DEF Strong, PlaceInv, ProcessInv, Processes, OnlyOne, OneSandbox, Excepts, Happened
  <2>2. MessagesReach
    BY <1>1 DEF Strong, Reached, Registered, Undisturbed, MessagesReach, Excepts, Happened
  <2> QED
    BY <1>1, <2>1, <2>2 DEF SandboxOK
<1> QED
  BY <1>1, StrongHolds, MessageHandedOnce, PTL

(***************************************************************************)
(* An application whose process runs is installed, all of it or the part   *)
(* that an installation or a removal cut short has left, with the files    *)
(* that launching reads; and one that is not installed has no tables,      *)
(* outside of what the two invariants except.                              *)
(***************************************************************************)
THEOREM RunsWhatIsInstalled == Spec => []InstalledOnly
<1>1. ASSUME Strong PROVE InstalledOnly
  <2>1. ASSUME running # {}, ~Excepts({"crossed", "stale", "unstopped"})
        PROVE  /\ {"config", "blockchain"} \subseteq unpacked
               /\ dir = "whole" \/ Excepts({"incomplete"})
    <3>1. ~Happened("crossed") /\ ~Happened("stale") /\ ~Happened("unstopped")
      BY <2>1 DEF Excepts, Happened
    <3>2. NoneYet /\ OnlyOne /\ Standing /\ OneLaunch /\ Filed
      BY <1>1, <3>1 DEF Strong, PlaceInv, ProcessInv, LaunchApart, Processes, InPlace
    <3>3. launched /\ \A c \in Calls : call[c] \notin Opening
      BY <2>1, <3>2 DEF NoneYet, OnlyOne
    <3>4. (\A c \in Calls : call[c] \notin Launching) \/ \E c \in Calls : call[c] = "routes"
      BY <3>3, StageSets
    <3>5. Placed
      BY <3>2, <3>3, <3>4 DEF Standing
    <3>6. \A c \in Calls : call[c] # "download"
      BY <3>2, <3>3, StageSets DEF Standing
    <3>7. dir # "none"
      BY <3>2, <3>5 DEF Filed, Placed
    <3>8. dir = "whole" \/ Happened("incomplete")
      BY <1>1, <3>2, <3>6, <3>7 DEF Filed, Strong, IInv, TypeOK
    <3> QED
      BY <3>5, <3>8 DEF Placed, Excepts, Happened
  <2>2. TablesGone
    BY <1>1 DEF Strong, TablesKnown, Known, TablesGone, Excepts, Happened
  <2> QED
    BY <2>1, <2>2 DEF InstalledOnly, RunsInstalled
<1> QED
  BY <1>1, StrongHolds, PTL

=============================================================================
