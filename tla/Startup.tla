------------------------------- MODULE Startup -------------------------------
(***************************************************************************)
(* Start-up and shutdown of the program: async_main of src/src/main.rs and *)
(* the sidecar functions of src/src/xray.rs.  Each run of the program is a *)
(* process; runs follow each other or overlap, fail, and are killed, and   *)
(* what one leaves in the temp directory or running is what the next one   *)
(* finds.                                                                  *)
(*                                                                         *)
(* External: the file system, where creating a file and filling it are two *)
(* steps; the Xray process, which opens its configuration some time after  *)
(* it was spawned; and the port 10808 that Xray needs.                     *)
(***************************************************************************)
CONSTANTS
  Runs,       \* the runs of the program
  Nodes,      \* the nodes of the API's list
  Plain,      \* the nodes whose config_url is empty
  Garbled,    \* the nodes whose config_url does not parse
  Answers,    \* the lists of nodes the API may answer with
  NoAnswer,   \* no answer, one that is not a success, or one that is no list
  Defaults,   \* default_nodes
  Embedding,  \* the runs of a build with the feature embed_xray
  NoNode,     \* no node is selected; no configuration is on disk
  Faults      \* what may go wrong: a subset of AllFaults

\* "start": the menu, the interface or the name of the server fails.
\* "kill": a run is ended from outside, or by Ctrl+C before it is waited for.
\* "write": a file cannot be created or filled.  "bind": port 40443 is taken by
\* another program.  "injector": WinDivert cannot be opened.  "overlap": a run
\* is started while another one is under way.
AllFaults == {"start", "kill", "write", "bind", "injector", "overlap"}

ASSUME StartupAssumption ==
  /\ Plain \subseteq Nodes /\ Garbled \subseteq Nodes \ Plain
  /\ Answers \subseteq SUBSET Nodes /\ NoAnswer \notin Answers
  /\ Defaults \subseteq Plain
  /\ Embedding \subseteq Runs
  /\ NoNode \notin Nodes /\ "partial" \notin Nodes \cup {NoNode}
  /\ Faults \subseteq AllFaults

VARIABLES
  pc,        \* where each run is
  menu,      \* the nodes it lets the user choose from
  node,      \* the node it selected
  injector,  \* its injector thread
  sidecar,   \* the Xray process it spawned
  loaded,    \* the configuration that process has read
  exe,       \* xray.exe in the temp directory
  config,    \* config.json there: the node it was written for, or "partial"
  listener   \* the runs that listen on port 40443

vars == <<pc, menu, node, injector, sidecar, loaded, exe, config, listener>>
files == <<exe, config>>
xray == <<sidecar, loaded>>
choice == <<menu, node>>

Init ==
  /\ pc = [r \in Runs |-> "off"]
  /\ menu = [r \in Runs |-> {}]
  /\ node = [r \in Runs |-> NoNode]
  /\ injector = [r \in Runs |-> "none"]
  /\ sidecar = [r \in Runs |-> "none"]
  /\ loaded = [r \in Runs |-> NoNode]
  /\ exe = "none" /\ config = NoNode
  /\ listener = {}

Goto(r, l) == pc' = [pc EXCEPT ![r] = l]

Alive(r) == pc[r] \notin {"off", "stopped", "exited"}

\* A spawned process, whoever spawned it and whether that still runs.
Running(r) == sidecar[r] \in {"spawned", "up"}

\* The process of a run ends: its threads and sockets go, its children stay.
Ends(r, l) ==
  /\ Goto(r, l)
  /\ listener' = listener \ {r}
  /\ injector' = [injector EXCEPT ![r] = "none"]

-----------------------------------------------------------------------------
(* async_main.                                                             *)

\* fetch_nodes_with_fallback: after any failure the default nodes are offered, and
\* an empty list is one.
Offered(answer) == IF answer \in {NoAnswer, {}} THEN Defaults ELSE answer

FetchNodes(r, answer) ==
  /\ pc[r] = "off"
  /\ "overlap" \in Faults \/ \A q \in Runs : ~Alive(q)
  /\ menu' = [menu EXCEPT ![r] = Offered(answer)]
  /\ Goto(r, "menu")
  /\ UNCHANGED <<node, injector, files, listener, xray>>

\* The user selects; interface and server are found.  The list is not used again.
Select(r, n) ==
  /\ pc[r] = "menu" /\ n \in menu[r]
  /\ node' = [node EXCEPT ![r] = n]
  /\ menu' = [menu EXCEPT ![r] = {}]
  /\ Goto(r, "injector")
  /\ UNCHANGED <<injector, files, listener, xray>>

StartFails(r) ==
  /\ "start" \in Faults /\ pc[r] = "menu"
  /\ Ends(r, "exited")
  /\ UNCHANGED <<choice, files, xray>>

SpawnInjector(r) ==
  /\ pc[r] = "injector"
  /\ injector' = [injector EXCEPT ![r] = "opening"]
  /\ Goto(r, "sleep")
  /\ UNCHANGED <<choice, files, listener, xray>>

\* The half second is over, whatever the injector thread did with it.
SleepEnds(r) ==
  /\ pc[r] = "sleep"
  /\ Goto(r, IF node[r] \in Plain THEN "bind" ELSE "config")
  /\ UNCHANGED <<choice, injector, files, listener, xray>>

\* initialize_xray_sidecar: parse_subscription_url refuses the URL.
ConfigRefused(r) ==
  /\ pc[r] = "config" /\ node[r] \in Garbled
  /\ Ends(r, "exited")
  /\ UNCHANGED <<choice, files, xray>>

CreateConfigMutant(r) ==
  /\ pc[r] = "config" /\ node[r] \notin Garbled
  /\ IF config = NoNode THEN config' = "partial" ELSE UNCHANGED config
  /\ Goto(r, IF config = NoNode THEN "write_config" ELSE "embedded")
  /\ UNCHANGED <<choice, injector, exe, listener, xray>>

\* write_xray_config creates, and empties, config.json.
CreateConfig(r) ==
  /\ pc[r] = "config" /\ node[r] \notin Garbled
  /\ config' = "partial"
  /\ Goto(r, "write_config")
  /\ UNCHANGED <<choice, injector, exe, listener, xray>>

WriteConfigMutant(r) ==
  /\ pc[r] = "write_config"
  /\ exe' = node[r]
  /\ Goto(r, "embedded")
  /\ UNCHANGED <<choice, injector, config, listener, xray>>

\* write_all; the name may be gone, if another run has cleaned up meanwhile.
WriteConfig(r) ==
  /\ pc[r] = "write_config"
  /\ config' = IF config = NoNode THEN NoNode ELSE node[r]
  /\ Goto(r, "embedded")
  /\ UNCHANGED <<choice, injector, exe, listener, xray>>

\* Without the embedded binary there is no sidecar; otherwise
\* extract_xray_binary looks whether the file exists.
FindExe(r) ==
  /\ pc[r] = "embedded"
  /\ Goto(r, IF r \notin Embedding THEN "bind"
             ELSE IF exe = "none" THEN "create_exe" ELSE "spawn")
  /\ UNCHANGED <<choice, injector, files, listener, xray>>

\* A program that is running cannot be overwritten.
CreateExe(r) ==
  /\ pc[r] = "create_exe"
  /\ IF \E q \in Runs : Running(q) /\ exe = "whole"
       THEN Ends(r, "exited") /\ UNCHANGED exe
       ELSE exe' = "partial" /\ Goto(r, "write_exe") /\ UNCHANGED <<listener, injector>>
  /\ UNCHANGED <<choice, config, xray>>

WriteExeMutant(r) ==
  /\ pc[r] = "write_exe"
  /\ Goto(r, "spawn")
  /\ UNCHANGED <<choice, injector, files, listener, xray>>

WriteExe(r) ==
  /\ pc[r] = "write_exe"
  /\ exe' = IF exe = "none" THEN "none" ELSE "whole"
  /\ Goto(r, "spawn")
  /\ UNCHANGED <<choice, injector, config, listener, xray>>

\* Any of the four file operations fails: the error ends the run, the file
\* stays as it is.
WriteFails(r) ==
  /\ "write" \in Faults
  /\ pc[r] \in {"config", "write_config", "create_exe", "write_exe"}
  /\ Ends(r, "exited")
  /\ UNCHANGED <<choice, files, xray>>

\* spawn_xray: only a whole file is a program.
Spawn(r) ==
  /\ pc[r] = "spawn"
  /\ IF exe = "whole"
       THEN /\ sidecar' = [sidecar EXCEPT ![r] = "spawned"]
            /\ Goto(r, "bind")
            /\ UNCHANGED <<injector, listener>>
       ELSE Ends(r, "exited") /\ UNCHANGED sidecar
  /\ UNCHANGED <<choice, files, loaded>>

Bind(r) ==
  /\ pc[r] = "bind" /\ listener = {}
  /\ listener' = {r}
  /\ Goto(r, "serving")
  /\ UNCHANGED <<choice, injector, files, xray>>

\* The listener's port is taken: the error leaves async_main, and dropping a
\* Child does not end the process.
BindFails(r) ==
  /\ pc[r] = "bind"
  /\ "bind" \in Faults \/ listener # {}
  /\ Ends(r, "exited")
  /\ UNCHANGED <<choice, files, xray>>

CtrlCMutant(r) ==
  /\ pc[r] = "serving"
  /\ Goto(r, "cleanup")
  /\ UNCHANGED <<choice, injector, files, listener, xray>>

\* Ctrl+C in the accept loop: kill and wait for the sidecar.
CtrlC(r) ==
  /\ pc[r] = "serving"
  /\ sidecar' = [sidecar EXCEPT ![r] = IF Running(r) THEN "dead" ELSE @]
  /\ Goto(r, "cleanup")
  /\ UNCHANGED <<choice, injector, files, listener, loaded>>

\* xray::cleanup(None): remove_dir_all, which cannot remove a program that is
\* running and whose result is ignored; then async_main returns.
Cleanup(r) ==
  /\ pc[r] = "cleanup"
  /\ config' = NoNode
  /\ exe' = IF \E q \in Runs : Running(q) THEN exe ELSE "none"
  /\ Ends(r, "stopped")
  /\ UNCHANGED <<choice, xray>>

-----------------------------------------------------------------------------
(* The injector thread's part, and the end from outside.                   *)

InjectorOpens(r) ==
  /\ injector[r] = "opening"
  /\ injector' = [injector EXCEPT ![r] = "open"]
  /\ UNCHANGED <<pc, choice, files, listener, xray>>

\* WinDivert::network failed: process::exit(1), from the thread.
InjectorDies(r) ==
  /\ "injector" \in Faults /\ injector[r] = "opening"
  /\ Ends(r, "exited")
  /\ UNCHANGED <<choice, files, xray>>

Killed(r) ==
  /\ "kill" \in Faults /\ Alive(r)
  /\ Ends(r, "exited")
  /\ UNCHANGED <<choice, files, xray>>

-----------------------------------------------------------------------------
(* The Xray process, as far as it depends on what it is given.             *)

\* External.  Xray reads what config.json holds by now, and needs port 10808.
XrayStarts(r) ==
  /\ sidecar[r] = "spawned"
  /\ IF config \in Nodes /\ \A q \in Runs : sidecar[q] # "up"
       THEN /\ sidecar' = [sidecar EXCEPT ![r] = "up"]
            /\ loaded' = [loaded EXCEPT ![r] = config]
       ELSE sidecar' = [sidecar EXCEPT ![r] = "dead"] /\ UNCHANGED loaded
  /\ UNCHANGED <<pc, choice, injector, files, listener>>

-----------------------------------------------------------------------------

RunStep(r) ==
  \/ SpawnInjector(r) \/ SleepEnds(r)
  \/ ConfigRefused(r) \/ CreateConfig(r) \/ WriteConfig(r)
  \/ FindExe(r) \/ CreateExe(r) \/ WriteExe(r) \/ Spawn(r)
  \/ Bind(r) \/ BindFails(r) \/ Cleanup(r)

Next ==
  \E r \in Runs :
    \/ \E answer \in Answers \cup {NoAnswer} : FetchNodes(r, answer)
    \/ \E n \in Nodes : Select(r, n)
    \/ StartFails(r)
    \/ RunStep(r) \/ WriteFails(r)
    \/ CtrlC(r) \/ Killed(r)
    \/ InjectorOpens(r) \/ InjectorDies(r)
    \/ XrayStarts(r)

Spec == Init /\ [][Next]_vars

-----------------------------------------------------------------------------
(* Properties.                                                             *)

\* Program counters, processes and files are in one of their named states.
TypeOK ==
  /\ pc \in [Runs -> {"off", "menu", "injector", "sleep", "config", "write_config",
                      "embedded", "create_exe", "write_exe", "spawn", "bind",
                      "serving", "cleanup", "stopped", "exited"}]
  /\ menu \in [Runs -> SUBSET Nodes]
  /\ node \in [Runs -> Nodes \cup {NoNode}]
  /\ injector \in [Runs -> {"none", "opening", "open"}]
  /\ sidecar \in [Runs -> {"none", "spawned", "up", "dead"}]
  /\ loaded \in [Runs -> Nodes \cup {NoNode}]
  /\ exe \in {"none", "partial", "whole"}
  /\ config \in Nodes \cup {NoNode, "partial"}
  /\ listener \subseteq Runs

\* An orderly shutdown leaves no sidecar of its own behind, whatever else went
\* wrong, in this run or in others that overlap it.
StopKillsSidecar ==
  \A r \in Runs : pc[r] \in {"cleanup", "stopped"} => ~Running(r)

\* The sidecar of a run that is under way works for the node selected in that
\* run, although configurations of runs that were killed or failed stay on disk
\* and Xray reads the file after the run has gone on.
SidecarOfOwnNode ==
  \A r \in Runs : Alive(r) /\ sidecar[r] = "up" => loaded[r] = node[r]

\* extract_xray_binary's doc comment: the path it returns is the path to the
\* extracted executable.
ExtractedWhole == \A r \in Runs : pc[r] = "spawn" => exe = "whole"

=============================================================================
