------------------------------ MODULE AesdSystem ------------------------------
(***************************************************************************)
(* The server on top of the driver: the sessions of AesdSession use the    *)
(* device that AesdModule loads and unloads.  S97aesdcharmodule and        *)
(* aesdsocket-start-stop.sh start them in turn, but nothing couples them   *)
(* later: the module can be unloaded, and loaded again, while clients are  *)
(* connected, as long as no session has the device open.                   *)
(***************************************************************************)
EXTENDS AesdSession

CONSTANTS Majors, MaxLoads

ASSUME SystemAssumption == NULL \notin Majors /\ MaxLoads \in Nat

VARIABLES script, module, major, region, cdev, g_ent, node, lost,
          loads     \* how often insmod was run, counted up to MaxLoads

opens == {c \in Clients : fd[c] = "open"}

M == INSTANCE AesdModule

moduleVars == <<script, module, major, region, cdev, g_ent, node, lost>>
systemVars == <<vars, moduleVars, loads>>

SystemInit == Init /\ M!Init /\ loads = 0

(* A session gets the device only through a node of the live module.       *)
SessionStep ==
  /\ Next
  /\ opens' \subseteq opens \/ M!CanOpen
  /\ UNCHANGED <<moduleVars, loads>>

(* The module is loaded and unloaded; with it comes a new device mutex.    *)
ModuleStep ==
  /\ use_aesd_char_device /\ alive
  /\ UNCHANGED <<thread, local, mutex, file, files, rest>>
  /\ M!Kernel \/ M!Scripts
  /\ LET inserted == module = "out" /\ module' # "out"
     IN  /\ loads' = loads + (IF inserted THEN 1 ELSE 0) /\ loads' <= MaxLoads
         /\ device' = IF inserted THEN "ok" ELSE device

SystemNext == SessionStep \/ ModuleStep

SystemSpec == SystemInit /\ [][SystemNext]_systemVars
=============================================================================
