------------------------------ MODULE AesdModule ------------------------------
(***************************************************************************)
(* The life of the driver as a kernel module: aesd_init_module and         *)
(* aesd_cleanup_module (aesd-char-driver/main.c), and the scripts          *)
(* aesdchar_load and aesdchar_unload that insert and remove it and make    *)
(* and delete the node /dev/aesdchar.  Init and cleanup are cut at every   *)
(* call that registers, frees or can fail, so that users of the device can *)
(* come in between.  The kernel's part is external: it counts the open     *)
(* files of a module and refuses rmmod while there are any.                *)
(***************************************************************************)
EXTENDS Integers, Sequences

CONSTANTS Majors,  \* the device numbers the kernel can give
          NULL

VARIABLES
  script,   \* what the administrator runs: "idle", "insmod" or "rmmod"
  module,   \* the call of init or cleanup that is next, "out" or "live"
  major,    \* aesd_major
  region,   \* whether the device number is registered
  cdev,     \* aesd_device.cdev: "none", "added", or "bad": deleted, never added
  g_ent,    \* whether aesd_device.g_ent points to memory
  node,     \* the device number of /dev/aesdchar, NULL when there is no node
  lost,     \* kernel memory that nothing points to any more
  log,      \* aesd_device.circ_buff: the commands, the oldest first
  pending,  \* the bytes of g_ent->buffptr
  opens     \* the open files

moduleVars == <<script, module, major, region, cdev, g_ent, node, lost>>
vars       == <<moduleVars, log, pending, opens>>

Init ==
  /\ script = "idle" /\ module = "out" /\ major = NULL
  /\ region = FALSE /\ cdev = "none" /\ g_ent = FALSE
  /\ node = NULL /\ lost = {}
  /\ log = <<>> /\ pending = <<>> /\ opens = {}

Go(from, to) == module = from /\ module' = to

(* What the module has in the kernel's memory: the commands, the bytes of  *)
(* the unfinished one, and g_ent.                                          *)
Memory ==
  (IF log # <<>> THEN {"log"} ELSE {}) \cup (IF pending # <<>> THEN {"pending"} ELSE {})
    \cup (IF g_ent THEN {"g_ent"} ELSE {})

(* The kernel takes the module out, and with it aesd_device and all its    *)
(* pointers: what they still point to is lost.                             *)
Out ==
  /\ module' = "out"
  /\ lost' = lost \cup Memory
  /\ g_ent' = FALSE /\ log' = <<>> /\ pending' = <<>>

-----------------------------------------------------------------------------
(* aesd_init_module.  alloc_chrdev_region can fail; then aesd_major is 0.   *)
(* Otherwise the device is cleared.                                        *)
InitRegion ==
  /\ script = "insmod" /\ module = "alloc_chrdev_region"
  /\ \/ /\ module' = "kmalloc"
        /\ major' \in Majors /\ region' = TRUE
        /\ cdev' = "none" /\ g_ent' = FALSE /\ log' = <<>> /\ pending' = <<>>
        /\ UNCHANGED lost
     \/ /\ Out
        /\ major' = NULL
        /\ UNCHANGED <<region, cdev>>
  /\ UNCHANGED <<script, node, opens>>

(* Without memory for g_ent all of aesd_cleanup_module runs.               *)
InitEntry ==
  /\ \/ Go("kmalloc", "cdev_add") /\ g_ent' = TRUE
     \/ Go("kmalloc", "cdev_del") /\ g_ent' = FALSE
  /\ UNCHANGED <<script, major, region, cdev, node, lost, log, pending, opens>>

(* aesd_setup_cdev.                                                        *)
SetupCdev == cdev' = "added"

(* Bug: when cdev_add fails the region is not given back.                  *)
InitCdevKeepRegion ==
  /\ module = "cdev_add"
  /\ \/ /\ module' = "live"
        /\ SetupCdev
        /\ UNCHANGED <<region, g_ent, lost, log, pending>>
     \/ Out /\ UNCHANGED <<region, cdev>>
  /\ UNCHANGED <<script, major, node, opens>>

(* When cdev_add fails only the region is given back, and g_ent is lost.   *)
InitCdev ==
  /\ module = "cdev_add"
  /\ \/ /\ module' = "live"
        /\ SetupCdev
        /\ UNCHANGED <<region, g_ent, lost, log, pending>>
     \/ Out /\ region' = FALSE /\ UNCHANGED cdev
  /\ UNCHANGED <<script, major, node, opens>>

(* aesd_cleanup_module.                                                    *)
CleanupCdev ==
  /\ Go("cdev_del", "kfree")
  /\ cdev' = IF cdev = "added" THEN "none" ELSE "bad"
  /\ UNCHANGED <<script, major, region, g_ent, node, lost, log, pending, opens>>

(* Bug: the entries of the circular buffer are not freed.                  *)
CleanupEntryOnly ==
  /\ Go("kfree", "unregister")
  /\ g_ent' = FALSE
  /\ UNCHANGED <<script, major, region, cdev, node, lost, log, pending, opens>>

(* The entries and g_ent are freed, g_ent->buffptr is not.                 *)
CleanupMemory ==
  /\ Go("kfree", "unregister")
  /\ log' = <<>> /\ g_ent' = FALSE
  /\ UNCHANGED <<script, major, region, cdev, node, lost, pending, opens>>

CleanupRegion ==
  /\ module = "unregister" /\ Out
  /\ region' = FALSE
  /\ UNCHANGED <<script, major, cdev, node, opens>>

-----------------------------------------------------------------------------
(* aesdchar_load: insmod of the local aesdchar.ko, or modprobe when there  *)
(* is none.  insmod of a module that is loaded fails and the script exits. *)
Insmod ==
  /\ script = "idle" /\ Go("out", "alloc_chrdev_region")
  /\ script' = "insmod"
  /\ UNCHANGED <<major, region, cdev, g_ent, node, lost, log, pending, opens>>

(* modprobe of a module that is loaded succeeds, and the script goes on.   *)
ModprobeLoaded ==
  /\ script = "idle" /\ module = "live"
  /\ script' = "insmod"
  /\ UNCHANGED <<module, major, region, cdev, g_ent, node, lost, log, pending, opens>>

(* rm -f and mknod with the number from /proc/devices; the script exits    *)
(* when insmod has failed, and after rm -f when mknod fails (set -e).      *)
MakeNode ==
  /\ script = "insmod" /\ script' = "idle"
  /\ \/ module = "live" /\ node' \in {major, NULL}
     \/ module = "out" /\ node' = node
  /\ UNCHANGED <<module, major, region, cdev, g_ent, lost, log, pending, opens>>

(* Bug: rmmod does not mind open files (no .owner in the operations).      *)
RmmodAnyway ==
  /\ script = "idle" /\ Go("live", "cdev_del")
  /\ script' = "rmmod"
  /\ UNCHANGED <<major, region, cdev, g_ent, node, lost, log, pending, opens>>

(* aesdchar_unload: rmmod is refused while a file is open, and then the    *)
(* script exits.                                                           *)
Rmmod ==
  /\ script = "idle" /\ Go("live", "cdev_del")
  /\ opens = {}
  /\ script' = "rmmod"
  /\ UNCHANGED <<major, region, cdev, g_ent, node, lost, log, pending, opens>>

(* Bug: the script leaves the node.                                        *)
KeepNode ==
  /\ script = "rmmod" /\ module = "out" /\ script' = "idle"
  /\ UNCHANGED <<module, major, region, cdev, g_ent, node, lost, log, pending, opens>>

RemoveNode ==
  /\ script = "rmmod" /\ module = "out" /\ script' = "idle"
  /\ node' = NULL
  /\ UNCHANGED <<module, major, region, cdev, g_ent, lost, log, pending, opens>>

-----------------------------------------------------------------------------
(* An open reaches the driver: the node has its number, the cdev is there, *)
(* and the module is not on its way out.                                   *)
CanOpen == node # NULL /\ node = major /\ module = "live"

(* What users of the device may do: open it when that is possible, change  *)
(* what it stores while they have it open, close it.                       *)
Users ==
  /\ opens' \subseteq opens \/ CanOpen
  /\ log' # log \/ pending' # pending => opens # {}
  /\ UNCHANGED moduleVars

Kernel ==
  \/ InitRegion \/ InitEntry \/ InitCdev
  \/ CleanupCdev \/ CleanupMemory \/ CleanupRegion

Scripts == Insmod \/ ModprobeLoaded \/ MakeNode \/ Rmmod \/ RemoveNode

Next == Kernel \/ Scripts \/ Users

Spec == Init /\ [][Next]_vars

-----------------------------------------------------------------------------
TypeOK ==
  /\ script \in {"idle", "insmod", "rmmod"}
  /\ module \in {"out", "alloc_chrdev_region", "kmalloc", "cdev_add", "live",
                 "cdev_del", "kfree", "unregister"}
  /\ major \in Majors \cup {NULL} /\ node \in Majors \cup {NULL}
  /\ region \in BOOLEAN /\ g_ent \in BOOLEAN
  /\ cdev \in {"none", "added", "bad"}
  /\ lost \subseteq {"log", "pending", "g_ent"}

(* A module that is out, because init failed at any of its calls or        *)
(* because cleanup is through, has left nothing registered that would make *)
(* the next insmod or an open fail; one that is live has everything        *)
(* (aesd_init_module, aesd_cleanup_module).                                *)
AllOrNothing ==
  /\ module = "out" => ~region /\ cdev # "added"
  /\ module = "live" => region /\ cdev = "added" /\ g_ent

(* Of the memory the device had, the module loses g_ent when cdev_add has  *)
(* failed, and the bytes of an unfinished command when it is removed;      *)
(* nothing else, whatever was written before (aesd_init_module,            *)
(* aesd_cleanup_module).                                                   *)
KnownLosses ==
  [][\A m \in lost' \ lost :
       \/ m = "g_ent" /\ module = "cdev_add"
       \/ m = "pending" /\ module = "unregister"]_vars

(* As long as a file is open the module is there with all its data: no     *)
(* call of the driver runs into cleanup (.owner = THIS_MODULE).            *)
OpenKeepsModule == opens # {} => module = "live"

(* Between two runs of the scripts /dev/aesdchar is never the node of a    *)
(* module that is gone, or of an earlier device number (aesdchar_load,     *)
(* aesdchar_unload).                                                       *)
NodeIsCurrent == script = "idle" /\ node # NULL => CanOpen
=============================================================================
