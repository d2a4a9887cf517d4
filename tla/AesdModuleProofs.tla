---------------------------- MODULE AesdModuleProofs ----------------------------
(***************************************************************************)
(* What holds of the driver's module for every number of device numbers    *)
(* and every use of the device.  The inductive invariant IInv says what    *)
(* init and cleanup have done at each of their calls, and which of these   *)
(* calls each script can be at.                                            *)
(***************************************************************************)
EXTENDS AesdModule, TLAPS

Stored == log # <<>> \/ pending # <<>>

(* What is registered and allocated when the call in module comes next.    *)
Stages ==
  /\ module \in {"out", "alloc_chrdev_region"} =>
       ~region /\ cdev # "added" /\ ~g_ent /\ ~Stored
  /\ module = "kmalloc"    => region /\ cdev = "none" /\ ~g_ent /\ ~Stored
  /\ module = "cdev_add"   => region /\ cdev = "none" /\ g_ent /\ ~Stored
  /\ module = "live"       => region /\ cdev = "added" /\ g_ent
  /\ module = "kfree"      => cdev # "added"
  /\ module = "unregister" => cdev # "added" /\ ~g_ent /\ log = <<>>

(* Between two scripts init and cleanup are through, and while a module is *)
(* inserted there is no node, or that of the module that is loaded.        *)
Scripted ==
  /\ script = "idle"   => module \in {"out", "live"}
  /\ script = "insmod" => node = NULL \/ CanOpen
  /\ script = "rmmod"  => module \in {"out", "cdev_del", "kfree", "unregister"}

IInv ==
  /\ TypeOK
  /\ Stages
  /\ Scripted
  /\ OpenKeepsModule
  /\ NodeIsCurrent

-----------------------------------------------------------------------------
(* The initial states satisfy the invariant.                               *)
LEMMA InitIInv ==
  ASSUME Init
  PROVE  IInv
BY DEF Init, IInv, TypeOK, Stages, Stored, Scripted, OpenKeepsModule, NodeIsCurrent, CanOpen

(* What can be lost.                                                       *)
LEMMA MemoryKinds == Memory \subseteq {"log", "pending", "g_ent"}
BY DEF Memory

(* The calls of aesd_init_module preserve it.                              *)
LEMMA InitCallsStep ==
  ASSUME IInv, InitRegion \/ InitEntry \/ InitCdev
  PROVE  IInv'
<1> USE DEF IInv, TypeOK, Stages, Stored, Scripted, OpenKeepsModule, NodeIsCurrent, CanOpen, Go,
            Out
<1>1. CASE InitRegion
  <2>1. CASE module' = "kmalloc"
    BY <1>1, <2>1 DEF InitRegion
  <2>2. CASE module' = "out"
    <3>1. node' = NULL /\ opens' = {} /\ script' = "insmod"
      BY <1>1 DEF InitRegion
    <3>2. TypeOK'
      BY <1>1, <2>2, MemoryKinds DEF InitRegion
    <3>3. Stages'
      BY <1>1, <2>2 DEF InitRegion
    <3> QED BY <2>2, <3>1, <3>2, <3>3
  <2> QED BY <1>1, <2>1, <2>2 DEF InitRegion
<1>2. CASE InitEntry
  BY <1>2 DEF InitEntry
<1>3. CASE InitCdev
  <2>1. CASE module' = "live"
    BY <1>3, <2>1 DEF InitCdev, SetupCdev
  <2>2. CASE module' = "out"
    BY <1>3, <2>2, MemoryKinds DEF InitCdev
  <2> QED BY <1>3, <2>1, <2>2 DEF InitCdev
<1> QED BY <1>1, <1>2, <1>3

(* The calls of aesd_cleanup_module preserve it.                           *)
LEMMA CleanupCallsStep ==
  ASSUME IInv, CleanupCdev \/ CleanupMemory \/ CleanupRegion
  PROVE  IInv'
<1> USE DEF IInv, TypeOK, Stages, Stored, Scripted, OpenKeepsModule, NodeIsCurrent, CanOpen, Go,
            Out
<1>1. CASE CleanupCdev
  BY <1>1 DEF CleanupCdev
<1>2. CASE CleanupMemory
  BY <1>2 DEF CleanupMemory
<1>3. CASE CleanupRegion
  BY <1>3, MemoryKinds DEF CleanupRegion
<1> QED BY <1>1, <1>2, <1>3

(* The scripts preserve it.                                                *)
LEMMA ScriptsStep ==
  ASSUME IInv, Scripts
  PROVE  IInv'
<1> USE DEF IInv, TypeOK, Stages, Stored, Scripted, OpenKeepsModule, NodeIsCurrent, CanOpen, Go,
            Out
<1>1. CASE Insmod
  BY <1>1 DEF Insmod
<1>2. CASE ModprobeLoaded
  BY <1>2 DEF ModprobeLoaded
<1>3. CASE MakeNode
  <2>1. CASE module = "live"
    BY <1>3, <2>1 DEF MakeNode
  <2>2. CASE module = "out"
    BY <1>3, <2>2 DEF MakeNode
  <2> QED BY <1>3, <2>1, <2>2 DEF MakeNode
<1>4. CASE Rmmod
  BY <1>4 DEF Rmmod
<1>5. CASE RemoveNode
  BY <1>5 DEF RemoveNode
<1> QED BY <1>1, <1>2, <1>3, <1>4, <1>5 DEF Scripts

(* So do the users of the device: what they write goes into a live module. *)
LEMMA UsersStep ==
  ASSUME IInv, Users
  PROVE  IInv'
BY DEF IInv, TypeOK, Stages, Stored, Scripted, OpenKeepsModule, NodeIsCurrent, CanOpen, Users,
       moduleVars

-----------------------------------------------------------------------------
(* The invariant holds in every state.                                     *)
THEOREM ModuleInvariant == Spec => []IInv
<1>1. Init => IInv
  BY InitIInv
<1>2. IInv /\ [Next]_vars => IInv'
  <2>1. CASE Next
    BY <2>1, InitCallsStep, CleanupCallsStep, ScriptsStep, UsersStep DEF Next, Kernel
  <2>2. CASE UNCHANGED vars
    BY <2>2 DEF vars, moduleVars, IInv, TypeOK, Stages, Stored, Scripted, OpenKeepsModule,
                NodeIsCurrent, CanOpen
  <2> QED BY <2>1, <2>2
<1> QED BY <1>1, <1>2, PTL DEF Spec

(* A module that is out has left nothing registered, one that is live has  *)
(* everything, a file is open only while the module is live, and between   *)
(* two scripts the node is the live module's (aesd_init_module,            *)
(* aesd_cleanup_module, aesdchar_load, aesdchar_unload).                   *)
THEOREM ModuleSafety == Spec => [](AllOrNothing /\ OpenKeepsModule /\ NodeIsCurrent)
<1>1. IInv => AllOrNothing /\ OpenKeepsModule /\ NodeIsCurrent
  BY DEF IInv, Stages, Stored, AllOrNothing
<1> QED BY <1>1, ModuleInvariant, PTL

(* Of the device's memory g_ent is lost when cdev_add fails, and the bytes *)
(* of an unfinished command at the end of cleanup; nothing else            *)
(* (aesd_init_module, aesd_cleanup_module).                                *)
THEOREM Losses == Spec => KnownLosses
<1> DEFINE Known == \A m \in lost' \ lost :
                      \/ m = "g_ent" /\ module = "cdev_add"
                      \/ m = "pending" /\ module = "unregister"
<1>1. ASSUME IInv, [Next]_vars PROVE [Known]_vars
  <2>1. CASE InitRegion
    <3>1. Memory = {}
      BY <1>1, <2>1 DEF InitRegion, IInv, Stages, Stored, Memory
    <3> QED BY <2>1, <3>1 DEF InitRegion, Out
  <2>2. CASE InitCdev
    <3>1. Memory = {"g_ent"} /\ module = "cdev_add"
      BY <1>1, <2>2 DEF InitCdev, IInv, Stages, Stored, Memory
    <3> QED BY <2>2, <3>1 DEF InitCdev, Out
  <2>3. CASE CleanupRegion
    <3>1. Memory \subseteq {"pending"} /\ module = "unregister"
      BY <1>1, <2>3 DEF CleanupRegion, IInv, Stages, Memory
    <3> QED BY <2>3, <3>1 DEF CleanupRegion, Out
  <2>4. CASE \/ InitEntry \/ CleanupCdev \/ CleanupMemory \/ Scripts \/ Users
             \/ UNCHANGED vars
    <3>1. lost' = lost
      BY <2>4 DEF InitEntry, CleanupCdev, CleanupMemory, Scripts, Insmod, ModprobeLoaded,
                  MakeNode, Rmmod, RemoveNode, Users, vars, moduleVars
    <3> QED BY <3>1
  <2> QED BY <1>1, <2>1, <2>2, <2>3, <2>4 DEF Next, Kernel
<1> QED BY <1>1, ModuleInvariant, PTL DEF Spec, KnownLosses
=============================================================================
