-------------------------------- MODULE Engine --------------------------------
(***************************************************************************)
(* Starting and stopping the engine (engine/src/main), the class registry  *)
(* (engine/src/base/objsystem/class.c) and the life of objects on it.      *)
(*                                                                         *)
(* speect_init and speect_quit are not thread safe: one thread calls them, *)
(* while the others call nothing.  Each stage of a start may fail, and the *)
(* start then undoes by hand what it undoes.  Between the two, threads     *)
(* load plug-ins that register a class, and make and delete objects.  The  *)
(* registry is read under class_mutex, but the information on a class that *)
(* is found there is used after the mutex is released.                     *)
(*                                                                         *)
(* Deleting a plug-in is a chain of steps without a lock (PluginManager):  *)
(* count down, look whether the cache alone is left, uncache, free the     *)
(* class, give back the parent's plug-in.  Orderly says that applications  *)
(* keep loads and other deletions away while one is under way.             *)
(*                                                                         *)
(* A plug-in is named by the class it registers.                           *)
(***************************************************************************)
EXTENDS Integers, FiniteSets, Sequences

CONSTANTS
  Core,        \* classes of the engine
  Plugins,     \* classes of plug-ins
  Parent,      \* Parent[c]: the plug-in class that c derives from, or None
  Depth,       \* Depth[c]: levels of the hierarchy of c, SObject included
  MapClass,    \* the class of the maps of the managers
  Managers,    \* serialize, the plug-in manager and the voice manager
  Threads,
  Orderly,     \* nobody loads or deletes a plug-in while another deletes one
  Objects,     \* addresses (a bound)
  MaxCount,    \* bound: nested calls of speect_init
  MaxStarts,   \* bound: calls of speect_init that really start
  MaxUses,     \* bound: plug-ins that a thread loads from one library
  None

Classes == Core \cup Plugins

ASSUME ClassAssumption ==
  /\ Core \cap Plugins = {} /\ MapClass \in Core /\ None \notin Classes
  /\ Parent \in [Plugins -> Plugins \cup {None}]
  /\ Depth \in [Classes -> Nat \ {0}]
  /\ None \notin [Classes -> {"absent", "added", "ready"}]
ASSUME UserAssumption == Threads \cap Plugins = {} /\ None \notin Threads \cup Objects
ASSUME OrderAssumption == Orderly \in BOOLEAN
ASSUME BoundAssumption == {MaxCount, MaxUses} \subseteq Nat \ {0} /\ MaxStarts \in Nat

VARIABLES
  count,    \* initialized_count of main.c
  stage,    \* what speect_init or speect_quit does next, or "idle"
  errdbg,   \* error handling is initialised
  time,     \* initialized_count of the time module
  env,      \* initialized_count of the environment variables module
  table,    \* the class table: what is known of each class, or None
  maps,     \* maps[m]: levels of the map of manager m that are initialised
  manager,  \* the managers that are initialised
  path,     \* the plug-in manager has the plug-in path
  starts,   \* history: starts so far
  failed,   \* history: one of them failed
  lib,      \* the library of each plug-in in the cache: absent, loading or ready
  uses,     \* uses[u][c]: plug-ins on c that a thread, or a plug-in, holds
  obj,      \* what is at each address
  pc        \* what each thread is doing

engine == <<count, stage, errdbg, time, env, maps, manager, path, starts, failed>>
plugins == <<lib, uses>>
vars == <<engine, table, plugins, obj, pc>>

Starting == {"errdbg", "classes", "modules", "find_path", "hierarchies",
             "managers", "set_path"}
Stopping == {"quit_managers", "quit_modules", "quit_classes", "quit_errdbg"}

Free == [cls |-> None, inits |-> 0, owner |-> None]
Idle == [op |-> "idle", cls |-> None, obj |-> None, left |-> 0]

TypeOK ==
  /\ count \in 0 .. MaxCount /\ stage \in {"idle"} \cup Starting \cup Stopping
  /\ {errdbg, path, failed} \subseteq BOOLEAN /\ {time, env, starts} \subseteq Nat
  /\ table = None \/ table \in [Classes -> {"absent", "added", "ready"}]
  /\ maps \in [Managers -> Nat] /\ manager \subseteq Managers
  /\ lib \in [Plugins -> {"absent", "loading", "ready"}]
  /\ uses \in [Threads \cup Plugins -> [Plugins -> Nat]]
  /\ obj \in [Objects -> [cls : Classes \cup {None}, inits : Nat,
                          owner : Threads \cup {None}]]
  /\ pc \in [Threads -> [op : {"idle", "add", "init", "run", "delete", "destroy",
                               "check", "test", "uncache", "exit", "release"},
                         cls : Classes \cup {None}, obj : Objects \cup {None},
                         left : Nat]]

Init ==
  /\ count = 0 /\ stage = "idle" /\ errdbg = FALSE /\ time = 0 /\ env = 0
  /\ table = None /\ maps = [m \in Managers |-> 0] /\ manager = {} /\ path = FALSE
  /\ starts = 0 /\ failed = FALSE
  /\ lib = [c \in Plugins |-> "absent"]
  /\ uses = [u \in Threads \cup Plugins |-> [c \in Plugins |-> 0]]
  /\ obj = [o \in Objects |-> Free]
  /\ pc = [t \in Threads |-> Idle]

Known(c) == table # None /\ table[c] # "absent"

\* n_hier of the class information.
Hierarchy(c) == IF table[c] = "ready" THEN Depth[c] ELSE 0

(***************************************************************************)
(* speect_init.                                                            *)
(***************************************************************************)
Resting == stage = "idle" /\ \A t \in Threads : pc[t].op = "idle"
Running == stage = "idle" /\ count > 0

InitAgain ==
  /\ Resting /\ count \in 1 .. MaxCount - 1
  /\ count' = count + 1
  /\ UNCHANGED <<stage, errdbg, time, env, maps, manager, path, starts, failed,
                 table, plugins, obj, pc>>

InitStart ==
  /\ Resting /\ count = 0 /\ starts < MaxStarts
  /\ count' = 1 /\ starts' = starts + 1
  /\ stage' = "errdbg"
  /\ UNCHANGED <<errdbg, time, env, maps, manager, path, failed,
                 table, plugins, obj, pc>>

Application == <<starts, plugins, obj, pc>>
GiveUp == count' = count - 1 /\ stage' = "idle" /\ failed' = TRUE
Go(s) == stage' = s /\ UNCHANGED <<count, failed>>

\* _s_errdbg_init
StartErrdbg ==
  /\ stage = "errdbg"
  /\ \/ errdbg' = TRUE /\ time' = time + 1 /\ Go("classes")
     \/ GiveUp /\ UNCHANGED <<errdbg, time>>
  /\ UNCHANGED <<env, table, maps, manager, path, Application>>

\* _s_errdbg_quit
QuitErrdbg == errdbg' = FALSE /\ time' = time - 1

\* _s_classes_create: whatever table there was is forgotten.
StartClasses ==
  /\ stage = "classes"
  /\ \/ /\ table' = [c \in Classes |-> "absent"]
        /\ Go("modules") /\ UNCHANGED <<errdbg, time>>
     \/ GiveUp /\ QuitErrdbg /\ table' = None
  /\ UNCHANGED <<env, maps, manager, path, Application>>

\* _s_modules_init goes on after a module that fails; the classes are added.
StartModules ==
  /\ stage = "modules" /\ env' = env + 1
  /\ \/ /\ table' = [c \in Classes |-> IF c \in Core THEN "added" ELSE "absent"]
        /\ Go("find_path") /\ time' = time + 1 /\ UNCHANGED errdbg
     \/ /\ \E some \in SUBSET Core :
             table' = [c \in Classes |-> IF c \in some THEN "added" ELSE "absent"]
        /\ GiveUp /\ errdbg' = FALSE /\ UNCHANGED time
  /\ UNCHANGED <<maps, manager, path, Application>>

StartFindPath ==
  /\ stage = "find_path"
  /\ \/ Go("hierarchies") /\ UNCHANGED <<errdbg, time>>
     \/ GiveUp /\ QuitErrdbg
  /\ UNCHANGED <<env, table, maps, manager, path, Application>>

\* _s_modules_quit: _s_base_utils_quit starts the environment variables again.
QuitModules == env' = env + 1 /\ time' = time - 1

\* _s_classes_init
StartHierarchies ==
  /\ stage = "hierarchies"
  /\ \/ /\ table' = [c \in Classes |-> IF table[c] = "added" THEN "ready" ELSE table[c]]
        /\ Go("managers") /\ UNCHANGED <<errdbg, time, env>>
     \/ /\ GiveUp /\ errdbg' = FALSE /\ time' = time - 2 /\ env' = env + 1
        /\ UNCHANGED table
  /\ UNCHANGED <<maps, manager, path, Application>>

\* What the error paths from here on undo, but for the managers.
UndoModules ==
  /\ GiveUp
  /\ table' = None /\ errdbg' = FALSE /\ time' = time - 2 /\ env' = env + 1

\* Variant: a manager whose map cannot be made stays marked as initialised.
StartManagersMarked ==
  /\ stage = "managers"
  /\ \E bad \in SUBSET (Managers \ manager) :
       /\ manager' = Managers
       /\ maps' = [m \in Managers |-> IF m \in manager THEN maps[m]
                                      ELSE IF m \in bad THEN 0 ELSE Hierarchy(MapClass)]
       /\ IF bad = {} THEN Go("set_path") /\ UNCHANGED <<errdbg, time, env, table>>
                      ELSE UndoModules
  /\ UNCHANGED <<path, Application>>

\* _s_managers_init starts those that are not, and goes on after one that
\* fails.  Those that did start, now or before, are left when it fails.
StartManagers ==
  /\ stage = "managers"
  /\ \E bad \in SUBSET (Managers \ manager) :
       /\ manager' = Managers \ bad
       /\ maps' = [m \in Managers |-> IF m \in manager THEN maps[m]
                                      ELSE IF m \in bad THEN 0 ELSE Hierarchy(MapClass)]
       /\ IF bad = {} THEN Go("set_path") /\ UNCHANGED <<errdbg, time, env, table>>
                      ELSE UndoModules
  /\ UNCHANGED <<path, Application>>

\* _s_managers_quit
QuitManagers ==
  /\ manager' = {} /\ maps' = [m \in Managers |-> 0] /\ path' = FALSE

\* _s_pm_set_plugin_path
StartSetPath ==
  /\ stage = "set_path"
  /\ \/ path' = TRUE /\ Go("idle")
        /\ UNCHANGED <<errdbg, time, env, table, maps, manager>>
     \/ QuitManagers /\ UndoModules
  /\ UNCHANGED Application

(***************************************************************************)
(* speect_quit.  The application has given back its plug-ins; objects of   *)
(* classes of the engine may be left.                                      *)
(***************************************************************************)
QuitAgain ==
  /\ Resting /\ count > 1
  /\ count' = count - 1
  /\ UNCHANGED <<stage, errdbg, time, env, maps, manager, path, failed, table, Application>>

QuitStart ==
  /\ Resting /\ count = 1
  /\ \A c \in Plugins : lib[c] = "absent"
  /\ count' = 0 /\ stage' = "quit_managers"
  /\ UNCHANGED <<errdbg, time, env, maps, manager, path, failed, table, Application>>

StopManagers ==
  /\ stage = "quit_managers"
  /\ QuitManagers
  /\ Go("quit_modules")
  /\ UNCHANGED <<errdbg, time, env, table, Application>>

\* Variant: the time module is not quit.
StopModulesTimed ==
  /\ stage = "quit_modules"
  /\ env' = env + 1 /\ UNCHANGED time
  /\ Go("quit_classes")
  /\ UNCHANGED <<errdbg, table, maps, manager, path, Application>>

StopModules ==
  /\ stage = "quit_modules"
  /\ QuitModules
  /\ Go("quit_classes")
  /\ UNCHANGED <<errdbg, table, maps, manager, path, Application>>

\* _s_classes_clear
StopClasses ==
  /\ stage = "quit_classes"
  /\ table' = None
  /\ Go("quit_errdbg")
  /\ UNCHANGED <<errdbg, time, env, maps, manager, path, Application>>

StopErrdbg ==
  /\ stage = "quit_errdbg"
  /\ QuitErrdbg
  /\ Go("idle")
  /\ UNCHANGED <<env, table, maps, manager, path, Application>>

(***************************************************************************)
(* Plug-ins.  The manager gives a plug-in out when its register function   *)
(* is through (module PluginManager); that function first loads the        *)
(* plug-in of the class it derives from, which the library then holds.     *)
(***************************************************************************)
At(t, op) == Running /\ pc[t].op = op
Used(c) == \E u \in Threads \cup Plugins : uses[u][c] > 0
Loading(t) == pc[t].op \in {"add", "init"}
Unloading(t) == pc[t].op \in {"check", "test", "uncache", "exit", "release"}

\* What an orderly application waits for before it loads, and before it deletes.
MayLoad == Orderly => \A u \in Threads : ~Unloading(u)
MayUnload == Orderly => \A u \in Threads : ~Unloading(u) /\ ~Loading(u)

Move(c, from, to) == [uses EXCEPT ![from][c] = @ - 1, ![to][c] = @ + 1]

LoadReady(t, c) ==
  /\ At(t, "idle") /\ MayLoad /\ lib[c] = "ready"
  /\ uses[t][c] < MaxUses
  /\ uses' = [uses EXCEPT ![t][c] = @ + 1]
  /\ UNCHANGED <<engine, table, lib, obj, pc>>

LoadNew(t, c) ==
  /\ At(t, "idle") /\ MayLoad /\ lib[c] = "absent"
  /\ IF Parent[c] = None THEN UNCHANGED uses
     ELSE uses[t][Parent[c]] > 0 /\ uses' = Move(Parent[c], t, c)
  /\ lib' = [lib EXCEPT ![c] = "loading"]
  /\ pc' = [pc EXCEPT ![t] = [Idle EXCEPT !.op = "add", !.cls = c]]
  /\ UNCHANGED <<engine, table, obj>>

\* Variant: the plug-in is given out when its class has been added.
ClassAddShown(t) ==
  LET c == pc[t].cls
  IN  /\ At(t, "add") /\ ~Known(c)
      /\ table' = [table EXCEPT ![c] = "added"]
      /\ lib' = [lib EXCEPT ![c] = "ready"]
      /\ pc' = [pc EXCEPT ![t].op = "init"]
      /\ UNCHANGED <<engine, uses, obj>>

\* s_class_add, the first half of s_class_reg.
ClassAdd(t) ==
  LET c == pc[t].cls
  IN  /\ At(t, "add") /\ ~Known(c)
      /\ table' = [table EXCEPT ![c] = "added"]
      /\ pc' = [pc EXCEPT ![t].op = "init"]
      /\ UNCHANGED <<engine, plugins, obj>>

\* s_class_init, the second half: every class of the hierarchy is known.
ClassInit(t) ==
  LET c == pc[t].cls
  IN  /\ At(t, "init")
      /\ Parent[c] # None => Known(Parent[c])
      /\ table' = [table EXCEPT ![c] = "ready"]
      /\ lib' = [lib EXCEPT ![c] = "ready"]
      /\ uses' = [uses EXCEPT ![t][c] = @ + 1]
      /\ pc' = [pc EXCEPT ![t] = Idle]
      /\ UNCHANGED <<engine, obj>>

\* A thread keeps the plug-ins of the classes of its objects.
Unneeded(t, c) == \A o \in Objects : ~(obj[o].owner = t /\ obj[o].cls = c)

\* S_DELETE of a plug-in: DisposeLibrary counts down first.
Unload(t, c) ==
  /\ At(t, "idle") /\ MayUnload
  /\ uses[t][c] > 0 /\ (uses[t][c] = 1 => Unneeded(t, c))
  /\ uses' = [uses EXCEPT ![t][c] = @ - 1]
  /\ pc' = [pc EXCEPT ![t] = [Idle EXCEPT !.op = "check", !.cls = c]]
  /\ UNCHANGED <<engine, table, lib, obj>>

\* Variant: the library is unloaded with the first plug-in that is deleted.
UnloadCheckAny(t) ==
  /\ At(t, "check")
  /\ pc' = [pc EXCEPT ![t].op = IF lib[pc[t].cls] = "absent" THEN "test" ELSE "uncache"]
  /\ UNCHANGED <<engine, table, plugins, obj>>

\* _s_pm_unload_library: only a count of one, which is the cache's own, of a
\* library that the cache has makes it unload.
UnloadCheck(t) ==
  /\ At(t, "check")
  /\ pc' = [pc EXCEPT ![t].op = IF Used(pc[t].cls) \/ lib[pc[t].cls] = "absent"
                                THEN "test" ELSE "uncache"]
  /\ UNCHANGED <<engine, table, plugins, obj>>

\* S_DELETE's own test: the count is zero if another thread has uncached it.
UnloadTest(t) ==
  /\ At(t, "test")
  /\ pc' = [pc EXCEPT ![t] = IF lib[pc[t].cls] = "absent" THEN [@ EXCEPT !.op = "exit"]
                             ELSE Idle]
  /\ UNCHANGED <<engine, table, plugins, obj>>

Uncache(t) ==
  /\ At(t, "uncache")
  /\ lib' = [lib EXCEPT ![pc[t].cls] = "absent"]
  /\ pc' = [pc EXCEPT ![t].op = "exit"]
  /\ UNCHANGED <<engine, table, uses, obj>>

\* s_class_free, first in the exit function.
ClassFree(t) ==
  /\ At(t, "exit")
  /\ table' = [table EXCEPT ![pc[t].cls] = "absent"]
  /\ pc' = [pc EXCEPT ![t].op = "release"]
  /\ UNCHANGED <<engine, plugins, obj>>

\* Then it deletes the plug-in that the library holds, if it holds one.
Release(t) ==
  LET c == pc[t].cls
  IN  /\ At(t, "release")
      /\ IF Parent[c] # None /\ uses[c][Parent[c]] > 0
           THEN /\ uses' = [uses EXCEPT ![c][Parent[c]] = @ - 1]
                /\ pc' = [pc EXCEPT ![t] = [Idle EXCEPT !.op = "check", !.cls = Parent[c]]]
           ELSE pc' = [pc EXCEPT ![t] = Idle] /\ UNCHANGED uses
      /\ UNCHANGED <<engine, table, lib, obj>>

(***************************************************************************)
(* Objects.  The class is found in one critical section; the functions of  *)
(* its levels run after it.                                                *)
(***************************************************************************)
Usable(t, c) == c \in Plugins => uses[t][c] > 0

\* SObjectNewFromName finds the class and makes room.
New(t, c, o) ==
  /\ At(t, "idle") /\ Usable(t, c) /\ Known(c) /\ obj[o] = Free
  /\ obj' = [obj EXCEPT ![o] = [cls |-> c, inits |-> 0, owner |-> t]]
  /\ pc' = [pc EXCEPT ![t] = [op |-> "run", cls |-> c, obj |-> o, left |-> Hierarchy(c)]]
  /\ UNCHANGED <<engine, table, plugins>>

RunInit(t) ==
  /\ At(t, "run") /\ pc[t].left > 0
  /\ \/ /\ obj' = [obj EXCEPT ![pc[t].obj].inits = @ + 1]
        /\ pc' = [pc EXCEPT ![t].left = @ - 1]
     \/ pc' = [pc EXCEPT ![t].op = "delete"] /\ UNCHANGED obj
  /\ UNCHANGED <<engine, table, plugins>>

NewReturns(t) ==
  /\ At(t, "run") /\ pc[t].left = 0
  /\ pc' = [pc EXCEPT ![t] = Idle]
  /\ UNCHANGED <<engine, table, plugins, obj>>

Drop(t, o) ==
  /\ At(t, "idle") /\ obj[o].owner = t /\ Usable(t, obj[o].cls)
  /\ pc' = [pc EXCEPT ![t] = [Idle EXCEPT !.op = "delete", !.cls = obj[o].cls, !.obj = o]]
  /\ UNCHANGED <<engine, table, plugins, obj>>

\* SObjectDelete; an object whose class is not found is kept for ever.
Delete(t) ==
  LET c == pc[t].cls
  IN  /\ At(t, "delete")
      /\ IF Known(c)
           THEN /\ pc' = [pc EXCEPT ![t].op = "destroy", ![t].left = Hierarchy(c)]
                /\ UNCHANGED obj
           ELSE /\ pc' = [pc EXCEPT ![t] = Idle]
                /\ obj' = [obj EXCEPT ![pc[t].obj].owner = None]
      /\ UNCHANGED <<engine, table, plugins>>

RunDestroy(t) ==
  /\ At(t, "destroy") /\ pc[t].left > 0
  /\ pc' = [pc EXCEPT ![t].left = @ - 1]
  /\ UNCHANGED <<engine, table, plugins, obj>>

DeleteReturns(t) ==
  /\ At(t, "destroy") /\ pc[t].left = 0
  /\ obj' = [obj EXCEPT ![pc[t].obj] = Free]
  /\ pc' = [pc EXCEPT ![t] = Idle]
  /\ UNCHANGED <<engine, table, plugins>>

Main ==
  \/ InitAgain \/ InitStart
  \/ StartErrdbg \/ StartClasses \/ StartModules \/ StartFindPath
  \/ StartHierarchies \/ StartManagers \/ StartSetPath
  \/ QuitAgain \/ QuitStart
  \/ StopManagers \/ StopModules \/ StopClasses \/ StopErrdbg

Next ==
  \/ Main
  \/ \E t \in Threads, c \in Plugins :
       LoadReady(t, c) \/ LoadNew(t, c) \/ Unload(t, c)
  \/ \E t \in Threads : ClassAdd(t) \/ ClassInit(t)
  \/ \E t \in Threads : UnloadCheck(t) \/ UnloadTest(t) \/ Uncache(t) \/ ClassFree(t)
                        \/ Release(t)
  \/ \E t \in Threads, o \in Objects : Drop(t, o) \/ \E c \in Classes : New(t, c, o)
  \/ \E t \in Threads : RunInit(t) \/ NewReturns(t) \/ Delete(t) \/ RunDestroy(t)
                        \/ DeleteReturns(t)

Spec == Init /\ [][Next]_vars

(***************************************************************************)
(* Properties.                                                             *)
(***************************************************************************)

\* Once speect_init has succeeded everything is there, whichever stages of
\* whichever earlier starts failed: error handling, the mutexes of the time and
\* environment modules, every class of the engine with its hierarchy, and the
\* managers with maps whose every level is initialised (main.c, managers.c).
Started ==
  Running =>
    /\ errdbg /\ time > 0 /\ env > 0 /\ path
    /\ \A c \in Core : Known(c) /\ table[c] = "ready"
    /\ \A m \in Managers : m \in manager /\ maps[m] = Depth[MapClass]

\* The speect_quit that matches the first speect_init takes everything down
\* again, if no start failed, and the time module, which two others start, is
\* quit as often as it was started (main.c, stime.c).
Stopped ==
  stage = "idle" /\ count = 0 /\ ~failed =>
    ~errdbg /\ time = 0 /\ table = None /\ manager = {} /\ ~path

\* An object that is given out has been initialised at every level of its
\* hierarchy, and an object is destroyed at every level (class.c,
\* SObjectNewFromName and SObjectDelete against s_class_reg in two halves).
WholeObjects ==
  /\ \A t \in Threads, o \in Objects :
       obj[o].owner = t /\ pc[t].obj # o => obj[o].inits = Depth[obj[o].cls]
  /\ \A t \in Threads :
       pc[t].op = "destroy" /\ pc[t].left = 0 => Hierarchy(pc[t].cls) = Depth[pc[t].cls]

\* While a thread runs the functions of a class whose information it found
\* under the mutex, nobody frees that information; and a class that is known is
\* one of a library that is loaded, or that a thread is just unloading (class.c,
\* s_class_free; manager.c, _s_pm_unload_library; the exit functions).
InfoLives ==
  /\ \A t \in Threads :
       pc[t].op \in {"run", "destroy"} => Known(pc[t].cls) /\ table[pc[t].cls] = "ready"
  /\ \A c \in Plugins :
       Known(c) => \/ lib[c] # "absent"
                   \/ \E t \in Threads : pc[t].op = "exit" /\ pc[t].cls = c

\* The speect_quit that matches the first speect_init quits the modules of the
\* base utilities (base/utils/utils.c, _s_base_utils_quit).
UtilitiesQuit == stage = "idle" /\ count = 0 /\ ~failed => env = 0

=============================================================================
