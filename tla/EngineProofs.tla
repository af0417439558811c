---------------------------- MODULE EngineProofs ----------------------------
(***************************************************************************)
(* Proofs about Engine, for any classes, managers, threads and objects,    *)
(* and any number of starts.                                               *)
(***************************************************************************)
EXTENDS Engine, Counts, TLAPS

Off == stage = "idle" /\ count = 0

\* How often the time module is started at this stage, if no start failed.
TimeDue ==
  IF Off \/ stage = "errdbg" THEN 0
  ELSE IF stage \in {"classes", "modules", "quit_classes", "quit_errdbg"} THEN 1 ELSE 2

\* What every stage of a start or a stop has: the counts and the flags.
StageInv ==
  /\ stage \in Starting => count = 1
  /\ stage \in Stopping => count = 0
  /\ errdbg <=> ~(Off \/ stage = "errdbg")
  /\ path <=> Running \/ stage = "quit_managers"
  /\ time >= TimeDue
  /\ ~failed => time = TimeDue
  /\ Running \/ stage \in {"find_path", "hierarchies", "managers", "set_path"} => env > 0

\* The classes of the engine at each stage.  A start that failed may have left
\* any of them behind, until the next one begins its table.
TableInv ==
  /\ stage = "modules" => table = [c \in Classes |-> "absent"]
  /\ stage \in {"find_path", "hierarchies"} =>
       table = [c \in Classes |-> IF c \in Core THEN "added" ELSE "absent"]
  /\ Running \/ stage \in {"managers", "set_path"} =>
       table # None /\ \A c \in Core : table[c] = "ready"
  /\ stage = "quit_errdbg" => table = None
  /\ ~failed /\ (Off \/ stage \in {"errdbg", "classes"}) => table = None

\* A manager that is initialised has a whole map, also one that an earlier start
\* left behind.
ManagerInv ==
  /\ \A m \in manager : maps[m] = Depth[MapClass]
  /\ Running \/ stage = "set_path" => manager = Managers
  /\ ~failed /\ ~Running /\ stage \notin {"set_path", "quit_managers"} => manager = {}

\* What the points of the threads always are about, orderly or not.
Works(t) == pc[t].op \in {"run", "delete", "destroy"}

WorkInv ==
  /\ ~Running => /\ \A t \in Threads : pc[t].op = "idle"
                 /\ \A c \in Plugins : lib[c] = "absent"
  /\ \A t \in Threads : Loading(t) \/ Unloading(t) => pc[t].cls \in Plugins
  /\ \A t \in Threads : Works(t) => pc[t].obj \in Objects /\ pc[t].cls \in Classes
  /\ \A o \in Objects : obj[o].owner # None => obj[o].cls \in Classes

WInv ==
  /\ TypeOK /\ StageInv /\ TableInv /\ ManagerInv /\ WorkInv

(***************************************************************************)
(* The rest holds if the application is orderly.                           *)
(***************************************************************************)

\* A class is known while its library is in the cache, or until the thread that
\* has just uncached it frees it.
Exiting(c) == \E t \in Threads : pc[t].op = "exit" /\ pc[t].cls = c
Leaving(c) == \E t \in Threads : pc[t].op \in {"exit", "release"} /\ pc[t].cls = c

LoadedInv ==
  table # None =>
    \A c \in Plugins : lib[c] = "absent" => table[c] = "absent" \/ Exiting(c)

\* A plug-in that is being loaded is loaded by one thread, which has added its
\* class or not; one that is in use is loaded, and so is its class.
PluginInv ==
  /\ \A t \in Threads : Loading(t) =>
       /\ lib[pc[t].cls] = "loading" /\ pc[t].obj = None
       /\ table[pc[t].cls] = IF pc[t].op = "add" THEN "absent" ELSE "added"
  /\ \A t, u \in Threads : Loading(t) /\ Loading(u) /\ pc[t].cls = pc[u].cls => t = u
  /\ Running => \A c \in Plugins : lib[c] = "ready" => table[c] = "ready"
  /\ \A u \in Threads \cup Plugins, c \in Plugins : uses[u][c] > 0 => lib[c] = "ready"
  /\ \A c \in Plugins : (lib[c] # "absent" \/ Leaving(c)) /\ Parent[c] # None =>
       uses[c][Parent[c]] > 0

\* A thread that unloads is alone with it: what it found at one step is so at the
\* next.
UnloadInv ==
  /\ \A t, u \in Threads : Unloading(t) => ~Loading(u) /\ (Unloading(u) => t = u)
  /\ \A t \in Threads : pc[t].op \in {"check", "test", "uncache"} => lib[pc[t].cls] = "ready"
  /\ \A t \in Threads : pc[t].op = "uncache" => ~Used(pc[t].cls)
  /\ \A t \in Threads : Unloading(t) => pc[t].obj = None
  /\ \A t \in Threads : pc[t].op \in {"exit", "release"} => lib[pc[t].cls] = "absent"

\* A thread in the middle of making or deleting an object has the object, and the
\* plug-in of its class.  Everybody else's objects are whole.
ObjectInv ==
  /\ \A t \in Threads : pc[t].op = "idle" => pc[t].obj = None
  /\ \A t \in Threads : Works(t) =>
       /\ obj[pc[t].obj].owner = t /\ obj[pc[t].obj].cls = pc[t].cls
       /\ Usable(t, pc[t].cls)
  /\ \A t \in Threads : pc[t].op = "run" =>
       obj[pc[t].obj].inits + pc[t].left = Depth[pc[t].cls]
  /\ \A t \in Threads, o \in Objects :
       obj[o].owner = t /\ pc[t].obj # o => obj[o].inits = Depth[obj[o].cls]

OInv == LoadedInv /\ PluginInv /\ UnloadInv /\ ObjectInv
IInv == WInv /\ OInv

-----------------------------------------------------------------------------
(* speect_init and speect_quit.  Each action is first put as equations, which   *)
(* is how the provers take flags and numbers in one tuple.                      *)

LEMMA MainStep ==
  ASSUME WInv, Main
  PROVE  WInv'
<1>0. UNCHANGED <<lib, uses, obj, pc>>
  BY DEF Main, InitAgain, InitStart, StartErrdbg, StartClasses, StartModules,
         StartFindPath, StartHierarchies, StartManagers, StartSetPath, QuitAgain,
         QuitStart, StopManagers, StopModules, StopClasses, StopErrdbg, Application,
         plugins
<1>1. /\ TypeOK /\ StageInv /\ TableInv /\ ManagerInv /\ WorkInv
  BY DEF WInv
<1>2. CASE InitAgain
  <2>1. /\ Resting /\ count \in 1 .. MaxCount - 1
        /\ count' = count + 1 /\ stage' = stage /\ (errdbg' <=> errdbg)
        /\ time' = time /\ env' = env /\ table' = table /\ maps' = maps
        /\ manager' = manager /\ (path' <=> path) /\ starts' = starts
        /\ (failed' <=> failed)
    BY <1>2, Zenon DEF InitAgain, Application
  <2>2. TypeOK'
    <3>1. {errdbg', path', failed'} \subseteq BOOLEAN
      BY <1>1, <1>2, Zenon DEF TypeOK, InitAgain, Application
    <3>2. count' \in 0 .. MaxCount /\ stage' \in {"idle"} \cup Starting \cup Stopping
      BY <1>1, <2>1, BoundAssumption DEF TypeOK, StageInv, Starting, Stopping, Resting
    <3>3. time \in Nat /\ env \in Nat /\ starts \in Nat /\ time >= TimeDue
      BY <1>1 DEF TypeOK, StageInv
    <3>4. time' \in Nat /\ env' \in Nat /\ starts' \in Nat
      BY <2>1, <3>3 DEF TimeDue, Off
    <3>5. table' = None \/ table' \in [Classes -> {"absent", "added", "ready"}]
      BY <1>1, <2>1 DEF TypeOK, TableInv, Classes
    <3>6. maps' \in [Managers -> Nat] /\ manager' \subseteq Managers
      BY <1>1, <2>1, ClassAssumption DEF TypeOK, Hierarchy, Classes
    <3> QED BY <1>0, <1>1, <3>1, <3>2, <3>4, <3>5, <3>6 DEF TypeOK
  <2>3. StageInv'
    <3>1. (stage' \in Starting => count' = 1) /\ (stage' \in Stopping => count' = 0)
      BY <1>1, <2>1 DEF StageInv, Starting, Stopping, Resting
    <3>2. count \in Nat /\ time \in Nat /\ env \in Nat /\ stage \in {"idle"} \cup Starting \cup Stopping
      BY <1>1, BoundAssumption DEF TypeOK
    <3>3. (stage \in Starting => count = 1) /\ (stage \in Stopping => count = 0) /\ time >= TimeDue
      BY <1>1 DEF StageInv
    <3>31. errdbg <=> ~(Off \/ stage = "errdbg")
      BY <1>1 DEF StageInv
    <3>4. (errdbg <=> ~(Off \/ stage = "errdbg"))'
      BY <2>1, <3>31, <3>2, <3>3 DEF Off, Starting, Stopping, Resting
    <3>5. (path <=> Running \/ stage = "quit_managers")'
      BY <1>1, <2>1, <3>2, <3>3 DEF StageInv, Running, Starting, Stopping, Resting
    <3>6. (time >= TimeDue)'
      BY <2>1, <3>2, <3>3 DEF TimeDue, Off, Starting, Stopping, Resting
    <3>7. (~failed => time = TimeDue)'
      BY <1>1, <2>1, <3>2, <3>3 DEF StageInv, TimeDue, Off, Starting, Stopping, Resting
    <3>8. (Running \/ stage \in {"find_path", "hierarchies", "managers", "set_path"} => env > 0)'
      BY <1>1, <2>1, <3>2, <3>3 DEF StageInv, Running, Starting, Stopping, Resting
    <3> QED BY <3>1, <3>4, <3>5, <3>6, <3>7, <3>8 DEF StageInv
  <2>4. TableInv'
    <3>1. count \in Nat /\ stage \in {"idle"} \cup Starting \cup Stopping
      BY <1>1, BoundAssumption DEF TypeOK
    <3>2. (stage \in Starting => count = 1) /\ (stage \in Stopping => count = 0)
      BY <1>1 DEF StageInv
    <3>3. (stage = "modules" => table = [c \in Classes |-> "absent"])'
      BY <1>1, <2>1 DEF TableInv
    <3>4. (stage \in {"find_path", "hierarchies"} =>
             table = [c \in Classes |-> IF c \in Core THEN "added" ELSE "absent"])'
      BY <1>1, <2>1 DEF TableInv
    <3>5. (Running \/ stage \in {"managers", "set_path"} =>
             table # None /\ \A c \in Core : table[c] = "ready")'
      BY <1>1, <2>1, <3>1, <3>2, ClassAssumption DEF TypeOK, TableInv, Running, Starting, Stopping, Resting, Classes
    <3>6. (stage = "quit_errdbg" => table = None)'
      BY <1>1, <2>1 DEF TableInv
    <3>7. (~failed /\ (Off \/ stage \in {"errdbg", "classes"}) => table = None)'
      BY <1>1, <2>1, <3>1, <3>2 DEF TableInv, Off, Starting, Stopping, Resting
    <3> QED BY <3>3, <3>4, <3>5, <3>6, <3>7 DEF TableInv
  <2>5. ManagerInv'
    <3>1. count \in Nat /\ stage \in {"idle"} \cup Starting \cup Stopping /\ manager \subseteq Managers
      BY <1>1, BoundAssumption DEF TypeOK
    <3>2. (stage \in Starting => count = 1) /\ (stage \in Stopping => count = 0)
      BY <1>1 DEF StageInv
    <3>3. (\A m \in manager : maps[m] = Depth[MapClass])'
      BY <1>1, <2>1, ClassAssumption DEF TypeOK, TableInv, ManagerInv, Hierarchy, Classes
    <3>4. (Running \/ stage = "set_path" => manager = Managers)'
      BY <1>1, <2>1, <3>1, <3>2 DEF ManagerInv, Running, Starting, Stopping, Resting
    <3>5. (~failed /\ ~Running /\ stage \notin {"set_path", "quit_managers"} => manager = {})'
      BY <1>1, <2>1, <3>1, <3>2 DEF ManagerInv, Running, Starting, Stopping, Resting
    <3> QED BY <3>3, <3>4, <3>5 DEF ManagerInv
  <2>6. WorkInv'
    <3>1. (~Running => /\ \A t \in Threads : pc[t].op = "idle"
                       /\ \A c \in Plugins : lib[c] = "absent")'
      BY <1>0, <1>1, <2>1 DEF StageInv, WorkInv, Running, Resting, Starting, Stopping
    <3> QED BY <1>0, <1>1, <3>1 DEF WorkInv, Loading, Unloading, Works
  <2> QED BY <2>2, <2>3, <2>4, <2>5, <2>6 DEF WInv
<1>3. CASE InitStart
  <2>1. /\ Resting /\ count = 0
        /\ count' = 1 /\ stage' = "errdbg" /\ (errdbg' <=> errdbg) /\ time' = time
        /\ env' = env /\ table' = table /\ maps' = maps /\ manager' = manager
        /\ (path' <=> path) /\ starts' = starts + 1 /\ (failed' <=> failed)
    BY <1>3, Zenon DEF InitStart, Application
  <2>2. TypeOK'
    <3>1. {errdbg', path', failed'} \subseteq BOOLEAN
      BY <1>1, <1>3, Zenon DEF TypeOK, InitStart, Application
    <3>2. count' \in 0 .. MaxCount /\ stage' \in {"idle"} \cup Starting \cup Stopping
      BY <1>1, <2>1, BoundAssumption DEF TypeOK, StageInv, Starting, Stopping, Resting
    <3>3. time \in Nat /\ env \in Nat /\ starts \in Nat /\ time >= TimeDue
      BY <1>1 DEF TypeOK, StageInv
    <3>4. time' \in Nat /\ env' \in Nat /\ starts' \in Nat
      BY <2>1, <3>3 DEF TimeDue, Off
    <3>5. table' = None \/ table' \in [Classes -> {"absent", "added", "ready"}]
      BY <1>1, <2>1 DEF TypeOK, TableInv, Classes
    <3>6. maps' \in [Managers -> Nat] /\ manager' \subseteq Managers
      BY <1>1, <2>1, ClassAssumption DEF TypeOK, Hierarchy, Classes
    <3> QED BY <1>0, <1>1, <3>1, <3>2, <3>4, <3>5, <3>6 DEF TypeOK
  <2>3. StageInv'
    <3>1. (stage' \in Starting => count' = 1) /\ (stage' \in Stopping => count' = 0)
      BY <1>1, <2>1 DEF StageInv, Starting, Stopping, Resting
    <3>2. count \in Nat /\ time \in Nat /\ env \in Nat /\ stage \in {"idle"} \cup Starting \cup Stopping
      BY <1>1, BoundAssumption DEF TypeOK
    <3>3. (stage \in Starting => count = 1) /\ (stage \in Stopping => count = 0) /\ time >= TimeDue
      BY <1>1 DEF StageInv
    <3>31. errdbg <=> ~(Off \/ stage = "errdbg")
      BY <1>1 DEF StageInv
    <3>4. (errdbg <=> ~(Off \/ stage = "errdbg"))'
      BY <2>1, <3>31, <3>2, <3>3 DEF Off, Starting, Stopping, Resting
    <3>5. (path <=> Running \/ stage = "quit_managers")'
      BY <1>1, <2>1, <3>2, <3>3 DEF StageInv, Running, Starting, Stopping, Resting
    <3>6. (time >= TimeDue)'
      BY <2>1, <3>2, <3>3 DEF TimeDue, Off, Starting, Stopping, Resting
    <3>7. (~failed => time = TimeDue)'
      BY <1>1, <2>1, <3>2, <3>3 DEF StageInv, TimeDue, Off, Starting, Stopping, Resting
    <3>8. (Running \/ stage \in {"find_path", "hierarchies", "managers", "set_path"} => env > 0)'
      BY <1>1, <2>1, <3>2, <3>3 DEF StageInv, Running, Starting, Stopping, Resting
    <3> QED BY <3>1, <3>4, <3>5, <3>6, <3>7, <3>8 DEF StageInv
  <2>4. TableInv'
    <3>1. count \in Nat /\ stage \in {"idle"} \cup Starting \cup Stopping
      BY <1>1, BoundAssumption DEF TypeOK
    <3>2. (stage \in Starting => count = 1) /\ (stage \in Stopping => count = 0)
      BY <1>1 DEF StageInv
    <3>3. (stage = "modules" => table = [c \in Classes |-> "absent"])'
      BY <1>1, <2>1 DEF TableInv
    <3>4. (stage \in {"find_path", "hierarchies"} =>
             table = [c \in Classes |-> IF c \in Core THEN "added" ELSE "absent"])'
      BY <1>1, <2>1 DEF TableInv
    <3>5. (Running \/ stage \in {"managers", "set_path"} =>
             table # None /\ \A c \in Core : table[c] = "ready")'
      BY <1>1, <2>1, <3>1, <3>2, ClassAssumption DEF TypeOK, TableInv, Running, Starting, Stopping, Resting, Classes
    <3>6. (stage = "quit_errdbg" => table = None)'
      BY <1>1, <2>1 DEF TableInv
    <3>7. (~failed /\ (Off \/ stage \in {"errdbg", "classes"}) => table = None)'
      BY <1>1, <2>1, <3>1, <3>2 DEF TableInv, Off, Starting, Stopping, Resting
    <3> QED BY <3>3, <3>4, <3>5, <3>6, <3>7 DEF TableInv
  <2>5. ManagerInv'
    <3>1. count \in Nat /\ stage \in {"idle"} \cup Starting \cup Stopping /\ manager \subseteq Managers
      BY <1>1, BoundAssumption DEF TypeOK
    <3>2. (stage \in Starting => count = 1) /\ (stage \in Stopping => count = 0)
      BY <1>1 DEF StageInv
    <3>3. (\A m \in manager : maps[m] = Depth[MapClass])'
      BY <1>1, <2>1, ClassAssumption DEF TypeOK, TableInv, ManagerInv, Hierarchy, Classes
    <3>4. (Running \/ stage = "set_path" => manager = Managers)'
      BY <1>1, <2>1, <3>1, <3>2 DEF ManagerInv, Running, Starting, Stopping, Resting
    <3>5. (~failed /\ ~Running /\ stage \notin {"set_path", "quit_managers"} => manager = {})'
      BY <1>1, <2>1, <3>1, <3>2 DEF ManagerInv, Running, Starting, Stopping, Resting
    <3> QED BY <3>3, <3>4, <3>5 DEF ManagerInv
  <2>6. WorkInv'
    <3>1. (~Running => /\ \A t \in Threads : pc[t].op = "idle"
                       /\ \A c \in Plugins : lib[c] = "absent")'
      BY <1>0, <1>1, <2>1 DEF StageInv, WorkInv, Running, Resting, Starting, Stopping
    <3> QED BY <1>0, <1>1, <3>1 DEF WorkInv, Loading, Unloading, Works
  <2> QED BY <2>2, <2>3, <2>4, <2>5, <2>6 DEF WInv
<1>4. CASE StartErrdbg
  <2>0. /\ stage = "errdbg"
        /\ \/ /\ count' = count /\ stage' = "classes" /\ errdbg' = TRUE
              /\ time' = time + 1 /\ failed' = failed
           \/ /\ count' = count - 1 /\ stage' = "idle" /\ errdbg' = errdbg
              /\ time' = time /\ failed' = TRUE
        /\ env' = env /\ table' = table /\ maps' = maps /\ manager' = manager
        /\ path' = path /\ starts' = starts
    BY <1>4, Zenon DEF StartErrdbg, Application, Go, GiveUp
  <2>1. /\ stage = "errdbg"
        /\ \/ /\ count' = count /\ stage' = "classes" /\ errdbg'
              /\ time' = time + 1 /\ (failed' <=> failed)
           \/ /\ count' = count - 1 /\ stage' = "idle" /\ (errdbg' <=> errdbg)
              /\ time' = time /\ failed'
        /\ env' = env /\ table' = table /\ maps' = maps /\ manager' = manager
        /\ (path' <=> path) /\ starts' = starts
    BY <2>0
  <2>2. TypeOK'
    <3>1. {errdbg', path', failed'} \subseteq BOOLEAN
      BY <1>1, <1>4, Zenon DEF TypeOK, StartErrdbg, Application, Go, GiveUp
    <3>2. count' \in 0 .. MaxCount /\ stage' \in {"idle"} \cup Starting \cup Stopping
      BY <1>1, <2>1, BoundAssumption DEF TypeOK, StageInv, Starting, Stopping, Resting
    <3>3. time \in Nat /\ env \in Nat /\ starts \in Nat /\ time >= TimeDue
      BY <1>1 DEF TypeOK, StageInv
    <3>4. time' \in Nat /\ env' \in Nat /\ starts' \in Nat
      BY <2>1, <3>3 DEF TimeDue, Off
    <3>5. table' = None \/ table' \in [Classes -> {"absent", "added", "ready"}]
      BY <1>1, <2>1 DEF TypeOK, TableInv, Classes
    <3>6. maps' \in [Managers -> Nat] /\ manager' \subseteq Managers
      BY <1>1, <2>1, ClassAssumption DEF TypeOK, Hierarchy, Classes
    <3> QED BY <1>0, <1>1, <3>1, <3>2, <3>4, <3>5, <3>6 DEF TypeOK
  <2>3. StageInv'
    <3>1. (stage' \in Starting => count' = 1) /\ (stage' \in Stopping => count' = 0)
      BY <1>1, <2>1 DEF StageInv, Starting, Stopping, Resting
    <3>2. count \in Nat /\ time \in Nat /\ env \in Nat /\ stage \in {"idle"} \cup Starting \cup Stopping
      BY <1>1, BoundAssumption DEF TypeOK
    <3>3. (stage \in Starting => count = 1) /\ (stage \in Stopping => count = 0) /\ time >= TimeDue
      BY <1>1 DEF StageInv
    <3>31. errdbg <=> ~(Off \/ stage = "errdbg")
      BY <1>1 DEF StageInv
    <3>4. (errdbg <=> ~(Off \/ stage = "errdbg"))'
      BY <2>1, <3>31, <3>2, <3>3 DEF Off, Starting, Stopping, Resting
    <3>5. (path <=> Running \/ stage = "quit_managers")'
      BY <1>1, <2>1, <3>2, <3>3 DEF StageInv, Running, Starting, Stopping, Resting
    <3>6. (time >= TimeDue)'
      BY <2>1, <3>2, <3>3 DEF TimeDue, Off, Starting, Stopping, Resting
    <3>7. (~failed => time = TimeDue)'
      BY <1>1, <2>1, <3>2, <3>3 DEF StageInv, TimeDue, Off, Starting, Stopping, Resting
    <3>8. (Running \/ stage \in {"find_path", "hierarchies", "managers", "set_path"} => env > 0)'
      BY <1>1, <2>1, <3>2, <3>3 DEF StageInv, Running, Starting, Stopping, Resting
    <3> QED BY <3>1, <3>4, <3>5, <3>6, <3>7, <3>8 DEF StageInv
  <2>4. TableInv'
    <3>1. count \in Nat /\ stage \in {"idle"} \cup Starting \cup Stopping
      BY <1>1, BoundAssumption DEF TypeOK
    <3>2. (stage \in Starting => count = 1) /\ (stage \in Stopping => count = 0)
      BY <1>1 DEF StageInv
    <3>3. (stage = "modules" => table = [c \in Classes |-> "absent"])'
      BY <1>1, <2>1 DEF TableInv
    <3>4. (stage \in {"find_path", "hierarchies"} =>
             table = [c \in Classes |-> IF c \in Core THEN "added" ELSE "absent"])'
      BY <1>1, <2>1 DEF TableInv
    <3>5. (Running \/ stage \in {"managers", "set_path"} =>
             table # None /\ \A c \in Core : table[c] = "ready")'
      BY <1>1, <2>1, <3>1, <3>2, ClassAssumption DEF TypeOK, TableInv, Running, Starting, Stopping, Resting, Classes
    <3>6. (stage = "quit_errdbg" => table = None)'
      BY <1>1, <2>1 DEF TableInv
    <3>7. (~failed /\ (Off \/ stage \in {"errdbg", "classes"}) => table = None)'
      BY <1>1, <2>1, <3>1, <3>2 DEF TableInv, Off, Starting, Stopping, Resting
    <3> QED BY <3>3, <3>4, <3>5, <3>6, <3>7 DEF TableInv
  <2>5. ManagerInv'
    <3>1. count \in Nat /\ stage \in {"idle"} \cup Starting \cup Stopping /\ manager \subseteq Managers
      BY <1>1, BoundAssumption DEF TypeOK
    <3>2. (stage \in Starting => count = 1) /\ (stage \in Stopping => count = 0)
      BY <1>1 DEF StageInv
    <3>3. (\A m \in manager : maps[m] = Depth[MapClass])'
      BY <1>1, <2>1, ClassAssumption DEF TypeOK, TableInv, ManagerInv, Hierarchy, Classes
    <3>4. (Running \/ stage = "set_path" => manager = Managers)'
      BY <1>1, <2>1, <3>1, <3>2 DEF ManagerInv, Running, Starting, Stopping, Resting
    <3>5. (~failed /\ ~Running /\ stage \notin {"set_path", "quit_managers"} => manager = {})'
      BY <1>1, <2>1, <3>1, <3>2 DEF ManagerInv, Running, Starting, Stopping, Resting
    <3> QED BY <3>3, <3>4, <3>5 DEF ManagerInv
  <2>6. WorkInv'
    <3>1. (~Running => /\ \A t \in Threads : pc[t].op = "idle"
                       /\ \A c \in Plugins : lib[c] = "absent")'
      BY <1>0, <1>1, <2>1 DEF StageInv, WorkInv, Running, Resting, Starting, Stopping
    <3> QED BY <1>0, <1>1, <3>1 DEF WorkInv, Loading, Unloading, Works
  <2> QED BY <2>2, <2>3, <2>4, <2>5, <2>6 DEF WInv
<1>5. CASE StartClasses
  <2>0. /\ stage = "classes"
        /\ \/ /\ count' = count /\ stage' = "modules" /\ errdbg' = errdbg
              /\ time' = time /\ table' = [c \in Classes |-> "absent"]
              /\ failed' = failed
           \/ /\ count' = count - 1 /\ stage' = "idle" /\ errdbg' = FALSE
              /\ time' = time - 1 /\ table' = None /\ failed' = TRUE
        /\ env' = env /\ maps' = maps /\ manager' = manager /\ path' = path
        /\ starts' = starts
    BY <1>5, Zenon DEF StartClasses, Application, Go, GiveUp, QuitErrdbg
  <2>1. /\ stage = "classes"
        /\ \/ /\ count' = count /\ stage' = "modules" /\ (errdbg' <=> errdbg)
              /\ time' = time /\ table' = [c \in Classes |-> "absent"]
              /\ (failed' <=> failed)
           \/ /\ count' = count - 1 /\ stage' = "idle" /\ ~errdbg'
              /\ time' = time - 1 /\ table' = None /\ failed'
        /\ env' = env /\ maps' = maps /\ manager' = manager /\ (path' <=> path)
        /\ starts' = starts
    BY <2>0
  <2>2. TypeOK'
    <3>1. {errdbg', path', failed'} \subseteq BOOLEAN
      BY <1>1, <1>5, Zenon DEF TypeOK, StartClasses, Application, Go, GiveUp, QuitErrdbg
    <3>2. count' \in 0 .. MaxCount /\ stage' \in {"idle"} \cup Starting \cup Stopping
      BY <1>1, <2>1, BoundAssumption DEF TypeOK, StageInv, Starting, Stopping, Resting
    <3>3. time \in Nat /\ env \in Nat /\ starts \in Nat /\ time >= TimeDue
      BY <1>1 DEF TypeOK, StageInv
    <3>4. time' \in Nat /\ env' \in Nat /\ starts' \in Nat
      BY <2>1, <3>3 DEF TimeDue, Off
    <3>5. table' = None \/ table' \in [Classes -> {"absent", "added", "ready"}]
      BY <1>1, <2>1 DEF TypeOK, TableInv, Classes
    <3>6. maps' \in [Managers -> Nat] /\ manager' \subseteq Managers
      BY <1>1, <2>1, ClassAssumption DEF TypeOK, Hierarchy, Classes
    <3> QED BY <1>0, <1>1, <3>1, <3>2, <3>4, <3>5, <3>6 DEF TypeOK
  <2>3. StageInv'
    <3>1. (stage' \in Starting => count' = 1) /\ (stage' \in Stopping => count' = 0)
      BY <1>1, <2>1 DEF StageInv, Starting, Stopping, Resting
    <3>2. count \in Nat /\ time \in Nat /\ env \in Nat /\ stage \in {"idle"} \cup Starting \cup Stopping
      BY <1>1, BoundAssumption DEF TypeOK
    <3>3. (stage \in Starting => count = 1) /\ (stage \in Stopping => count = 0) /\ time >= TimeDue
      BY <1>1 DEF StageInv
    <3>31. errdbg <=> ~(Off \/ stage = "errdbg")
      BY <1>1 DEF StageInv
    <3>4. (errdbg <=> ~(Off \/ stage = "errdbg"))'
      BY <2>1, <3>31, <3>2, <3>3 DEF Off, Starting, Stopping, Resting
    <3>5. (path <=> Running \/ stage = "quit_managers")'
      BY <1>1, <2>1, <3>2, <3>3 DEF StageInv, Running, Starting, Stopping, Resting
    <3>6. (time >= TimeDue)'
      BY <2>1, <3>2, <3>3 DEF TimeDue, Off, Starting, Stopping, Resting
    <3>7. (~failed => time = TimeDue)'
      BY <1>1, <2>1, <3>2, <3>3 DEF StageInv, TimeDue, Off, Starting, Stopping, Resting
    <3>8. (Running \/ stage \in {"find_path", "hierarchies", "managers", "set_path"} => env > 0)'
      BY <1>1, <2>1, <3>2, <3>3 DEF StageInv, Running, Starting, Stopping, Resting
    <3> QED BY <3>1, <3>4, <3>5, <3>6, <3>7, <3>8 DEF StageInv
  <2>4. TableInv'
    <3>1. count \in Nat /\ stage \in {"idle"} \cup Starting \cup Stopping
      BY <1>1, BoundAssumption DEF TypeOK
    <3>2. (stage \in Starting => count = 1) /\ (stage \in Stopping => count = 0)
      BY <1>1 DEF StageInv
    <3>3. (stage = "modules" => table = [c \in Classes |-> "absent"])'
      BY <1>1, <2>1 DEF TableInv
    <3>4. (stage \in {"find_path", "hierarchies"} =>
             table = [c \in Classes |-> IF c \in Core THEN "added" ELSE "absent"])'
      BY <1>1, <2>1 DEF TableInv
    <3>5. (Running \/ stage \in {"managers", "set_path"} =>
             table # None /\ \A c \in Core : table[c] = "ready")'
      BY <1>1, <2>1, <3>1, <3>2, ClassAssumption DEF TypeOK, TableInv, Running, Starting, Stopping, Resting, Classes
    <3>6. (stage = "quit_errdbg" => table = None)'
      BY <1>1, <2>1 DEF TableInv
    <3>7. (~failed /\ (Off \/ stage \in {"errdbg", "classes"}) => table = None)'
      BY <1>1, <2>1, <3>1, <3>2 DEF TableInv, Off, Starting, Stopping, Resting
    <3> QED BY <3>3, <3>4, <3>5, <3>6, <3>7 DEF TableInv
  <2>5. ManagerInv'
    <3>1. count \in Nat /\ stage \in {"idle"} \cup Starting \cup Stopping /\ manager \subseteq Managers
      BY <1>1, BoundAssumption DEF TypeOK
    <3>2. (stage \in Starting => count = 1) /\ (stage \in Stopping => count = 0)
      BY <1>1 DEF StageInv
    <3>3. (\A m \in manager : maps[m] = Depth[MapClass])'
      BY <1>1, <2>1, ClassAssumption DEF TypeOK, TableInv, ManagerInv, Hierarchy, Classes
    <3>4. (Running \/ stage = "set_path" => manager = Managers)'
      BY <1>1, <2>1, <3>1, <3>2 DEF ManagerInv, Running, Starting, Stopping, Resting
    <3>5. (~failed /\ ~Running /\ stage \notin {"set_path", "quit_managers"} => manager = {})'
      BY <1>1, <2>1, <3>1, <3>2 DEF ManagerInv, Running, Starting, Stopping, Resting
    <3> QED BY <3>3, <3>4, <3>5 DEF ManagerInv
  <2>6. WorkInv'
    <3>1. (~Running => /\ \A t \in Threads : pc[t].op = "idle"
                       /\ \A c \in Plugins : lib[c] = "absent")'
      BY <1>0, <1>1, <2>1 DEF StageInv, WorkInv, Running, Resting, Starting, Stopping
    <3> QED BY <1>0, <1>1, <3>1 DEF WorkInv, Loading, Unloading, Works
  <2> QED BY <2>2, <2>3, <2>4, <2>5, <2>6 DEF WInv
<1>6. CASE StartModules
  <2>0. /\ stage = "modules"
        /\ \/ /\ count' = count /\ stage' = "find_path" /\ errdbg' = errdbg
              /\ time' = time + 1 /\ env' = env + 1
              /\ table' = [c \in Classes |-> IF c \in Core THEN "added" ELSE "absent"]
              /\ failed' = failed
           \/ \E some \in SUBSET Core :
                /\ count' = count - 1 /\ stage' = "idle" /\ errdbg' = FALSE
                /\ time' = time /\ env' = env + 1
                /\ table' = [c \in Classes |-> IF c \in some THEN "added" ELSE "absent"]
                /\ failed' = TRUE
        /\ maps' = maps /\ manager' = manager /\ path' = path
        /\ starts' = starts
    BY <1>6, Zenon DEF StartModules, Application, Go, GiveUp
  <2>1. /\ stage = "modules"
        /\ \/ /\ count' = count /\ stage' = "find_path" /\ (errdbg' <=> errdbg)
              /\ time' = time + 1 /\ env' = env + 1
              /\ table' = [c \in Classes |-> IF c \in Core THEN "added" ELSE "absent"]
              /\ (failed' <=> failed)
           \/ \E some \in SUBSET Core :
                /\ count' = count - 1 /\ stage' = "idle" /\ ~errdbg'
                /\ time' = time /\ env' = env + 1
                /\ table' = [c \in Classes |-> IF c \in some THEN "added" ELSE "absent"]
                /\ failed'
        /\ maps' = maps /\ manager' = manager /\ (path' <=> path)
        /\ starts' = starts
    BY <2>0
  <2>2. TypeOK'
    <3>1. {errdbg', path', failed'} \subseteq BOOLEAN
      BY <1>1, <1>6, Zenon DEF TypeOK, StartModules, Application, Go, GiveUp
    <3>2. count' \in 0 .. MaxCount /\ stage' \in {"idle"} \cup Starting \cup Stopping
      BY <1>1, <2>1, BoundAssumption DEF TypeOK, StageInv, Starting, Stopping, Resting
    <3>3. time \in Nat /\ env \in Nat /\ starts \in Nat /\ time >= TimeDue
      BY <1>1 DEF TypeOK, StageInv
    <3>4. time' \in Nat /\ env' \in Nat /\ starts' \in Nat
      BY <2>1, <3>3 DEF TimeDue, Off
    <3>5. table' = None \/ table' \in [Classes -> {"absent", "added", "ready"}]
      BY <1>1, <2>1 DEF TypeOK, TableInv, Classes
    <3>6. maps' \in [Managers -> Nat] /\ manager' \subseteq Managers
      BY <1>1, <2>1, ClassAssumption DEF TypeOK, Hierarchy, Classes
    <3> QED BY <1>0, <1>1, <3>1, <3>2, <3>4, <3>5, <3>6 DEF TypeOK
  <2>3. StageInv'
    <3>1. (stage' \in Starting => count' = 1) /\ (stage' \in Stopping => count' = 0)
      BY <1>1, <2>1 DEF StageInv, Starting, Stopping, Resting
    <3>2. count \in Nat /\ time \in Nat /\ env \in Nat /\ stage \in {"idle"} \cup Starting \cup Stopping
      BY <1>1, BoundAssumption DEF TypeOK
    <3>3. (stage \in Starting => count = 1) /\ (stage \in Stopping => count = 0) /\ time >= TimeDue
      BY <1>1 DEF StageInv
    <3>31. errdbg <=> ~(Off \/ stage = "errdbg")
      BY <1>1 DEF StageInv
    <3>4. (errdbg <=> ~(Off \/ stage = "errdbg"))'
      BY <2>1, <3>31, <3>2, <3>3 DEF Off, Starting, Stopping, Resting
    <3>5. (path <=> Running \/ stage = "quit_managers")'
      BY <1>1, <2>1, <3>2, <3>3 DEF StageInv, Running, Starting, Stopping, Resting
    <3>6. (time >= TimeDue)'
      BY <2>1, <3>2, <3>3 DEF TimeDue, Off, Starting, Stopping, Resting
    <3>7. (~failed => time = TimeDue)'
      BY <1>1, <2>1, <3>2, <3>3 DEF StageInv, TimeDue, Off, Starting, Stopping, Resting
    <3>8. (Running \/ stage \in {"find_path", "hierarchies", "managers", "set_path"} => env > 0)'
      BY <1>1, <2>1, <3>2, <3>3 DEF StageInv, Running, Starting, Stopping, Resting
    <3> QED BY <3>1, <3>4, <3>5, <3>6, <3>7, <3>8 DEF StageInv
  <2>4. TableInv'
    <3>1. count \in Nat /\ stage \in {"idle"} \cup Starting \cup Stopping
      BY <1>1, BoundAssumption DEF TypeOK
    <3>2. (stage \in Starting => count = 1) /\ (stage \in Stopping => count = 0)
      BY <1>1 DEF StageInv
    <3>3. (stage = "modules" => table = [c \in Classes |-> "absent"])'
      BY <1>1, <2>1 DEF TableInv
    <3>4. (stage \in {"find_path", "hierarchies"} =>
             table = [c \in Classes |-> IF c \in Core THEN "added" ELSE "absent"])'
      BY <1>1, <2>1 DEF TableInv
    <3>5. (Running \/ stage \in {"managers", "set_path"} =>
             table # None /\ \A c \in Core : table[c] = "ready")'
      BY <1>1, <2>1, <3>1, <3>2, ClassAssumption DEF TypeOK, TableInv, Running, Starting, Stopping, Resting, Classes
    <3>6. (stage = "quit_errdbg" => table = None)'
      BY <1>1, <2>1 DEF TableInv
    <3>7. (~failed /\ (Off \/ stage \in {"errdbg", "classes"}) => table = None)'
      BY <1>1, <2>1, <3>1, <3>2 DEF TableInv, Off, Starting, Stopping, Resting
    <3> QED BY <3>3, <3>4, <3>5, <3>6, <3>7 DEF TableInv
  <2>5. ManagerInv'
    <3>1. count \in Nat /\ stage \in {"idle"} \cup Starting \cup Stopping /\ manager \subseteq Managers
      BY <1>1, BoundAssumption DEF TypeOK
    <3>2. (stage \in Starting => count = 1) /\ (stage \in Stopping => count = 0)
      BY <1>1 DEF StageInv
    <3>3. (\A m \in manager : maps[m] = Depth[MapClass])'
      BY <1>1, <2>1, ClassAssumption DEF TypeOK, TableInv, ManagerInv, Hierarchy, Classes
    <3>4. (Running \/ stage = "set_path" => manager = Managers)'
      BY <1>1, <2>1, <3>1, <3>2 DEF ManagerInv, Running, Starting, Stopping, Resting
    <3>5. (~failed /\ ~Running /\ stage \notin {"set_path", "quit_managers"} => manager = {})'
      BY <1>1, <2>1, <3>1, <3>2 DEF ManagerInv, Running, Starting, Stopping, Resting
    <3> QED BY <3>3, <3>4, <3>5 DEF ManagerInv
  <2>6. WorkInv'
    <3>1. (~Running => /\ \A t \in Threads : pc[t].op = "idle"
                       /\ \A c \in Plugins : lib[c] = "absent")'
      BY <1>0, <1>1, <2>1 DEF StageInv, WorkInv, Running, Resting, Starting, Stopping
    <3> QED BY <1>0, <1>1, <3>1 DEF WorkInv, Loading, Unloading, Works
  <2> QED BY <2>2, <2>3, <2>4, <2>5, <2>6 DEF WInv
<1>7. CASE StartFindPath
  <2>0. /\ stage = "find_path"
        /\ \/ /\ count' = count /\ stage' = "hierarchies" /\ errdbg' = errdbg
              /\ time' = time /\ failed' = failed
           \/ /\ count' = count - 1 /\ stage' = "idle" /\ errdbg' = FALSE
              /\ time' = time - 1 /\ failed' = TRUE
        /\ env' = env /\ table' = table /\ maps' = maps /\ manager' = manager
        /\ path' = path /\ starts' = starts
    BY <1>7, Zenon DEF StartFindPath, Application, Go, GiveUp, QuitErrdbg
  <2>1. /\ stage = "find_path"
        /\ \/ /\ count' = count /\ stage' = "hierarchies" /\ (errdbg' <=> errdbg)
              /\ time' = time /\ (failed' <=> failed)
           \/ /\ count' = count - 1 /\ stage' = "idle" /\ ~errdbg'
              /\ time' = time - 1 /\ failed'
        /\ env' = env /\ table' = table /\ maps' = maps /\ manager' = manager
        /\ (path' <=> path) /\ starts' = starts
    BY <2>0
  <2>2. TypeOK'
    <3>1. {errdbg', path', failed'} \subseteq BOOLEAN
      BY <1>1, <1>7, Zenon DEF TypeOK, StartFindPath, Application, Go, GiveUp, QuitErrdbg
    <3>2. count' \in 0 .. MaxCount /\ stage' \in {"idle"} \cup Starting \cup Stopping
      BY <1>1, <2>1, BoundAssumption DEF TypeOK, StageInv, Starting, Stopping, Resting
    <3>3. time \in Nat /\ env \in Nat /\ starts \in Nat /\ time >= TimeDue
      BY <1>1 DEF TypeOK, StageInv
    <3>4. time' \in Nat /\ env' \in Nat /\ starts' \in Nat
      BY <2>1, <3>3 DEF TimeDue, Off
    <3>5. table' = None \/ table' \in [Classes -> {"absent", "added", "ready"}]
      BY <1>1, <2>1 DEF TypeOK, TableInv, Classes
    <3>6. maps' \in [Managers -> Nat] /\ manager' \subseteq Managers
      BY <1>1, <2>1, ClassAssumption DEF TypeOK, Hierarchy, Classes
    <3> QED BY <1>0, <1>1, <3>1, <3>2, <3>4, <3>5, <3>6 DEF TypeOK
  <2>3. StageInv'
    <3>1. (stage' \in Starting => count' = 1) /\ (stage' \in Stopping => count' = 0)
      BY <1>1, <2>1 DEF StageInv, Starting, Stopping, Resting
    <3>2. count \in Nat /\ time \in Nat /\ env \in Nat /\ stage \in {"idle"} \cup Starting \cup Stopping
      BY <1>1, BoundAssumption DEF TypeOK
    <3>3. (stage \in Starting => count = 1) /\ (stage \in Stopping => count = 0) /\ time >= TimeDue
      BY <1>1 DEF StageInv
    <3>31. errdbg <=> ~(Off \/ stage = "errdbg")
      BY <1>1 DEF StageInv
    <3>4. (errdbg <=> ~(Off \/ stage = "errdbg"))'
      BY <2>1, <3>31, <3>2, <3>3 DEF Off, Starting, Stopping, Resting
    <3>5. (path <=> Running \/ stage = "quit_managers")'
      BY <1>1, <2>1, <3>2, <3>3 DEF StageInv, Running, Starting, Stopping, Resting
    <3>6. (time >= TimeDue)'
      BY <2>1, <3>2, <3>3 DEF TimeDue, Off, Starting, Stopping, Resting
    <3>7. (~failed => time = TimeDue)'
      BY <1>1, <2>1, <3>2, <3>3 DEF StageInv, TimeDue, Off, Starting, Stopping, Resting
    <3>8. (Running \/ stage \in {"find_path", "hierarchies", "managers", "set_path"} => env > 0)'
      BY <1>1, <2>1, <3>2, <3>3 DEF StageInv, Running, Starting, Stopping, Resting
    <3> QED BY <3>1, <3>4, <3>5, <3>6, <3>7, <3>8 DEF StageInv
  <2>4. TableInv'
    <3>1. count \in Nat /\ stage \in {"idle"} \cup Starting \cup Stopping
      BY <1>1, BoundAssumption DEF TypeOK
    <3>2. (stage \in Starting => count = 1) /\ (stage \in Stopping => count = 0)
      BY <1>1 DEF StageInv
    <3>3. (stage = "modules" => table = [c \in Classes |-> "absent"])'
      BY <1>1, <2>1 DEF TableInv
    <3>4. (stage \in {"find_path", "hierarchies"} =>
             table = [c \in Classes |-> IF c \in Core THEN "added" ELSE "absent"])'
      BY <1>1, <2>1 DEF TableInv
    <3>5. (Running \/ stage \in {"managers", "set_path"} =>
             table # None /\ \A c \in Core : table[c] = "ready")'
      BY <1>1, <2>1, <3>1, <3>2, ClassAssumption DEF TypeOK, TableInv, Running, Starting, Stopping, Resting, Classes
    <3>6. (stage = "quit_errdbg" => table = None)'
      BY <1>1, <2>1 DEF TableInv
    <3>7. (~failed /\ (Off \/ stage \in {"errdbg", "classes"}) => table = None)'
      BY <1>1, <2>1, <3>1, <3>2 DEF TableInv, Off, Starting, Stopping, Resting
    <3> QED BY <3>3, <3>4, <3>5, <3>6, <3>7 DEF TableInv
  <2>5. ManagerInv'
    <3>1. count \in Nat /\ stage \in {"idle"} \cup Starting \cup Stopping /\ manager \subseteq Managers
      BY <1>1, BoundAssumption DEF TypeOK
    <3>2. (stage \in Starting => count = 1) /\ (stage \in Stopping => count = 0)
      BY <1>1 DEF StageInv
    <3>3. (\A m \in manager : maps[m] = Depth[MapClass])'
      BY <1>1, <2>1, ClassAssumption DEF TypeOK, TableInv, ManagerInv, Hierarchy, Classes
    <3>4. (Running \/ stage = "set_path" => manager = Managers)'
      BY <1>1, <2>1, <3>1, <3>2 DEF ManagerInv, Running, Starting, Stopping, Resting
    <3>5. (~failed /\ ~Running /\ stage \notin {"set_path", "quit_managers"} => manager = {})'
      BY <1>1, <2>1, <3>1, <3>2 DEF ManagerInv, Running, Starting, Stopping, Resting
    <3> QED BY <3>3, <3>4, <3>5 DEF ManagerInv
  <2>6. WorkInv'
    <3>1. (~Running => /\ \A t \in Threads : pc[t].op = "idle"
                       /\ \A c \in Plugins : lib[c] = "absent")'
      BY <1>0, <1>1, <2>1 DEF StageInv, WorkInv, Running, Resting, Starting, Stopping
    <3> QED BY <1>0, <1>1, <3>1 DEF WorkInv, Loading, Unloading, Works
  <2> QED BY <2>2, <2>3, <2>4, <2>5, <2>6 DEF WInv
<1>8. CASE StartHierarchies
  <2>0. /\ stage = "hierarchies"
        /\ \/ /\ count' = count /\ stage' = "managers" /\ errdbg' = errdbg
              /\ time' = time /\ env' = env
              /\ table' = [c \in Classes |-> IF table[c] = "added" THEN "ready" ELSE table[c]]
              /\ failed' = failed
           \/ /\ count' = count - 1 /\ stage' = "idle" /\ errdbg' = FALSE
              /\ time' = time - 2 /\ env' = env + 1 /\ table' = table /\ failed' = TRUE
        /\ maps' = maps /\ manager' = manager /\ path' = path
        /\ starts' = starts
    BY <1>8, Zenon DEF StartHierarchies, Application, Go, GiveUp
  <2>1. /\ stage = "hierarchies"
        /\ \/ /\ count' = count /\ stage' = "managers" /\ (errdbg' <=> errdbg)
              /\ time' = time /\ env' = env
              /\ table' = [c \in Classes |-> IF table[c] = "added" THEN "ready" ELSE table[c]]
              /\ (failed' <=> failed)
           \/ /\ count' = count - 1 /\ stage' = "idle" /\ ~errdbg'
              /\ time' = time - 2 /\ env' = env + 1 /\ table' = table /\ failed'
        /\ maps' = maps /\ manager' = manager /\ (path' <=> path)
        /\ starts' = starts
    BY <2>0
  <2>2. TypeOK'
    <3>1. {errdbg', path', failed'} \subseteq BOOLEAN
      BY <1>1, <1>8, Zenon DEF TypeOK, StartHierarchies, Application, Go, GiveUp
    <3>2. count' \in 0 .. MaxCount /\ stage' \in {"idle"} \cup Starting \cup Stopping
      BY <1>1, <2>1, BoundAssumption DEF TypeOK, StageInv, Starting, Stopping, Resting
    <3>3. time \in Nat /\ env \in Nat /\ starts \in Nat /\ time >= TimeDue
      BY <1>1 DEF TypeOK, StageInv
    <3>4. time' \in Nat /\ env' \in Nat /\ starts' \in Nat
      BY <2>1, <3>3 DEF TimeDue, Off
    <3>5. table' = None \/ table' \in [Classes -> {"absent", "added", "ready"}]
      BY <1>1, <2>1 DEF TypeOK, TableInv, Classes
    <3>6. maps' \in [Managers -> Nat] /\ manager' \subseteq Managers
      BY <1>1, <2>1, ClassAssumption DEF TypeOK, Hierarchy, Classes
    <3> QED BY <1>0, <1>1, <3>1, <3>2, <3>4, <3>5, <3>6 DEF TypeOK
  <2>3. StageInv'
    <3>1. (stage' \in Starting => count' = 1) /\ (stage' \in Stopping => count' = 0)
      BY <1>1, <2>1 DEF StageInv, Starting, Stopping, Resting
    <3>2. count \in Nat /\ time \in Nat /\ env \in Nat /\ stage \in {"idle"} \cup Starting \cup Stopping
      BY <1>1, BoundAssumption DEF TypeOK
    <3>3. (stage \in Starting => count = 1) /\ (stage \in Stopping => count = 0) /\ time >= TimeDue
      BY <1>1 DEF StageInv
    <3>31. errdbg <=> ~(Off \/ stage = "errdbg")
      BY <1>1 DEF StageInv
    <3>4. (errdbg <=> ~(Off \/ stage = "errdbg"))'
      BY <2>1, <3>31, <3>2, <3>3 DEF Off, Starting, Stopping, Resting
    <3>5. (path <=> Running \/ stage = "quit_managers")'
      BY <1>1, <2>1, <3>2, <3>3 DEF StageInv, Running, Starting, Stopping, Resting
    <3>6. (time >= TimeDue)'
      BY <2>1, <3>2, <3>3 DEF TimeDue, Off, Starting, Stopping, Resting
    <3>7. (~failed => time = TimeDue)'
      BY <1>1, <2>1, <3>2, <3>3 DEF StageInv, TimeDue, Off, Starting, Stopping, Resting
    <3>8. (Running \/ stage \in {"find_path", "hierarchies", "managers", "set_path"} => env > 0)'
      BY <1>1, <2>1, <3>2, <3>3 DEF StageInv, Running, Starting, Stopping, Resting
    <3> QED BY <3>1, <3>4, <3>5, <3>6, <3>7, <3>8 DEF StageInv
  <2>4. TableInv'
    <3>1. count \in Nat /\ stage \in {"idle"} \cup Starting \cup Stopping
      BY <1>1, BoundAssumption DEF TypeOK
    <3>2. (stage \in Starting => count = 1) /\ (stage \in Stopping => count = 0)
      BY <1>1 DEF StageInv
    <3>3. (stage = "modules" => table = [c \in Classes |-> "absent"])'
      BY <1>1, <2>1 DEF TableInv
    <3>4. (stage \in {"find_path", "hierarchies"} =>
             table = [c \in Classes |-> IF c \in Core THEN "added" ELSE "absent"])'
      BY <1>1, <2>1 DEF TableInv
    <3>5. (Running \/ stage \in {"managers", "set_path"} =>
             table # None /\ \A c \in Core : table[c] = "ready")'
      <4>1. stage' = "managers" \/ (stage' = "idle" /\ count' = count - 1)
        BY <2>1
      <4>2. \A c \in Core : c \in Classes /\ table[c] = "added"
        BY <1>1, <2>1 DEF TableInv, Classes
      <4>3. CASE stage' = "idle" /\ count' = count - 1
        BY <2>1, <3>1, <3>2, <4>3 DEF Running, Starting
      <4>4. CASE stage' = "managers"
        <5>0. table' = [c \in Classes |-> IF table[c] = "added" THEN "ready" ELSE table[c]]
          BY <2>1, <4>4
        <5>1. table' # None
          <6>1. table = [c \in Classes |-> IF c \in Core THEN "added" ELSE "absent"]
            BY <1>1, <2>1 DEF TableInv
          <6>2. table' \in [Classes -> {"absent", "added", "ready"}]
            BY <5>0, <6>1
          <6> QED BY <6>2, ClassAssumption
        <5> QED BY <4>2, <5>0, <5>1
      <4> QED BY <4>1, <4>3, <4>4
    <3>6. (stage = "quit_errdbg" => table = None)'
      BY <1>1, <2>1 DEF TableInv
    <3>7. (~failed /\ (Off \/ stage \in {"errdbg", "classes"}) => table = None)'
      BY <1>1, <2>1, <3>1, <3>2 DEF TableInv, Off, Starting, Stopping, Resting
    <3> QED BY <3>3, <3>4, <3>5, <3>6, <3>7 DEF TableInv
  <2>5. ManagerInv'
    <3>1. count \in Nat /\ stage \in {"idle"} \cup Starting \cup Stopping /\ manager \subseteq Managers
      BY <1>1, BoundAssumption DEF TypeOK
    <3>2. (stage \in Starting => count = 1) /\ (stage \in Stopping => count = 0)
      BY <1>1 DEF StageInv
    <3>3. (\A m \in manager : maps[m] = Depth[MapClass])'
      BY <1>1, <2>1, ClassAssumption DEF TypeOK, TableInv, ManagerInv, Hierarchy, Classes
    <3>4. (Running \/ stage = "set_path" => manager = Managers)'
      BY <1>1, <2>1, <3>1, <3>2 DEF ManagerInv, Running, Starting, Stopping, Resting
    <3>5. (~failed /\ ~Running /\ stage \notin {"set_path", "quit_managers"} => manager = {})'
      BY <1>1, <2>1, <3>1, <3>2 DEF ManagerInv, Running, Starting, Stopping, Resting
    <3> QED BY <3>3, <3>4, <3>5 DEF ManagerInv
  <2>6. WorkInv'
    <3>1. (~Running => /\ \A t \in Threads : pc[t].op = "idle"
                       /\ \A c \in Plugins : lib[c] = "absent")'
      BY <1>0, <1>1, <2>1 DEF StageInv, WorkInv, Running, Resting, Starting, Stopping
    <3> QED BY <1>0, <1>1, <3>1 DEF WorkInv, Loading, Unloading, Works
  <2> QED BY <2>2, <2>3, <2>4, <2>5, <2>6 DEF WInv
<1>9. CASE StartManagers
  <2>1. /\ stage = "managers"
        /\ \/ /\ count' = count /\ stage' = "set_path" /\ (errdbg' <=> errdbg)
              /\ time' = time /\ env' = env /\ table' = table
              /\ maps' = [m \in Managers |-> IF m \in manager THEN maps[m] ELSE Hierarchy(MapClass)]
              /\ manager' = Managers /\ (failed' <=> failed)
           \/ \E bad \in SUBSET (Managers \ manager) :
                /\ count' = count - 1 /\ stage' = "idle" /\ ~errdbg'
                /\ time' = time - 2 /\ env' = env + 1 /\ table' = None
                /\ maps' = [m \in Managers |-> IF m \in manager THEN maps[m]
                       ELSE IF m \in bad THEN 0 ELSE Hierarchy(MapClass)]
                /\ manager' = Managers \ bad /\ failed'
        /\ (path' <=> path) /\ starts' = starts
    BY <1>9, Zenon DEF StartManagers, Application, Go, UndoModules, GiveUp
  <2>2. TypeOK'
    <3>1. {errdbg', path', failed'} \subseteq BOOLEAN
      BY <1>1, <1>9, Zenon DEF TypeOK, StartManagers, Application, Go, UndoModules, GiveUp
    <3>2. count' \in 0 .. MaxCount /\ stage' \in {"idle"} \cup Starting \cup Stopping
      BY <1>1, <2>1, BoundAssumption DEF TypeOK, StageInv, Starting, Stopping, Resting
    <3>3. time \in Nat /\ env \in Nat /\ starts \in Nat /\ time >= TimeDue
      BY <1>1 DEF TypeOK, StageInv
    <3>4. time' \in Nat /\ env' \in Nat /\ starts' \in Nat
      BY <2>1, <3>3 DEF TimeDue, Off
    <3>5. table' = None \/ table' \in [Classes -> {"absent", "added", "ready"}]
      BY <1>1, <2>1 DEF TypeOK, TableInv, Classes
    <3>6. maps' \in [Managers -> Nat] /\ manager' \subseteq Managers
      BY <1>1, <2>1, ClassAssumption DEF TypeOK, Hierarchy, Classes
    <3> QED BY <1>0, <1>1, <3>1, <3>2, <3>4, <3>5, <3>6 DEF TypeOK
  <2>3. StageInv'
    <3>1. (stage' \in Starting => count' = 1) /\ (stage' \in Stopping => count' = 0)
      BY <1>1, <2>1 DEF StageInv, Starting, Stopping, Resting
    <3>2. count \in Nat /\ time \in Nat /\ env \in Nat /\ stage \in {"idle"} \cup Starting \cup Stopping
      BY <1>1, BoundAssumption DEF TypeOK
    <3>3. (stage \in Starting => count = 1) /\ (stage \in Stopping => count = 0) /\ time >= TimeDue
      BY <1>1 DEF StageInv
    <3>31. errdbg <=> ~(Off \/ stage = "errdbg")
      BY <1>1 DEF StageInv
    <3>4. (errdbg <=> ~(Off \/ stage = "errdbg"))'
      BY <2>1, <3>31, <3>2, <3>3 DEF Off, Starting, Stopping, Resting
    <3>5. (path <=> Running \/ stage = "quit_managers")'
      BY <1>1, <2>1, <3>2, <3>3 DEF StageInv, Running, Starting, Stopping, Resting
    <3>6. (time >= TimeDue)'
      BY <2>1, <3>2, <3>3 DEF TimeDue, Off, Starting, Stopping, Resting
    <3>7. (~failed => time = TimeDue)'
      BY <1>1, <2>1, <3>2, <3>3 DEF StageInv, TimeDue, Off, Starting, Stopping, Resting
    <3>8. (Running \/ stage \in {"find_path", "hierarchies", "managers", "set_path"} => env > 0)'
      BY <1>1, <2>1, <3>2, <3>3 DEF StageInv, Running, Starting, Stopping, Resting
    <3> QED BY <3>1, <3>4, <3>5, <3>6, <3>7, <3>8 DEF StageInv
  <2>4. TableInv'
    <3>1. count \in Nat /\ stage \in {"idle"} \cup Starting \cup Stopping
      BY <1>1, BoundAssumption DEF TypeOK
    <3>2. (stage \in Starting => count = 1) /\ (stage \in Stopping => count = 0)
      BY <1>1 DEF StageInv
    <3>3. (stage = "modules" => table = [c \in Classes |-> "absent"])'
      BY <1>1, <2>1 DEF TableInv
    <3>4. (stage \in {"find_path", "hierarchies"} =>
             table = [c \in Classes |-> IF c \in Core THEN "added" ELSE "absent"])'
      BY <1>1, <2>1 DEF TableInv
    <3>5. (Running \/ stage \in {"managers", "set_path"} =>
             table # None /\ \A c \in Core : table[c] = "ready")'
      BY <1>1, <2>1, <3>1, <3>2, ClassAssumption DEF TypeOK, TableInv, Running, Starting, Stopping, Resting, Classes
    <3>6. (stage = "quit_errdbg" => table = None)'
      BY <1>1, <2>1 DEF TableInv
    <3>7. (~failed /\ (Off \/ stage \in {"errdbg", "classes"}) => table = None)'
      BY <1>1, <2>1, <3>1, <3>2 DEF TableInv, Off, Starting, Stopping, Resting
    <3> QED BY <3>3, <3>4, <3>5, <3>6, <3>7 DEF TableInv
  <2>5. ManagerInv'
    <3>1. count \in Nat /\ stage \in {"idle"} \cup Starting \cup Stopping /\ manager \subseteq Managers
      BY <1>1, BoundAssumption DEF TypeOK
    <3>2. (stage \in Starting => count = 1) /\ (stage \in Stopping => count = 0)
      BY <1>1 DEF StageInv
    <3>3. (\A m \in manager : maps[m] = Depth[MapClass])'
      BY <1>1, <2>1, ClassAssumption DEF TypeOK, TableInv, ManagerInv, Hierarchy, Classes
    <3>4. (Running \/ stage = "set_path" => manager = Managers)'
      BY <1>1, <2>1, <3>1, <3>2 DEF ManagerInv, Running, Starting, Stopping, Resting
    <3>5. (~failed /\ ~Running /\ stage \notin {"set_path", "quit_managers"} => manager = {})'
      BY <1>1, <2>1, <3>1, <3>2 DEF ManagerInv, Running, Starting, Stopping, Resting
    <3> QED BY <3>3, <3>4, <3>5 DEF ManagerInv
  <2>6. WorkInv'
    <3>1. (~Running => /\ \A t \in Threads : pc[t].op = "idle"
                       /\ \A c \in Plugins : lib[c] = "absent")'
      BY <1>0, <1>1, <2>1 DEF StageInv, WorkInv, Running, Resting, Starting, Stopping
    <3> QED BY <1>0, <1>1, <3>1 DEF WorkInv, Loading, Unloading, Works
  <2> QED BY <2>2, <2>3, <2>4, <2>5, <2>6 DEF WInv
<1>10. CASE StartSetPath
  <2>0. /\ stage = "set_path"
        /\ \/ /\ count' = count /\ stage' = "idle" /\ errdbg' = errdbg
              /\ time' = time /\ env' = env /\ table' = table /\ maps' = maps
              /\ manager' = manager /\ path' = TRUE /\ failed' = failed
           \/ /\ count' = count - 1 /\ stage' = "idle" /\ errdbg' = FALSE
              /\ time' = time - 2 /\ env' = env + 1 /\ table' = None
              /\ maps' = [m \in Managers |-> 0] /\ manager' = {} /\ path' = FALSE
              /\ failed' = TRUE
        /\ starts' = starts
    BY <1>10, Zenon DEF StartSetPath, Application, Go, UndoModules, GiveUp, QuitManagers
  <2>1. /\ stage = "set_path"
        /\ \/ /\ count' = count /\ stage' = "idle" /\ (errdbg' <=> errdbg)
              /\ time' = time /\ env' = env /\ table' = table /\ maps' = maps
              /\ manager' = manager /\ path' /\ (failed' <=> failed)
           \/ /\ count' = count - 1 /\ stage' = "idle" /\ ~errdbg'
              /\ time' = time - 2 /\ env' = env + 1 /\ table' = None
              /\ maps' = [m \in Managers |-> 0] /\ manager' = {} /\ ~path'
              /\ failed'
        /\ starts' = starts
    BY <2>0
  <2>2. TypeOK'
    <3>1. {errdbg', path', failed'} \subseteq BOOLEAN
      BY <1>1, <1>10, Zenon DEF TypeOK, StartSetPath, Application, Go, UndoModules, GiveUp, QuitManagers
    <3>2. count' \in 0 .. MaxCount /\ stage' \in {"idle"} \cup Starting \cup Stopping
      BY <1>1, <2>1, BoundAssumption DEF TypeOK, StageInv, Starting, Stopping, Resting
    <3>3. time \in Nat /\ env \in Nat /\ starts \in Nat /\ time >= TimeDue
      BY <1>1 DEF TypeOK, StageInv
    <3>4. time' \in Nat /\ env' \in Nat /\ starts' \in Nat
      BY <2>1, <3>3 DEF TimeDue, Off
    <3>5. table' = None \/ table' \in [Classes -> {"absent", "added", "ready"}]
      BY <1>1, <2>1 DEF TypeOK, TableInv, Classes
    <3>6. maps' \in [Managers -> Nat] /\ manager' \subseteq Managers
      BY <1>1, <2>1, ClassAssumption DEF TypeOK, Hierarchy, Classes
    <3> QED BY <1>0, <1>1, <3>1, <3>2, <3>4, <3>5, <3>6 DEF TypeOK
  <2>3. StageInv'
    <3>1. (stage' \in Starting => count' = 1) /\ (stage' \in Stopping => count' = 0)
      BY <1>1, <2>1 DEF StageInv, Starting, Stopping, Resting
    <3>2. count \in Nat /\ time \in Nat /\ env \in Nat /\ stage \in {"idle"} \cup Starting \cup Stopping
      BY <1>1, BoundAssumption DEF TypeOK
    <3>3. (stage \in Starting => count = 1) /\ (stage \in Stopping => count = 0) /\ time >= TimeDue
      BY <1>1 DEF StageInv
    <3>31. errdbg <=> ~(Off \/ stage = "errdbg")
      BY <1>1 DEF StageInv
    <3>4. (errdbg <=> ~(Off \/ stage = "errdbg"))'
      BY <2>1, <3>31, <3>2, <3>3 DEF Off, Starting, Stopping, Resting
    <3>5. (path <=> Running \/ stage = "quit_managers")'
      BY <1>1, <2>1, <3>2, <3>3 DEF StageInv, Running, Starting, Stopping, Resting
    <3>6. (time >= TimeDue)'
      BY <2>1, <3>2, <3>3 DEF TimeDue, Off, Starting, Stopping, Resting
    <3>7. (~failed => time = TimeDue)'
      BY <1>1, <2>1, <3>2, <3>3 DEF StageInv, TimeDue, Off, Starting, Stopping, Resting
    <3>8. (Running \/ stage \in {"find_path", "hierarchies", "managers", "set_path"} => env > 0)'
      BY <1>1, <2>1, <3>2, <3>3 DEF StageInv, Running, Starting, Stopping, Resting
    <3> QED BY <3>1, <3>4, <3>5, <3>6, <3>7, <3>8 DEF StageInv
  <2>4. TableInv'
    <3>1. count \in Nat /\ stage \in {"idle"} \cup Starting \cup Stopping
      BY <1>1, BoundAssumption DEF TypeOK
    <3>2. (stage \in Starting => count = 1) /\ (stage \in Stopping => count = 0)
      BY <1>1 DEF StageInv
    <3>3. (stage = "modules" => table = [c \in Classes |-> "absent"])'
      BY <1>1, <2>1 DEF TableInv
    <3>4. (stage \in {"find_path", "hierarchies"} =>
             table = [c \in Classes |-> IF c \in Core THEN "added" ELSE "absent"])'
      BY <1>1, <2>1 DEF TableInv
    <3>5. (Running \/ stage \in {"managers", "set_path"} =>
             table # None /\ \A c \in Core : table[c] = "ready")'
      BY <1>1, <2>1, <3>1, <3>2, ClassAssumption DEF TypeOK, TableInv, Running, Starting, Stopping, Resting, Classes
    <3>6. (stage = "quit_errdbg" => table = None)'
      BY <1>1, <2>1 DEF TableInv
    <3>7. (~failed /\ (Off \/ stage \in {"errdbg", "classes"}) => table = None)'
      BY <1>1, <2>1, <3>1, <3>2 DEF TableInv, Off, Starting, Stopping, Resting
    <3> QED BY <3>3, <3>4, <3>5, <3>6, <3>7 DEF TableInv
  <2>5. ManagerInv'
    <3>1. count \in Nat /\ stage \in {"idle"} \cup Starting \cup Stopping /\ manager \subseteq Managers
      BY <1>1, BoundAssumption DEF TypeOK
    <3>2. (stage \in Starting => count = 1) /\ (stage \in Stopping => count = 0)
      BY <1>1 DEF StageInv
    <3>3. (\A m \in manager : maps[m] = Depth[MapClass])'
      BY <1>1, <2>1, ClassAssumption DEF TypeOK, TableInv, ManagerInv, Hierarchy, Classes
    <3>4. (Running \/ stage = "set_path" => manager = Managers)'
      BY <1>1, <2>1, <3>1, <3>2 DEF ManagerInv, Running, Starting, Stopping, Resting
    <3>5. (~failed /\ ~Running /\ stage \notin {"set_path", "quit_managers"} => manager = {})'
      BY <1>1, <2>1, <3>1, <3>2 DEF ManagerInv, Running, Starting, Stopping, Resting
    <3> QED BY <3>3, <3>4, <3>5 DEF ManagerInv
  <2>6. WorkInv'
    <3>1. (~Running => /\ \A t \in Threads : pc[t].op = "idle"
                       /\ \A c \in Plugins : lib[c] = "absent")'
      BY <1>0, <1>1, <2>1 DEF StageInv, WorkInv, Running, Resting, Starting, Stopping
    <3> QED BY <1>0, <1>1, <3>1 DEF WorkInv, Loading, Unloading, Works
  <2> QED BY <2>2, <2>3, <2>4, <2>5, <2>6 DEF WInv
<1>11. CASE QuitAgain
  <2>1. /\ Resting /\ count > 1
        /\ count' = count - 1 /\ stage' = stage /\ (errdbg' <=> errdbg)
        /\ time' = time /\ env' = env /\ table' = table /\ maps' = maps
        /\ manager' = manager /\ (path' <=> path) /\ starts' = starts
        /\ (failed' <=> failed)
    BY <1>11, Zenon DEF QuitAgain, Application
  <2>2. TypeOK'
    <3>1. {errdbg', path', failed'} \subseteq BOOLEAN
      BY <1>1, <1>11, Zenon DEF TypeOK, QuitAgain, Application
    <3>2. count' \in 0 .. MaxCount /\ stage' \in {"idle"} \cup Starting \cup Stopping
      BY <1>1, <2>1, BoundAssumption DEF TypeOK, StageInv, Starting, Stopping, Resting
    <3>3. time \in Nat /\ env \in Nat /\ starts \in Nat /\ time >= TimeDue
      BY <1>1 DEF TypeOK, StageInv
    <3>4. time' \in Nat /\ env' \in Nat /\ starts' \in Nat
      BY <2>1, <3>3 DEF TimeDue, Off
    <3>5. table' = None \/ table' \in [Classes -> {"absent", "added", "ready"}]
      BY <1>1, <2>1 DEF TypeOK, TableInv, Classes
    <3>6. maps' \in [Managers -> Nat] /\ manager' \subseteq Managers
      BY <1>1, <2>1, ClassAssumption DEF TypeOK, Hierarchy, Classes
    <3> QED BY <1>0, <1>1, <3>1, <3>2, <3>4, <3>5, <3>6 DEF TypeOK
  <2>3. StageInv'
    <3>1. (stage' \in Starting => count' = 1) /\ (stage' \in Stopping => count' = 0)
      BY <1>1, <2>1 DEF StageInv, Starting, Stopping, Resting
    <3>2. count \in Nat /\ time \in Nat /\ env \in Nat /\ stage \in {"idle"} \cup Starting \cup Stopping
      BY <1>1, BoundAssumption DEF TypeOK
    <3>3. (stage \in Starting => count = 1) /\ (stage \in Stopping => count = 0) /\ time >= TimeDue
      BY <1>1 DEF StageInv
    <3>31. errdbg <=> ~(Off \/ stage = "errdbg")
      BY <1>1 DEF StageInv
    <3>4. (errdbg <=> ~(Off \/ stage = "errdbg"))'
      BY <2>1, <3>31, <3>2, <3>3 DEF Off, Starting, Stopping, Resting
    <3>5. (path <=> Running \/ stage = "quit_managers")'
      BY <1>1, <2>1, <3>2, <3>3 DEF StageInv, Running, Starting, Stopping, Resting
    <3>6. (time >= TimeDue)'
      BY <2>1, <3>2, <3>3 DEF TimeDue, Off, Starting, Stopping, Resting
    <3>7. (~failed => time = TimeDue)'
      BY <1>1, <2>1, <3>2, <3>3 DEF StageInv, TimeDue, Off, Starting, Stopping, Resting
    <3>8. (Running \/ stage \in {"find_path", "hierarchies", "managers", "set_path"} => env > 0)'
      BY <1>1, <2>1, <3>2, <3>3 DEF StageInv, Running, Starting, Stopping, Resting
    <3> QED BY <3>1, <3>4, <3>5, <3>6, <3>7, <3>8 DEF StageInv
  <2>4. TableInv'
    <3>1. count \in Nat /\ stage \in {"idle"} \cup Starting \cup Stopping
      BY <1>1, BoundAssumption DEF TypeOK
    <3>2. (stage \in Starting => count = 1) /\ (stage \in Stopping => count = 0)
      BY <1>1 DEF StageInv
    <3>3. (stage = "modules" => table = [c \in Classes |-> "absent"])'
      BY <1>1, <2>1 DEF TableInv
    <3>4. (stage \in {"find_path", "hierarchies"} =>
             table = [c \in Classes |-> IF c \in Core THEN "added" ELSE "absent"])'
      BY <1>1, <2>1 DEF TableInv
    <3>5. (Running \/ stage \in {"managers", "set_path"} =>
             table # None /\ \A c \in Core : table[c] = "ready")'
      BY <1>1, <2>1, <3>1, <3>2, ClassAssumption DEF TypeOK, TableInv, Running, Starting, Stopping, Resting, Classes
    <3>6. (stage = "quit_errdbg" => table = None)'
      BY <1>1, <2>1 DEF TableInv
    <3>7. (~failed /\ (Off \/ stage \in {"errdbg", "classes"}) => table = None)'
      BY <1>1, <2>1, <3>1, <3>2 DEF TableInv, Off, Starting, Stopping, Resting
    <3> QED BY <3>3, <3>4, <3>5, <3>6, <3>7 DEF TableInv
  <2>5. ManagerInv'
    <3>1. count \in Nat /\ stage \in {"idle"} \cup Starting \cup Stopping /\ manager \subseteq Managers
      BY <1>1, BoundAssumption DEF TypeOK
    <3>2. (stage \in Starting => count = 1) /\ (stage \in Stopping => count = 0)
      BY <1>1 DEF StageInv
    <3>3. (\A m \in manager : maps[m] = Depth[MapClass])'
      BY <1>1, <2>1, ClassAssumption DEF TypeOK, TableInv, ManagerInv, Hierarchy, Classes
    <3>4. (Running \/ stage = "set_path" => manager = Managers)'
      BY <1>1, <2>1, <3>1, <3>2 DEF ManagerInv, Running, Starting, Stopping, Resting
    <3>5. (~failed /\ ~Running /\ stage \notin {"set_path", "quit_managers"} => manager = {})'
      BY <1>1, <2>1, <3>1, <3>2 DEF ManagerInv, Running, Starting, Stopping, Resting
    <3> QED BY <3>3, <3>4, <3>5 DEF ManagerInv
  <2>6. WorkInv'
    <3>1. Running /\ Running'
      BY <1>1, <2>1, BoundAssumption DEF TypeOK, Running, Resting
    <3> QED BY <1>0, <1>1, <3>1 DEF WorkInv, Loading, Unloading, Works
  <2> QED BY <2>2, <2>3, <2>4, <2>5, <2>6 DEF WInv
<1>12. CASE QuitStart
  <2>1. /\ Resting /\ count = 1 /\ \A c \in Plugins : lib[c] = "absent"
        /\ count' = 0 /\ stage' = "quit_managers" /\ (errdbg' <=> errdbg)
        /\ time' = time /\ env' = env /\ table' = table /\ maps' = maps
        /\ manager' = manager /\ (path' <=> path) /\ starts' = starts
        /\ (failed' <=> failed)
    BY <1>12, Zenon DEF QuitStart, Application
  <2>2. TypeOK'
    <3>1. {errdbg', path', failed'} \subseteq BOOLEAN
      BY <1>1, <1>12, Zenon DEF TypeOK, QuitStart, Application
    <3>2. count' \in 0 .. MaxCount /\ stage' \in {"idle"} \cup Starting \cup Stopping
      BY <1>1, <2>1, BoundAssumption DEF TypeOK, StageInv, Starting, Stopping, Resting
    <3>3. time \in Nat /\ env \in Nat /\ starts \in Nat /\ time >= TimeDue
      BY <1>1 DEF TypeOK, StageInv
    <3>4. time' \in Nat /\ env' \in Nat /\ starts' \in Nat
      BY <2>1, <3>3 DEF TimeDue, Off
    <3>5. table' = None \/ table' \in [Classes -> {"absent", "added", "ready"}]
      BY <1>1, <2>1 DEF TypeOK, TableInv, Classes
    <3>6. maps' \in [Managers -> Nat] /\ manager' \subseteq Managers
      BY <1>1, <2>1, ClassAssumption DEF TypeOK, Hierarchy, Classes
    <3> QED BY <1>0, <1>1, <3>1, <3>2, <3>4, <3>5, <3>6 DEF TypeOK
  <2>3. StageInv'
    <3>1. (stage' \in Starting => count' = 1) /\ (stage' \in Stopping => count' = 0)
      BY <1>1, <2>1 DEF StageInv, Starting, Stopping, Resting
    <3>2. count \in Nat /\ time \in Nat /\ env \in Nat /\ stage \in {"idle"} \cup Starting \cup Stopping
      BY <1>1, BoundAssumption DEF TypeOK
    <3>3. (stage \in Starting => count = 1) /\ (stage \in Stopping => count = 0) /\ time >= TimeDue
      BY <1>1 DEF StageInv
    <3>31. errdbg <=> ~(Off \/ stage = "errdbg")
      BY <1>1 DEF StageInv
    <3>4. (errdbg <=> ~(Off \/ stage = "errdbg"))'
      BY <2>1, <3>31, <3>2, <3>3 DEF Off, Starting, Stopping, Resting
    <3>5. (path <=> Running \/ stage = "quit_managers")'
      BY <1>1, <2>1, <3>2, <3>3 DEF StageInv, Running, Starting, Stopping, Resting
    <3>6. (time >= TimeDue)'
      BY <2>1, <3>2, <3>3 DEF TimeDue, Off, Starting, Stopping, Resting
    <3>7. (~failed => time = TimeDue)'
      BY <1>1, <2>1, <3>2, <3>3 DEF StageInv, TimeDue, Off, Starting, Stopping, Resting
    <3>8. (Running \/ stage \in {"find_path", "hierarchies", "managers", "set_path"} => env > 0)'
      BY <1>1, <2>1, <3>2, <3>3 DEF StageInv, Running, Starting, Stopping, Resting
    <3> QED BY <3>1, <3>4, <3>5, <3>6, <3>7, <3>8 DEF StageInv
  <2>4. TableInv'
    <3>1. count \in Nat /\ stage \in {"idle"} \cup Starting \cup Stopping
      BY <1>1, BoundAssumption DEF TypeOK
    <3>2. (stage \in Starting => count = 1) /\ (stage \in Stopping => count = 0)
      BY <1>1 DEF StageInv
    <3>3. (stage = "modules" => table = [c \in Classes |-> "absent"])'
      BY <1>1, <2>1 DEF TableInv
    <3>4. (stage \in {"find_path", "hierarchies"} =>
             table = [c \in Classes |-> IF c \in Core THEN "added" ELSE "absent"])'
      BY <1>1, <2>1 DEF TableInv
    <3>5. (Running \/ stage \in {"managers", "set_path"} =>
             table # None /\ \A c \in Core : table[c] = "ready")'
      BY <1>1, <2>1, <3>1, <3>2, ClassAssumption DEF TypeOK, TableInv, Running, Starting, Stopping, Resting, Classes
    <3>6. (stage = "quit_errdbg" => table = None)'
      BY <1>1, <2>1 DEF TableInv
    <3>7. (~failed /\ (Off \/ stage \in {"errdbg", "classes"}) => table = None)'
      BY <1>1, <2>1, <3>1, <3>2 DEF TableInv, Off, Starting, Stopping, Resting
    <3> QED BY <3>3, <3>4, <3>5, <3>6, <3>7 DEF TableInv
  <2>5. ManagerInv'
    <3>1. count \in Nat /\ stage \in {"idle"} \cup Starting \cup Stopping /\ manager \subseteq Managers
      BY <1>1, BoundAssumption DEF TypeOK
    <3>2. (stage \in Starting => count = 1) /\ (stage \in Stopping => count = 0)
      BY <1>1 DEF StageInv
    <3>3. (\A m \in manager : maps[m] = Depth[MapClass])'
      BY <1>1, <2>1, ClassAssumption DEF TypeOK, TableInv, ManagerInv, Hierarchy, Classes
    <3>4. (Running \/ stage = "set_path" => manager = Managers)'
      BY <1>1, <2>1, <3>1, <3>2 DEF ManagerInv, Running, Starting, Stopping, Resting
    <3>5. (~failed /\ ~Running /\ stage \notin {"set_path", "quit_managers"} => manager = {})'
      BY <1>1, <2>1, <3>1, <3>2 DEF ManagerInv, Running, Starting, Stopping, Resting
    <3> QED BY <3>3, <3>4, <3>5 DEF ManagerInv
  <2>6. WorkInv'
    <3>1. (~Running => /\ \A t \in Threads : pc[t].op = "idle"
                       /\ \A c \in Plugins : lib[c] = "absent")'
      BY <1>0, <1>1, <2>1 DEF StageInv, WorkInv, Running, Resting, Starting, Stopping
    <3> QED BY <1>0, <1>1, <3>1 DEF WorkInv, Loading, Unloading, Works
  <2> QED BY <2>2, <2>3, <2>4, <2>5, <2>6 DEF WInv
<1>13. CASE StopManagers
  <2>1. /\ stage = "quit_managers"
        /\ count' = count /\ stage' = "quit_modules" /\ (errdbg' <=> errdbg)
        /\ time' = time /\ env' = env /\ table' = table
        /\ maps' = [m \in Managers |-> 0] /\ manager' = {} /\ ~path'
        /\ starts' = starts /\ (failed' <=> failed)
    BY <1>13, Zenon DEF StopManagers, Application, Go, QuitManagers
  <2>2. TypeOK'
    <3>1. {errdbg', path', failed'} \subseteq BOOLEAN
      BY <1>1, <1>13, Zenon DEF TypeOK, StopManagers, Application, Go, QuitManagers
    <3>2. count' \in 0 .. MaxCount /\ stage' \in {"idle"} \cup Starting \cup Stopping
      BY <1>1, <2>1, BoundAssumption DEF TypeOK, StageInv, Starting, Stopping, Resting
    <3>3. time \in Nat /\ env \in Nat /\ starts \in Nat /\ time >= TimeDue
      BY <1>1 DEF TypeOK, StageInv
    <3>4. time' \in Nat /\ env' \in Nat /\ starts' \in Nat
      BY <2>1, <3>3 DEF TimeDue, Off
    <3>5. table' = None \/ table' \in [Classes -> {"absent", "added", "ready"}]
      BY <1>1, <2>1 DEF TypeOK, TableInv, Classes
    <3>6. maps' \in [Managers -> Nat] /\ manager' \subseteq Managers
      BY <1>1, <2>1, ClassAssumption DEF TypeOK, Hierarchy, Classes
    <3> QED BY <1>0, <1>1, <3>1, <3>2, <3>4, <3>5, <3>6 DEF TypeOK
  <2>3. StageInv'
    <3>1. (stage' \in Starting => count' = 1) /\ (stage' \in Stopping => count' = 0)
      BY <1>1, <2>1 DEF StageInv, Starting, Stopping, Resting
    <3>2. count \in Nat /\ time \in Nat /\ env \in Nat /\ stage \in {"idle"} \cup Starting \cup Stopping
      BY <1>1, BoundAssumption DEF TypeOK
    <3>3. (stage \in Starting => count = 1) /\ (stage \in Stopping => count = 0) /\ time >= TimeDue
      BY <1>1 DEF StageInv
    <3>31. errdbg <=> ~(Off \/ stage = "errdbg")
      BY <1>1 DEF StageInv
    <3>4. (errdbg <=> ~(Off \/ stage = "errdbg"))'
      BY <2>1, <3>31, <3>2, <3>3 DEF Off, Starting, Stopping, Resting
    <3>5. (path <=> Running \/ stage = "quit_managers")'
      BY <1>1, <2>1, <3>2, <3>3 DEF StageInv, Running, Starting, Stopping, Resting
    <3>6. (time >= TimeDue)'
      BY <2>1, <3>2, <3>3 DEF TimeDue, Off, Starting, Stopping, Resting
    <3>7. (~failed => time = TimeDue)'
      BY <1>1, <2>1, <3>2, <3>3 DEF StageInv, TimeDue, Off, Starting, Stopping, Resting
    <3>8. (Running \/ stage \in {"find_path", "hierarchies", "managers", "set_path"} => env > 0)'
      BY <1>1, <2>1, <3>2, <3>3 DEF StageInv, Running, Starting, Stopping, Resting
    <3> QED BY <3>1, <3>4, <3>5, <3>6, <3>7, <3>8 DEF StageInv
  <2>4. TableInv'
    <3>1. count \in Nat /\ stage \in {"idle"} \cup Starting \cup Stopping
      BY <1>1, BoundAssumption DEF TypeOK
    <3>2. (stage \in Starting => count = 1) /\ (stage \in Stopping => count = 0)
      BY <1>1 DEF StageInv
    <3>3. (stage = "modules" => table = [c \in Classes |-> "absent"])'
      BY <1>1, <2>1 DEF TableInv
    <3>4. (stage \in {"find_path", "hierarchies"} =>
             table = [c \in Classes |-> IF c \in Core THEN "added" ELSE "absent"])'
      BY <1>1, <2>1 DEF TableInv
    <3>5. (Running \/ stage \in {"managers", "set_path"} =>
             table # None /\ \A c \in Core : table[c] = "ready")'
      BY <1>1, <2>1, <3>1, <3>2, ClassAssumption DEF TypeOK, TableInv, Running, Starting, Stopping, Resting, Classes
    <3>6. (stage = "quit_errdbg" => table = None)'
      BY <1>1, <2>1 DEF TableInv
    <3>7. (~failed /\ (Off \/ stage \in {"errdbg", "classes"}) => table = None)'
      BY <1>1, <2>1, <3>1, <3>2 DEF TableInv, Off, Starting, Stopping, Resting
    <3> QED BY <3>3, <3>4, <3>5, <3>6, <3>7 DEF TableInv
  <2>5. ManagerInv'
    <3>1. count \in Nat /\ stage \in {"idle"} \cup Starting \cup Stopping /\ manager \subseteq Managers
      BY <1>1, BoundAssumption DEF TypeOK
    <3>2. (stage \in Starting => count = 1) /\ (stage \in Stopping => count = 0)
      BY <1>1 DEF StageInv
    <3>3. (\A m \in manager : maps[m] = Depth[MapClass])'
      BY <1>1, <2>1, ClassAssumption DEF TypeOK, TableInv, ManagerInv, Hierarchy, Classes
    <3>4. (Running \/ stage = "set_path" => manager = Managers)'
      BY <1>1, <2>1, <3>1, <3>2 DEF ManagerInv, Running, Starting, Stopping, Resting
    <3>5. (~failed /\ ~Running /\ stage \notin {"set_path", "quit_managers"} => manager = {})'
      BY <1>1, <2>1, <3>1, <3>2 DEF ManagerInv, Running, Starting, Stopping, Resting
    <3> QED BY <3>3, <3>4, <3>5 DEF ManagerInv
  <2>6. WorkInv'
    <3>1. (~Running => /\ \A t \in Threads : pc[t].op = "idle"
                       /\ \A c \in Plugins : lib[c] = "absent")'
      BY <1>0, <1>1, <2>1 DEF StageInv, WorkInv, Running, Resting, Starting, Stopping
    <3> QED BY <1>0, <1>1, <3>1 DEF WorkInv, Loading, Unloading, Works
  <2> QED BY <2>2, <2>3, <2>4, <2>5, <2>6 DEF WInv
<1>14. CASE StopModules
  <2>1. /\ stage = "quit_modules"
        /\ count' = count /\ stage' = "quit_classes" /\ (errdbg' <=> errdbg)
        /\ time' = time - 1 /\ env' = env + 1 /\ table' = table /\ maps' = maps
        /\ manager' = manager /\ (path' <=> path) /\ starts' = starts
        /\ (failed' <=> failed)
    BY <1>14, Zenon DEF StopModules, Application, Go, QuitModules
  <2>2. TypeOK'
    <3>1. {errdbg', path', failed'} \subseteq BOOLEAN
      BY <1>1, <1>14, Zenon DEF TypeOK, StopModules, Application, Go, QuitModules
    <3>2. count' \in 0 .. MaxCount /\ stage' \in {"idle"} \cup Starting \cup Stopping
      BY <1>1, <2>1, BoundAssumption DEF TypeOK, StageInv, Starting, Stopping, Resting
    <3>3. time \in Nat /\ env \in Nat /\ starts \in Nat /\ time >= TimeDue
      BY <1>1 DEF TypeOK, StageInv
    <3>4. time' \in Nat /\ env' \in Nat /\ starts' \in Nat
      BY <2>1, <3>3 DEF TimeDue, Off
    <3>5. table' = None \/ table' \in [Classes -> {"absent", "added", "ready"}]
      BY <1>1, <2>1 DEF TypeOK, TableInv, Classes
    <3>6. maps' \in [Managers -> Nat] /\ manager' \subseteq Managers
      BY <1>1, <2>1, ClassAssumption DEF TypeOK, Hierarchy, Classes
    <3> QED BY <1>0, <1>1, <3>1, <3>2, <3>4, <3>5, <3>6 DEF TypeOK
  <2>3. StageInv'
    <3>1. (stage' \in Starting => count' = 1) /\ (stage' \in Stopping => count' = 0)
      BY <1>1, <2>1 DEF StageInv, Starting, Stopping, Resting
    <3>2. count \in Nat /\ time \in Nat /\ env \in Nat /\ stage \in {"idle"} \cup Starting \cup Stopping
      BY <1>1, BoundAssumption DEF TypeOK
    <3>3. (stage \in Starting => count = 1) /\ (stage \in Stopping => count = 0) /\ time >= TimeDue
      BY <1>1 DEF StageInv
    <3>31. errdbg <=> ~(Off \/ stage = "errdbg")
      BY <1>1 DEF StageInv
    <3>4. (errdbg <=> ~(Off \/ stage = "errdbg"))'
      BY <2>1, <3>31, <3>2, <3>3 DEF Off, Starting, Stopping, Resting
    <3>5. (path <=> Running \/ stage = "quit_managers")'
      BY <1>1, <2>1, <3>2, <3>3 DEF StageInv, Running, Starting, Stopping, Resting
    <3>6. (time >= TimeDue)'
      BY <2>1, <3>2, <3>3 DEF TimeDue, Off, Starting, Stopping, Resting
    <3>7. (~failed => time = TimeDue)'
      BY <1>1, <2>1, <3>2, <3>3 DEF StageInv, TimeDue, Off, Starting, Stopping, Resting
    <3>8. (Running \/ stage \in {"find_path", "hierarchies", "managers", "set_path"} => env > 0)'
      BY <1>1, <2>1, <3>2, <3>3 DEF StageInv, Running, Starting, Stopping, Resting
    <3> QED BY <3>1, <3>4, <3>5, <3>6, <3>7, <3>8 DEF StageInv
  <2>4. TableInv'
    <3>1. count \in Nat /\ stage \in {"idle"} \cup Starting \cup Stopping
      BY <1>1, BoundAssumption DEF TypeOK
    <3>2. (stage \in Starting => count = 1) /\ (stage \in Stopping => count = 0)
      BY <1>1 DEF StageInv
    <3>3. (stage = "modules" => table = [c \in Classes |-> "absent"])'
      BY <1>1, <2>1 DEF TableInv
    <3>4. (stage \in {"find_path", "hierarchies"} =>
             table = [c \in Classes |-> IF c \in Core THEN "added" ELSE "absent"])'
      BY <1>1, <2>1 DEF TableInv
    <3>5. (Running \/ stage \in {"managers", "set_path"} =>
             table # None /\ \A c \in Core : table[c] = "ready")'
      BY <1>1, <2>1, <3>1, <3>2, ClassAssumption DEF TypeOK, TableInv, Running, Starting, Stopping, Resting, Classes
    <3>6. (stage = "quit_errdbg" => table = None)'
      BY <1>1, <2>1 DEF TableInv
    <3>7. (~failed /\ (Off \/ stage \in {"errdbg", "classes"}) => table = None)'
      BY <1>1, <2>1, <3>1, <3>2 DEF TableInv, Off, Starting, Stopping, Resting
    <3> QED BY <3>3, <3>4, <3>5, <3>6, <3>7 DEF TableInv
  <2>5. ManagerInv'
    <3>1. count \in Nat /\ stage \in {"idle"} \cup Starting \cup Stopping /\ manager \subseteq Managers
      BY <1>1, BoundAssumption DEF TypeOK
    <3>2. (stage \in Starting => count = 1) /\ (stage \in Stopping => count = 0)
      BY <1>1 DEF StageInv
    <3>3. (\A m \in manager : maps[m] = Depth[MapClass])'
      BY <1>1, <2>1, ClassAssumption DEF TypeOK, TableInv, ManagerInv, Hierarchy, Classes
    <3>4. (Running \/ stage = "set_path" => manager = Managers)'
      BY <1>1, <2>1, <3>1, <3>2 DEF ManagerInv, Running, Starting, Stopping, Resting
    <3>5. (~failed /\ ~Running /\ stage \notin {"set_path", "quit_managers"} => manager = {})'
      BY <1>1, <2>1, <3>1, <3>2 DEF ManagerInv, Running, Starting, Stopping, Resting
    <3> QED BY <3>3, <3>4, <3>5 DEF ManagerInv
  <2>6. WorkInv'
    <3>1. (~Running => /\ \A t \in Threads : pc[t].op = "idle"
                       /\ \A c \in Plugins : lib[c] = "absent")'
      BY <1>0, <1>1, <2>1 DEF StageInv, WorkInv, Running, Resting, Starting, Stopping
    <3> QED BY <1>0, <1>1, <3>1 DEF WorkInv, Loading, Unloading, Works
  <2> QED BY <2>2, <2>3, <2>4, <2>5, <2>6 DEF WInv
<1>15. CASE StopClasses
  <2>1. /\ stage = "quit_classes"
        /\ count' = count /\ stage' = "quit_errdbg" /\ (errdbg' <=> errdbg)
        /\ time' = time /\ env' = env /\ table' = None /\ maps' = maps
        /\ manager' = manager /\ (path' <=> path) /\ starts' = starts
        /\ (failed' <=> failed)
    BY <1>15, Zenon DEF StopClasses, Application, Go
  <2>2. TypeOK'
    <3>1. {errdbg', path', failed'} \subseteq BOOLEAN
      BY <1>1, <1>15, Zenon DEF TypeOK, StopClasses, Application, Go
    <3>2. count' \in 0 .. MaxCount /\ stage' \in {"idle"} \cup Starting \cup Stopping
      BY <1>1, <2>1, BoundAssumption DEF TypeOK, StageInv, Starting, Stopping, Resting
    <3>3. time \in Nat /\ env \in Nat /\ starts \in Nat /\ time >= TimeDue
      BY <1>1 DEF TypeOK, StageInv
    <3>4. time' \in Nat /\ env' \in Nat /\ starts' \in Nat
      BY <2>1, <3>3 DEF TimeDue, Off
    <3>5. table' = None \/ table' \in [Classes -> {"absent", "added", "ready"}]
      BY <1>1, <2>1 DEF TypeOK, TableInv, Classes
    <3>6. maps' \in [Managers -> Nat] /\ manager' \subseteq Managers
      BY <1>1, <2>1, ClassAssumption DEF TypeOK, Hierarchy, Classes
    <3> QED BY <1>0, <1>1, <3>1, <3>2, <3>4, <3>5, <3>6 DEF TypeOK
  <2>3. StageInv'
    <3>1. (stage' \in Starting => count' = 1) /\ (stage' \in Stopping => count' = 0)
      BY <1>1, <2>1 DEF StageInv, Starting, Stopping, Resting
    <3>2. count \in Nat /\ time \in Nat /\ env \in Nat /\ stage \in {"idle"} \cup Starting \cup Stopping
      BY <1>1, BoundAssumption DEF TypeOK
    <3>3. (stage \in Starting => count = 1) /\ (stage \in Stopping => count = 0) /\ time >= TimeDue
      BY <1>1 DEF StageInv
    <3>31. errdbg <=> ~(Off \/ stage = "errdbg")
      BY <1>1 DEF StageInv
    <3>4. (errdbg <=> ~(Off \/ stage = "errdbg"))'
      BY <2>1, <3>31, <3>2, <3>3 DEF Off, Starting, Stopping, Resting
    <3>5. (path <=> Running \/ stage = "quit_managers")'
      BY <1>1, <2>1, <3>2, <3>3 DEF StageInv, Running, Starting, Stopping, Resting
    <3>6. (time >= TimeDue)'
      BY <2>1, <3>2, <3>3 DEF TimeDue, Off, Starting, Stopping, Resting
    <3>7. (~failed => time = TimeDue)'
      BY <1>1, <2>1, <3>2, <3>3 DEF StageInv, TimeDue, Off, Starting, Stopping, Resting
    <3>8. (Running \/ stage \in {"find_path", "hierarchies", "managers", "set_path"} => env > 0)'
      BY <1>1, <2>1, <3>2, <3>3 DEF StageInv, Running, Starting, Stopping, Resting
    <3> QED BY <3>1, <3>4, <3>5, <3>6, <3>7, <3>8 DEF StageInv
  <2>4. TableInv'
    <3>1. count \in Nat /\ stage \in {"idle"} \cup Starting \cup Stopping
      BY <1>1, BoundAssumption DEF TypeOK
    <3>2. (stage \in Starting => count = 1) /\ (stage \in Stopping => count = 0)
      BY <1>1 DEF StageInv
    <3>3. (stage = "modules" => table = [c \in Classes |-> "absent"])'
      BY <1>1, <2>1 DEF TableInv
    <3>4. (stage \in {"find_path", "hierarchies"} =>
             table = [c \in Classes |-> IF c \in Core THEN "added" ELSE "absent"])'
      BY <1>1, <2>1 DEF TableInv
    <3>5. (Running \/ stage \in {"managers", "set_path"} =>
             table # None /\ \A c \in Core : table[c] = "ready")'
      BY <1>1, <2>1, <3>1, <3>2, ClassAssumption DEF TypeOK, TableInv, Running, Starting, Stopping, Resting, Classes
    <3>6. (stage = "quit_errdbg" => table = None)'
      BY <1>1, <2>1 DEF TableInv
    <3>7. (~failed /\ (Off \/ stage \in {"errdbg", "classes"}) => table = None)'
      BY <1>1, <2>1, <3>1, <3>2 DEF TableInv, Off, Starting, Stopping, Resting
    <3> QED BY <3>3, <3>4, <3>5, <3>6, <3>7 DEF TableInv
  <2>5. ManagerInv'
    <3>1. count \in Nat /\ stage \in {"idle"} \cup Starting \cup Stopping /\ manager \subseteq Managers
      BY <1>1, BoundAssumption DEF TypeOK
    <3>2. (stage \in Starting => count = 1) /\ (stage \in Stopping => count = 0)
      BY <1>1 DEF StageInv
    <3>3. (\A m \in manager : maps[m] = Depth[MapClass])'
      BY <1>1, <2>1, ClassAssumption DEF TypeOK, TableInv, ManagerInv, Hierarchy, Classes
    <3>4. (Running \/ stage = "set_path" => manager = Managers)'
      BY <1>1, <2>1, <3>1, <3>2 DEF ManagerInv, Running, Starting, Stopping, Resting
    <3>5. (~failed /\ ~Running /\ stage \notin {"set_path", "quit_managers"} => manager = {})'
      BY <1>1, <2>1, <3>1, <3>2 DEF ManagerInv, Running, Starting, Stopping, Resting
    <3> QED BY <3>3, <3>4, <3>5 DEF ManagerInv
  <2>6. WorkInv'
    <3>1. (~Running => /\ \A t \in Threads : pc[t].op = "idle"
                       /\ \A c \in Plugins : lib[c] = "absent")'
      BY <1>0, <1>1, <2>1 DEF StageInv, WorkInv, Running, Resting, Starting, Stopping
    <3> QED BY <1>0, <1>1, <3>1 DEF WorkInv, Loading, Unloading, Works
  <2> QED BY <2>2, <2>3, <2>4, <2>5, <2>6 DEF WInv
<1>16. CASE StopErrdbg
  <2>1. /\ stage = "quit_errdbg"
        /\ count' = count /\ stage' = "idle" /\ ~errdbg' /\ time' = time - 1
        /\ env' = env /\ table' = table /\ maps' = maps /\ manager' = manager
        /\ (path' <=> path) /\ starts' = starts /\ (failed' <=> failed)
    BY <1>16, Zenon DEF StopErrdbg, Application, Go, QuitErrdbg
  <2>2. TypeOK'
    <3>1. {errdbg', path', failed'} \subseteq BOOLEAN
      BY <1>1, <1>16, Zenon DEF TypeOK, StopErrdbg, Application, Go, QuitErrdbg
    <3>2. count' \in 0 .. MaxCount /\ stage' \in {"idle"} \cup Starting \cup Stopping
      BY <1>1, <2>1, BoundAssumption DEF TypeOK, StageInv, Starting, Stopping, Resting
    <3>3. time \in Nat /\ env \in Nat /\ starts \in Nat /\ time >= TimeDue
      BY <1>1 DEF TypeOK, StageInv
    <3>4. time' \in Nat /\ env' \in Nat /\ starts' \in Nat
      BY <2>1, <3>3 DEF TimeDue, Off
    <3>5. table' = None \/ table' \in [Classes -> {"absent", "added", "ready"}]
      BY <1>1, <2>1 DEF TypeOK, TableInv, Classes
    <3>6. maps' \in [Managers -> Nat] /\ manager' \subseteq Managers
      BY <1>1, <2>1, ClassAssumption DEF TypeOK, Hierarchy, Classes
    <3> QED BY <1>0, <1>1, <3>1, <3>2, <3>4, <3>5, <3>6 DEF TypeOK
  <2>3. StageInv'
    <3>1. (stage' \in Starting => count' = 1) /\ (stage' \in Stopping => count' = 0)
      BY <1>1, <2>1 DEF StageInv, Starting, Stopping, Resting
    <3>2. count \in Nat /\ time \in Nat /\ env \in Nat /\ stage \in {"idle"} \cup Starting \cup Stopping
      BY <1>1, BoundAssumption DEF TypeOK
    <3>3. (stage \in Starting => count = 1) /\ (stage \in Stopping => count = 0) /\ time >= TimeDue
      BY <1>1 DEF StageInv
    <3>31. errdbg <=> ~(Off \/ stage = "errdbg")
      BY <1>1 DEF StageInv
    <3>4. (errdbg <=> ~(Off \/ stage = "errdbg"))'
      BY <2>1, <3>31, <3>2, <3>3 DEF Off, Starting, Stopping, Resting
    <3>5. (path <=> Running \/ stage = "quit_managers")'
      BY <1>1, <2>1, <3>2, <3>3 DEF StageInv, Running, Starting, Stopping, Resting
    <3>6. (time >= TimeDue)'
      BY <2>1, <3>2, <3>3 DEF TimeDue, Off, Starting, Stopping, Resting
    <3>7. (~failed => time = TimeDue)'
      BY <1>1, <2>1, <3>2, <3>3 DEF StageInv, TimeDue, Off, Starting, Stopping, Resting
    <3>8. (Running \/ stage \in {"find_path", "hierarchies", "managers", "set_path"} => env > 0)'
      BY <1>1, <2>1, <3>2, <3>3 DEF StageInv, Running, Starting, Stopping, Resting
    <3> QED BY <3>1, <3>4, <3>5, <3>6, <3>7, <3>8 DEF StageInv
  <2>4. TableInv'
    <3>1. count \in Nat /\ stage \in {"idle"} \cup Starting \cup Stopping
      BY <1>1, BoundAssumption DEF TypeOK
    <3>2. (stage \in Starting => count = 1) /\ (stage \in Stopping => count = 0)
      BY <1>1 DEF StageInv
    <3>3. (stage = "modules" => table = [c \in Classes |-> "absent"])'
      BY <1>1, <2>1 DEF TableInv
    <3>4. (stage \in {"find_path", "hierarchies"} =>
             table = [c \in Classes |-> IF c \in Core THEN "added" ELSE "absent"])'
      BY <1>1, <2>1 DEF TableInv
    <3>5. (Running \/ stage \in {"managers", "set_path"} =>
             table # None /\ \A c \in Core : table[c] = "ready")'
      BY <1>1, <2>1, <3>1, <3>2, ClassAssumption DEF TypeOK, TableInv, Running, Starting, Stopping, Resting, Classes
    <3>6. (stage = "quit_errdbg" => table = None)'
      BY <1>1, <2>1 DEF TableInv
    <3>7. (~failed /\ (Off \/ stage \in {"errdbg", "classes"}) => table = None)'
      BY <1>1, <2>1, <3>1, <3>2 DEF TableInv, Off, Starting, Stopping, Resting
    <3> QED BY <3>3, <3>4, <3>5, <3>6, <3>7 DEF TableInv
  <2>5. ManagerInv'
    <3>1. count \in Nat /\ stage \in {"idle"} \cup Starting \cup Stopping /\ manager \subseteq Managers
      BY <1>1, BoundAssumption DEF TypeOK
    <3>2. (stage \in Starting => count = 1) /\ (stage \in Stopping => count = 0)
      BY <1>1 DEF StageInv
    <3>3. (\A m \in manager : maps[m] = Depth[MapClass])'
      BY <1>1, <2>1, ClassAssumption DEF TypeOK, TableInv, ManagerInv, Hierarchy, Classes
    <3>4. (Running \/ stage = "set_path" => manager = Managers)'
      BY <1>1, <2>1, <3>1, <3>2 DEF ManagerInv, Running, Starting, Stopping, Resting
    <3>5. (~failed /\ ~Running /\ stage \notin {"set_path", "quit_managers"} => manager = {})'
      BY <1>1, <2>1, <3>1, <3>2 DEF ManagerInv, Running, Starting, Stopping, Resting
    <3> QED BY <3>3, <3>4, <3>5 DEF ManagerInv
  <2>6. WorkInv'
    <3>1. (~Running => /\ \A t \in Threads : pc[t].op = "idle"
                       /\ \A c \in Plugins : lib[c] = "absent")'
      BY <1>0, <1>1, <2>1 DEF StageInv, WorkInv, Running, Resting, Starting, Stopping
    <3> QED BY <1>0, <1>1, <3>1 DEF WorkInv, Loading, Unloading, Works
  <2> QED BY <2>2, <2>3, <2>4, <2>5, <2>6 DEF WInv
<1> QED BY <1>2, <1>3, <1>4, <1>5, <1>6, <1>7, <1>8, <1>9, <1>10, <1>11, <1>12, <1>13, <1>14, <1>15, <1>16 DEF Main

\* What starting and stopping do to the class table.
LEMMA MainTable ==
  ASSUME WInv, Main
  PROVE  /\ Running /\ Running' => table' = table
         /\ table # None /\ table' # None =>
              \A c \in Plugins : table[c] = "absent" => table'[c] = "absent"
         /\ table = None /\ table' # None => \A c \in Plugins : table'[c] = "absent"
         /\ ~Running /\ Running' => table' = table
<1>1. /\ table = None \/ table \in [Classes -> {"absent", "added", "ready"}]
      /\ stage \in {"idle"} \cup Starting \cup Stopping /\ count \in Nat
      /\ stage \in Starting => count = 1
  BY BoundAssumption DEF WInv, TypeOK, StageInv
<1>2. CASE InitAgain \/ InitStart \/ StartErrdbg \/ StartFindPath \/ StartManagers
           \/ StartSetPath \/ QuitAgain \/ QuitStart \/ StopManagers \/ StopModules
           \/ StopErrdbg
  <2>1. table' = table \/ (table' = None /\ stage' = "idle" /\ count' = count - 1 /\ stage \in Starting)
    BY <1>2 DEF InitAgain, InitStart, StartErrdbg, StartFindPath, StartManagers,
         StartSetPath, QuitAgain, QuitStart, StopManagers, StopModules, StopErrdbg,
         Application, UndoModules, GiveUp, Go, Starting
  <2> QED BY <1>1, <2>1 DEF Running
<1>3. CASE StartClasses
  <2>1. stage = "classes" /\ (table' = None \/ table' = [c \in Classes |-> "absent"])
    BY <1>3, Zenon DEF StartClasses
  <2>2. ~Running' /\ ~Running
    <3>1. stage' = "modules" \/ (stage' = "idle" /\ count' = count - 1)
      BY <1>3, Zenon DEF StartClasses, GiveUp, Go
    <3> QED BY <1>1, <2>1, <3>1 DEF Running, Starting
  <2> QED BY <2>1, <2>2 DEF Classes
<1>4. CASE StartModules
  <2>1. stage = "modules" /\ \E some \in SUBSET Core :
          table' = [c \in Classes |-> IF c \in some THEN "added" ELSE "absent"]
    BY <1>4 DEF StartModules
  <2>2. \A c \in Plugins : table'[c] = "absent"
    BY <2>1, ClassAssumption DEF Classes
  <2>3. ~Running' /\ ~Running
    <3>1. stage' = "find_path" \/ (stage' = "idle" /\ count' = count - 1)
      BY <1>4, Zenon DEF StartModules, GiveUp, Go
    <3> QED BY <1>1, <2>1, <3>1 DEF Running, Starting
  <2> QED BY <2>2, <2>3
<1>5. CASE StartHierarchies
  <2>1. \/ table' = table
        \/ table' = [c \in Classes |-> IF table[c] = "added" THEN "ready" ELSE table[c]]
    BY <1>5, Zenon DEF StartHierarchies
  <2>2. stage = "hierarchies"
    BY <1>5, Zenon DEF StartHierarchies
  <2>3. ~Running' /\ ~Running
    <3>1. stage' = "managers" \/ (stage' = "idle" /\ count' = count - 1)
      BY <1>5, Zenon DEF StartHierarchies, GiveUp, Go
    <3> QED BY <1>1, <2>2, <3>1 DEF Running, Starting
  <2>4. table # None
    <3>1. table = [c \in Classes |-> IF c \in Core THEN "added" ELSE "absent"]
      BY <2>2 DEF WInv, TableInv
    <3>2. table \in [Classes -> {"absent", "added", "ready"}]
      BY <3>1
    <3> QED BY <3>2, ClassAssumption
  <2> QED BY <2>1, <2>3, <2>4 DEF Classes
<1>6. CASE StopClasses
  BY <1>6 DEF StopClasses, Running, Go
<1> QED BY <1>2, <1>3, <1>4, <1>5, <1>6 DEF Main

LEMMA MainRest ==
  ASSUME IInv, WInv', Main
  PROVE  OInv'
<1>1. lib' = lib /\ uses' = uses /\ obj' = obj /\ pc' = pc
  BY DEF Main, InitAgain, InitStart, StartErrdbg, StartClasses, StartModules,
         StartFindPath, StartHierarchies, StartManagers, StartSetPath, QuitAgain,
         QuitStart, StopManagers, StopModules, StopClasses, StopErrdbg, Application,
         plugins
<1>2. \A t \in Threads : pc[t].op = "idle"
  BY <1>1, Zenon DEF IInv, WInv, WorkInv, Main, InitAgain, InitStart, StartErrdbg, StartClasses,
         StartModules, StartFindPath, StartHierarchies, StartManagers, StartSetPath,
         QuitAgain, QuitStart, StopManagers, StopModules, StopClasses, StopErrdbg,
         Resting, Running
<1>3. LoadedInv'
  BY <1>1, <1>2, MainTable DEF IInv, WInv, OInv, LoadedInv, Exiting
<1>4. PluginInv'
  <2>1. ~Running => \A c \in Plugins : lib[c] = "absent"
    BY DEF IInv, WInv, WorkInv
  <2>2. (Running => \A c \in Plugins : lib[c] = "ready" => table[c] = "ready")'
    BY <1>1, <2>1, MainTable DEF IInv, WInv, OInv, PluginInv
  <2>3. \A t \in Threads : ~Loading(t)'
    BY <1>1, <1>2 DEF Loading
  <2>4. \A c \in Plugins : Leaving(c)' <=> Leaving(c)
    BY <1>1 DEF Leaving
  <2> QED BY <1>1, <2>2, <2>3, <2>4 DEF IInv, OInv, PluginInv
<1>5. UnloadInv'
  BY <1>1, <1>2 DEF UnloadInv, Unloading, Loading
<1>6. ObjectInv'
  BY <1>1 DEF IInv, OInv, ObjectInv, Works, Usable
<1> QED BY <1>3, <1>4, <1>5, <1>6 DEF OInv

-----------------------------------------------------------------------------
(* The actions of the threads.  They leave the engine as it is, and the engine  *)
(* is running.                                                                  *)

Holders == Threads \cup Plugins
Tables == [Classes -> {"absent", "added", "ready"}]
Libs == [Plugins -> {"absent", "loading", "ready"}]
UsesType == [Threads \cup Plugins -> [Plugins -> Nat]]
ObjType == [Objects -> [cls : Classes \cup {None}, inits : Nat,
                        owner : Threads \cup {None}]]
Point == [op : {"idle", "add", "init", "run", "delete", "destroy",
                "check", "test", "uncache", "exit", "release"},
          cls : Classes \cup {None}, obj : Objects \cup {None}, left : Nat]
PcType == [Threads -> Point]

LEMMA RunningTypes ==
  ASSUME WInv, Running
  PROVE  /\ table # None /\ table \in Tables /\ lib \in Libs /\ uses \in UsesType
         /\ obj \in ObjType /\ pc \in PcType
         /\ \A c \in Core : table[c] = "ready"
         /\ WorkInv
  BY DEF WInv, TypeOK, TableInv, Tables, Libs, UsesType, ObjType, PcType, Point

\* Only one thread moves, to a point that knows its class and its object.
LEMMA RunningStep ==
  ASSUME WInv, Running, UNCHANGED engine, NEW t \in Threads,
         table' \in Tables, lib' \in Libs, uses' \in UsesType, obj' \in ObjType,
         \A c \in Core : table'[c] = table[c],
         \A o \in Objects : obj'[o].owner # None => obj'[o].cls \in Classes,
         pc' = [pc EXCEPT ![t] = pc'[t]], pc'[t] \in Point,
         Loading(t)' \/ Unloading(t)' => pc'[t].cls \in Plugins,
         Works(t)' => pc'[t].obj \in Objects /\ pc'[t].cls \in Classes
  PROVE  WInv'
<1>1. /\ count' = count /\ stage' = stage /\ (errdbg' <=> errdbg) /\ time' = time
      /\ env' = env /\ maps' = maps /\ manager' = manager /\ (path' <=> path)
      /\ starts' = starts /\ (failed' <=> failed)
  BY Zenon DEF engine
<1>2. TypeOK /\ StageInv /\ TableInv /\ ManagerInv /\ WorkInv
  BY DEF WInv
<1>3. pc \in PcType
  BY RunningTypes
<1>4. pc' \in PcType /\ \A u \in Threads : u # t => pc'[u] = pc[u]
  BY <1>3 DEF PcType
<1>5. TypeOK'
  <2>1. {errdbg', path', failed'} \subseteq BOOLEAN
    BY <1>2, Zenon DEF TypeOK, engine
  <2>2. /\ count' \in 0 .. MaxCount /\ stage' \in {"idle"} \cup Starting \cup Stopping
        /\ {time', env', starts'} \subseteq Nat
        /\ maps' \in [Managers -> Nat] /\ manager' \subseteq Managers
    BY <1>1, <1>2 DEF TypeOK
  <2> QED BY <1>4, <2>1, <2>2 DEF TypeOK, Tables, Libs, UsesType, ObjType, PcType, Point
<1>6. StageInv'
  BY <1>1, <1>2 DEF StageInv, TimeDue, Off, Running
<1>7. table' # None
  BY ClassAssumption DEF Tables
<1>8. TableInv'
  BY <1>1, <1>2, <1>7 DEF TableInv, Off, Running, Starting, Stopping
<1>9. ManagerInv'
  BY <1>1, <1>2 DEF ManagerInv, Running
<1>10. WorkInv'
  <2>1. Running'
    BY <1>1 DEF Running
  <2>2. \A u \in Threads : u # t => /\ Loading(u)' <=> Loading(u)
                                    /\ Unloading(u)' <=> Unloading(u)
                                    /\ Works(u)' <=> Works(u)
    BY <1>4 DEF Loading, Unloading, Works
  <2>3. \A u \in Threads : Loading(u)' \/ Unloading(u)' => pc'[u].cls \in Plugins
    BY <1>2, <1>4, <2>2 DEF WorkInv
  <2>4. \A u \in Threads : Works(u)' => pc'[u].obj \in Objects /\ pc'[u].cls \in Classes
    BY <1>2, <1>4, <2>2 DEF WorkInv
  <2> QED BY <2>1, <2>3, <2>4 DEF WorkInv
<1> QED BY <1>5, <1>6, <1>8, <1>9, <1>10 DEF WInv

\* The actions that move nothing but the plug-ins' counts and the thread's point.
LEMMA LoadReadyType ==
  ASSUME WInv, NEW t \in Threads, NEW c \in Plugins, LoadReady(t, c)
  PROVE  WInv' /\ Running
<1>1. Running /\ UNCHANGED engine /\ table' = table /\ lib' = lib /\ obj' = obj /\ pc' = pc
  BY Zenon DEF LoadReady, At
<1>2. uses' = [uses EXCEPT ![t][c] = @ + 1]
  BY DEF LoadReady
<1>3. /\ table \in Tables /\ lib \in Libs /\ uses \in UsesType /\ obj \in ObjType
      /\ pc \in PcType /\ WorkInv
  BY <1>1, RunningTypes
<1>4. uses' \in UsesType
  BY <1>2, <1>3 DEF UsesType
<1>5. pc' = [pc EXCEPT ![t] = pc'[t]] /\ pc'[t] \in Point
  BY <1>1, <1>3 DEF PcType
<1> QED BY <1>1, <1>3, <1>4, <1>5, RunningStep DEF WorkInv, Loading, Unloading, Works

LEMMA LoadNewUses ==
  ASSUME WInv, Running, NEW t \in Threads, NEW c \in Plugins, LoadNew(t, c)
  PROVE  /\ uses' \in UsesType
         /\ Parent[c] = None => uses' = uses
         /\ Parent[c] # None =>
              /\ Parent[c] \in Plugins /\ uses[t][Parent[c]] > 0
              /\ \A u \in Threads \cup Plugins, d \in Plugins :
                   uses'[u][d] = IF d = Parent[c] /\ u = t THEN uses[u][d] - 1
                                 ELSE IF d = Parent[c] /\ u = c THEN uses[u][d] + 1
                                 ELSE uses[u][d]
<1>0. uses \in UsesType
  BY RunningTypes
<1>1. CASE Parent[c] = None
  BY <1>0, <1>1, Zenon DEF LoadNew
<1>2. CASE Parent[c] # None
  <2>1. Parent[c] \in Plugins /\ t # c
    BY <1>2, ClassAssumption, UserAssumption
  <2>2. uses[t][Parent[c]] > 0
    BY <1>2 DEF LoadNew
  <2>3. uses' = OneMoved(uses, t, c, Parent[c])
    BY <1>2 DEF LoadNew, Move, OneMoved
  <2>4. uses \in CountsOf(Holders, Plugins) /\ t \in Holders /\ c \in Holders
    BY <1>0 DEF Holders, CountsOf, UsesType
  <2>5. /\ uses' \in CountsOf(Holders, Plugins)
        /\ \A u \in Holders, d \in Plugins :
             uses'[u][d] = IF d = Parent[c] /\ u = t THEN uses[u][d] - 1
                           ELSE IF d = Parent[c] /\ u = c THEN uses[u][d] + 1
                           ELSE uses[u][d]
    BY <2>1, <2>2, <2>3, <2>4, MovedCounts
  <2> QED BY <1>2, <2>1, <2>2, <2>5 DEF Holders, CountsOf, UsesType
<1> QED BY <1>1, <1>2

LEMMA LoadNewType ==
  ASSUME WInv, NEW t \in Threads, NEW c \in Plugins, LoadNew(t, c)
  PROVE  WInv' /\ Running
<1>1. /\ Running /\ UNCHANGED engine /\ table' = table /\ obj' = obj
      /\ lib' = [lib EXCEPT ![c] = "loading"]
      /\ pc' = [pc EXCEPT ![t] = [Idle EXCEPT !.op = "add", !.cls = c]]
  BY Zenon DEF LoadNew, At
<1>2. /\ table \in Tables /\ lib \in Libs /\ obj \in ObjType /\ pc \in PcType /\ WorkInv
  BY <1>1, RunningTypes
<1>3. uses' \in UsesType
  BY <1>1, LoadNewUses
<1>4. /\ pc'[t] = [op |-> "add", cls |-> c, obj |-> None, left |-> 0]
      /\ pc' = [pc EXCEPT ![t] = pc'[t]]
  BY <1>1, <1>2 DEF PcType, Idle
<1>5. pc'[t] \in Point /\ ~Unloading(t)' /\ ~Works(t)' /\ pc'[t].cls \in Plugins
  BY <1>4 DEF Point, Classes, Unloading, Works
<1>6. lib' \in Libs
  BY <1>1, <1>2 DEF Libs
<1> QED BY <1>1, <1>2, <1>3, <1>4, <1>5, <1>6, RunningStep DEF WorkInv

LEMMA ClassAddType ==
  ASSUME WInv, NEW t \in Threads, ClassAdd(t)
  PROVE  WInv' /\ Running
<1> DEFINE c == pc[t].cls
<1>1. /\ Running /\ pc[t].op = "add" /\ UNCHANGED engine
      /\ table' = [table EXCEPT ![c] = "added"]
      /\ pc' = [pc EXCEPT ![t].op = "init"]
      /\ lib' = lib /\ uses' = uses /\ obj' = obj
  BY Zenon DEF ClassAdd, At, plugins
<1>2. /\ table \in Tables /\ lib \in Libs /\ uses \in UsesType /\ obj \in ObjType
      /\ pc \in PcType /\ WorkInv
  BY <1>1, RunningTypes
<1>3. c \in Plugins
  BY <1>1, <1>2 DEF WorkInv, Loading
<1>4. /\ pc' = [pc EXCEPT ![t] = pc'[t]] /\ pc'[t] \in Point
      /\ pc'[t].op = "init" /\ pc'[t].cls = c
  BY <1>1, <1>2 DEF PcType, Point
<1>5. ~Works(t)' /\ ~Unloading(t)'
  BY <1>4 DEF Works, Unloading
<1>6. table' \in Tables /\ \A d \in Core : table'[d] = table[d]
  BY <1>1, <1>2, <1>3, ClassAssumption DEF Tables, Classes
<1> QED BY <1>1, <1>2, <1>3, <1>4, <1>5, <1>6, RunningStep DEF WorkInv

LEMMA ClassInitType ==
  ASSUME WInv, NEW t \in Threads, ClassInit(t)
  PROVE  WInv' /\ Running
<1> DEFINE c == pc[t].cls
<1>1. /\ Running /\ pc[t].op = "init" /\ UNCHANGED engine
      /\ table' = [table EXCEPT ![c] = "ready"]
      /\ lib' = [lib EXCEPT ![c] = "ready"]
      /\ uses' = [uses EXCEPT ![t][c] = @ + 1]
      /\ pc' = [pc EXCEPT ![t] = Idle] /\ obj' = obj
  BY Zenon DEF ClassInit, At
<1>2. /\ table \in Tables /\ lib \in Libs /\ uses \in UsesType /\ obj \in ObjType
      /\ pc \in PcType /\ WorkInv
  BY <1>1, RunningTypes
<1>3. c \in Plugins
  BY <1>1, <1>2 DEF WorkInv, Loading
<1>4. /\ pc' = [pc EXCEPT ![t] = pc'[t]] /\ pc'[t] \in Point
      /\ pc'[t].op = "idle"
  BY <1>1, <1>2 DEF PcType, Point, Idle
<1>5. ~Works(t)' /\ ~Unloading(t)' /\ ~Loading(t)'
  BY <1>4 DEF Works, Unloading, Loading
<1>6. table' \in Tables /\ \A d \in Core : table'[d] = table[d]
  BY <1>1, <1>2, <1>3, ClassAssumption DEF Tables, Classes
<1>7. lib' \in Libs /\ uses' \in UsesType
  BY <1>1, <1>2, <1>3 DEF Libs, UsesType
<1> QED BY <1>1, <1>2, <1>3, <1>4, <1>5, <1>6, <1>7, RunningStep DEF WorkInv

LEMMA UnloadType ==
  ASSUME WInv, NEW t \in Threads, NEW c \in Plugins, Unload(t, c)
  PROVE  WInv' /\ Running
<1>1. /\ Running /\ UNCHANGED engine /\ table' = table /\ lib' = lib /\ obj' = obj
      /\ uses[t][c] > 0 /\ uses' = [uses EXCEPT ![t][c] = @ - 1]
      /\ pc' = [pc EXCEPT ![t] = [Idle EXCEPT !.op = "check", !.cls = c]]
  BY Zenon DEF Unload, At
<1>2. /\ table \in Tables /\ lib \in Libs /\ uses \in UsesType /\ obj \in ObjType
      /\ pc \in PcType /\ WorkInv
  BY <1>1, RunningTypes
<1>3. uses' \in UsesType
  BY <1>1, <1>2 DEF UsesType
<1>4. /\ pc'[t] = [op |-> "check", cls |-> c, obj |-> None, left |-> 0]
      /\ pc' = [pc EXCEPT ![t] = pc'[t]]
  BY <1>1, <1>2 DEF PcType, Idle
<1>5. pc'[t] \in Point /\ ~Works(t)' /\ pc'[t].cls \in Plugins
  BY <1>4 DEF Point, Classes, Works
<1> QED BY <1>1, <1>2, <1>3, <1>4, <1>5, RunningStep DEF WorkInv

\* The steps of an unloading that only look move the thread alone.
LEMMA UnloadLooksType ==
  ASSUME WInv, NEW t \in Threads, UnloadCheck(t) \/ UnloadTest(t)
  PROVE  WInv' /\ Running
<1>1. /\ Running /\ Unloading(t)
      /\ UNCHANGED engine /\ table' = table /\ lib' = lib /\ uses' = uses /\ obj' = obj
  BY Zenon DEF UnloadCheck, UnloadTest, At, Unloading, plugins
<1>2. /\ table \in Tables /\ lib \in Libs /\ uses \in UsesType /\ obj \in ObjType
      /\ pc \in PcType /\ WorkInv
  BY <1>1, RunningTypes
<1>3. pc[t].cls \in Plugins
  BY <1>1, <1>2 DEF WorkInv
<1>4. \/ \E p \in {"test", "uncache", "exit"} : pc' = [pc EXCEPT ![t].op = p]
      \/ pc' = [pc EXCEPT ![t] = Idle]
  <2>1. CASE UnloadCheck(t)
    BY <2>1 DEF UnloadCheck
  <2>2. CASE UnloadTest(t)
    <3>1. pc' = [pc EXCEPT ![t].op = "exit"] \/ pc' = [pc EXCEPT ![t] = Idle]
      BY <2>2 DEF UnloadTest
    <3> QED BY <3>1
  <2> QED BY <2>1, <2>2
<1>5. /\ pc' = [pc EXCEPT ![t] = pc'[t]] /\ pc'[t] \in Point
      /\ pc'[t].op \in {"idle", "test", "uncache", "exit"}
      /\ pc'[t].op # "idle" => pc'[t].cls = pc[t].cls
  BY <1>2, <1>4 DEF PcType, Point, Idle
<1>6. ~Works(t)' /\ ~Loading(t)' /\ (Unloading(t)' => pc'[t].cls \in Plugins)
  BY <1>3, <1>5 DEF Works, Loading, Unloading
<1> QED BY <1>1, <1>2, <1>5, <1>6, RunningStep DEF WorkInv

LEMMA UncacheType ==
  ASSUME WInv, NEW t \in Threads, Uncache(t)
  PROVE  WInv' /\ Running
<1>1. /\ Running /\ Unloading(t)
      /\ UNCHANGED engine /\ table' = table /\ uses' = uses /\ obj' = obj
      /\ lib' = [lib EXCEPT ![pc[t].cls] = "absent"]
      /\ pc' = [pc EXCEPT ![t].op = "exit"]
  BY Zenon DEF Uncache, At, Unloading
<1>2. /\ table \in Tables /\ lib \in Libs /\ uses \in UsesType /\ obj \in ObjType
      /\ pc \in PcType /\ WorkInv
  BY <1>1, RunningTypes
<1>3. pc[t].cls \in Plugins
  BY <1>1, <1>2 DEF WorkInv
<1>4. /\ pc' = [pc EXCEPT ![t] = pc'[t]] /\ pc'[t] \in Point
      /\ pc'[t].op = "exit" /\ pc'[t].cls = pc[t].cls
  BY <1>1, <1>2 DEF PcType, Point
<1>5. ~Works(t)' /\ ~Loading(t)' /\ lib' \in Libs
  BY <1>1, <1>2, <1>4 DEF Works, Loading, Libs
<1> QED BY <1>1, <1>2, <1>3, <1>4, <1>5, RunningStep DEF WorkInv

LEMMA ClassFreeType ==
  ASSUME WInv, NEW t \in Threads, ClassFree(t)
  PROVE  WInv' /\ Running
<1>1. /\ Running /\ Unloading(t)
      /\ UNCHANGED engine /\ lib' = lib /\ uses' = uses /\ obj' = obj
      /\ table' = [table EXCEPT ![pc[t].cls] = "absent"]
      /\ pc' = [pc EXCEPT ![t].op = "release"]
  BY Zenon DEF ClassFree, At, Unloading, plugins
<1>2. /\ table \in Tables /\ lib \in Libs /\ uses \in UsesType /\ obj \in ObjType
      /\ pc \in PcType /\ WorkInv
  BY <1>1, RunningTypes
<1>3. pc[t].cls \in Plugins
  BY <1>1, <1>2 DEF WorkInv
<1>4. /\ pc' = [pc EXCEPT ![t] = pc'[t]] /\ pc'[t] \in Point
      /\ pc'[t].op = "release" /\ pc'[t].cls = pc[t].cls
  BY <1>1, <1>2 DEF PcType, Point
<1>5. ~Works(t)' /\ ~Loading(t)'
  BY <1>4 DEF Works, Loading
<1>6. table' \in Tables /\ \A d \in Core : table'[d] = table[d]
  BY <1>1, <1>2, <1>3, ClassAssumption DEF Tables, Classes
<1> QED BY <1>1, <1>2, <1>3, <1>4, <1>5, <1>6, RunningStep DEF WorkInv

LEMMA ReleaseType ==
  ASSUME WInv, NEW t \in Threads, Release(t)
  PROVE  WInv' /\ Running
<1> DEFINE c == pc[t].cls
<1>1. /\ Running /\ Unloading(t)
      /\ UNCHANGED engine /\ table' = table /\ lib' = lib /\ obj' = obj
  BY Zenon DEF Release, At, Unloading
<1>2. /\ table \in Tables /\ lib \in Libs /\ uses \in UsesType /\ obj \in ObjType
      /\ pc \in PcType /\ WorkInv
  BY <1>1, RunningTypes
<1>3. c \in Plugins
  BY <1>1, <1>2 DEF WorkInv
<1>4. CASE Parent[c] # None /\ uses[c][Parent[c]] > 0
  <2>1. /\ uses' = [uses EXCEPT ![c][Parent[c]] = @ - 1]
        /\ pc' = [pc EXCEPT ![t] = [Idle EXCEPT !.op = "check", !.cls = Parent[c]]]
    BY <1>4, Zenon DEF Release
  <2>2. Parent[c] \in Plugins
    BY <1>3, <1>4, ClassAssumption
  <2>3. uses' \in UsesType
    BY <1>2, <1>3, <1>4, <2>1, <2>2 DEF UsesType
  <2>4. /\ pc'[t] = [op |-> "check", cls |-> Parent[c], obj |-> None, left |-> 0]
        /\ pc' = [pc EXCEPT ![t] = pc'[t]]
    BY <1>2, <2>1 DEF PcType, Idle
  <2>5. pc'[t] \in Point /\ ~Works(t)' /\ pc'[t].cls \in Plugins
    BY <2>2, <2>4 DEF Point, Classes, Works
  <2> QED BY <1>1, <1>2, <2>3, <2>4, <2>5, RunningStep DEF WorkInv
<1>5. CASE ~(Parent[c] # None /\ uses[c][Parent[c]] > 0)
  <2>1. pc' = [pc EXCEPT ![t] = Idle] /\ uses' = uses
    BY <1>5, Zenon DEF Release
  <2>2. /\ pc' = [pc EXCEPT ![t] = pc'[t]] /\ pc'[t] \in Point /\ pc'[t].op = "idle"
    BY <1>2, <2>1 DEF PcType, Point, Idle
  <2>3. ~Works(t)' /\ ~Unloading(t)' /\ ~Loading(t)'
    BY <2>2 DEF Works, Unloading, Loading
  <2> QED BY <1>1, <1>2, <2>1, <2>2, <2>3, RunningStep DEF WorkInv
<1> QED BY <1>4, <1>5

\* Making and deleting objects.
LEMMA NewType ==
  ASSUME WInv, NEW t \in Threads, NEW c \in Classes, NEW o \in Objects, New(t, c, o)
  PROVE  WInv' /\ Running
<1>1. /\ Running /\ UNCHANGED engine /\ table' = table /\ lib' = lib /\ uses' = uses
      /\ obj' = [obj EXCEPT ![o] = [cls |-> c, inits |-> 0, owner |-> t]]
      /\ pc' = [pc EXCEPT ![t] = [op |-> "run", cls |-> c, obj |-> o, left |-> Hierarchy(c)]]
  BY Zenon DEF New, At, plugins
<1>2. /\ table \in Tables /\ lib \in Libs /\ uses \in UsesType /\ obj \in ObjType
      /\ pc \in PcType /\ WorkInv
  BY <1>1, RunningTypes
<1>3. Hierarchy(c) \in Nat
  BY ClassAssumption DEF Hierarchy
<1>4. /\ pc'[t] = [op |-> "run", cls |-> c, obj |-> o, left |-> Hierarchy(c)]
      /\ pc' = [pc EXCEPT ![t] = pc'[t]]
  BY <1>1, <1>2 DEF PcType
<1>5. /\ pc'[t] \in Point /\ ~Loading(t)' /\ ~Unloading(t)'
      /\ pc'[t].obj \in Objects /\ pc'[t].cls \in Classes
  BY <1>3, <1>4 DEF Point, Loading, Unloading
<1>6. /\ obj' \in ObjType
      /\ \A p \in Objects : obj'[p].owner # None => obj'[p].cls \in Classes
  BY <1>1, <1>2 DEF ObjType, WorkInv
<1> QED BY <1>1, <1>2, <1>4, <1>5, <1>6, RunningStep

LEMMA DropType ==
  ASSUME WInv, NEW t \in Threads, NEW o \in Objects, Drop(t, o)
  PROVE  WInv' /\ Running
<1>1. /\ Running /\ UNCHANGED engine /\ table' = table /\ lib' = lib /\ uses' = uses
      /\ obj' = obj /\ obj[o].owner = t
      /\ pc' = [pc EXCEPT ![t] = [Idle EXCEPT !.op = "delete", !.cls = obj[o].cls, !.obj = o]]
  BY Zenon DEF Drop, At, plugins
<1>2. /\ table \in Tables /\ lib \in Libs /\ uses \in UsesType /\ obj \in ObjType
      /\ pc \in PcType /\ WorkInv
  BY <1>1, RunningTypes
<1>3. obj[o].cls \in Classes
  BY <1>1, <1>2, UserAssumption DEF WorkInv
<1>4. /\ pc'[t] = [op |-> "delete", cls |-> obj[o].cls, obj |-> o, left |-> 0]
      /\ pc' = [pc EXCEPT ![t] = pc'[t]]
  BY <1>1, <1>2 DEF PcType, Idle
<1>5. /\ pc'[t] \in Point /\ ~Loading(t)' /\ ~Unloading(t)'
      /\ pc'[t].obj \in Objects /\ pc'[t].cls \in Classes
  BY <1>3, <1>4 DEF Point, Loading, Unloading
<1> QED BY <1>1, <1>2, <1>3, <1>4, <1>5, RunningStep DEF WorkInv

\* The rest leave the plug-ins alone and go on with the object, or let it go.
LEMMA WorkType ==
  ASSUME WInv, NEW t \in Threads,
         RunInit(t) \/ NewReturns(t) \/ Delete(t) \/ RunDestroy(t) \/ DeleteReturns(t)
  PROVE  WInv' /\ Running
<1>1. /\ Running /\ Works(t)
      /\ UNCHANGED engine /\ table' = table /\ lib' = lib /\ uses' = uses
  BY Zenon DEF RunInit, NewReturns, Delete, RunDestroy, DeleteReturns, At, Works, plugins
<1>2. /\ table \in Tables /\ lib \in Libs /\ uses \in UsesType /\ obj \in ObjType
      /\ pc \in PcType /\ WorkInv
  BY <1>1, RunningTypes
<1>3. pc[t].obj \in Objects /\ pc[t].cls \in Classes /\ pc[t].left \in Nat
  BY <1>1, <1>2 DEF WorkInv, PcType, Point
<1>4. Hierarchy(pc[t].cls) \in Nat
  BY <1>3, ClassAssumption DEF Hierarchy
<1>5. /\ \/ obj' = obj \/ obj' = [obj EXCEPT ![pc[t].obj].inits = @ + 1]
         \/ obj' = [obj EXCEPT ![pc[t].obj].owner = None]
         \/ obj' = [obj EXCEPT ![pc[t].obj] = Free]
      /\ \/ pc' = [pc EXCEPT ![t] = Idle] \/ pc' = [pc EXCEPT ![t].op = "delete"]
         \/ pc[t].left > 0 /\ pc' = [pc EXCEPT ![t].left = @ - 1]
         \/ pc' = [pc EXCEPT ![t].op = "destroy", ![t].left = Hierarchy(pc[t].cls)]
  <2>1. CASE RunInit(t)
    BY <2>1, Zenon DEF RunInit
  <2>2. CASE NewReturns(t)
    BY <2>2, Zenon DEF NewReturns
  <2>3. CASE Delete(t)
    BY <2>3, Zenon DEF Delete
  <2>4. CASE RunDestroy(t)
    BY <2>4, Zenon DEF RunDestroy
  <2>5. CASE DeleteReturns(t)
    BY <2>5, Zenon DEF DeleteReturns
  <2> QED BY <2>1, <2>2, <2>3, <2>4, <2>5
<1>6. /\ obj' \in ObjType
      /\ \A p \in Objects : obj'[p].owner # None => obj'[p].cls \in Classes
  BY <1>2, <1>3, <1>5 DEF ObjType, WorkInv, Free
<1>7. /\ pc' = [pc EXCEPT ![t] = pc'[t]] /\ pc'[t] \in Point
      /\ pc'[t].op \in {"idle", "delete", pc[t].op, "destroy"}
      /\ pc'[t].op # "idle" => pc'[t].cls = pc[t].cls /\ pc'[t].obj = pc[t].obj
  BY <1>1, <1>2, <1>3, <1>4, <1>5 DEF PcType, Point, Idle
<1>8. /\ ~Loading(t)' /\ ~Unloading(t)'
      /\ Works(t)' => pc'[t].obj \in Objects /\ pc'[t].cls \in Classes
  BY <1>1, <1>3, <1>7 DEF Loading, Unloading, Works
<1> QED BY <1>1, <1>2, <1>6, <1>7, <1>8, RunningStep

-----------------------------------------------------------------------------
(* The same actions again, for what holds if the application is orderly: while  *)
(* a thread unloads nobody else does, and nobody loads.                         *)

LEMMA RunningFacts ==
  ASSUME IInv, Running
  PROVE  /\ table # None /\ table \in Tables /\ lib \in Libs /\ uses \in UsesType
         /\ obj \in ObjType /\ pc \in PcType
         /\ \A c \in Core : table[c] = "ready"
         /\ WorkInv /\ LoadedInv /\ PluginInv /\ UnloadInv /\ ObjectInv
  BY RunningTypes DEF IInv, OInv

LEMMA RunningStays ==
  ASSUME Running, UNCHANGED engine
  PROVE  Running'
  BY Zenon DEF Running, engine

\* While nobody unloads, nothing is known of a thread that does.
LEMMA NobodyUnloads ==
  ASSUME \A t \in Threads : ~Unloading(t)'
  PROVE  UnloadInv' /\ \A c : ~Exiting(c)' /\ ~Leaving(c)'
  BY DEF UnloadInv, Unloading, Exiting, Leaving

LEMMA LoadReadyStep ==
  ASSUME Orderly, IInv, NEW t \in Threads, NEW c \in Plugins, LoadReady(t, c)
  PROVE  OInv'
<1>1. Running /\ pc[t].op = "idle" /\ lib[c] = "ready" /\ UNCHANGED engine
  BY Zenon DEF LoadReady, At
<1>2. uses' = [uses EXCEPT ![t][c] = @ + 1]
  BY DEF LoadReady
<1>3. table' = table /\ lib' = lib /\ obj' = obj /\ pc' = pc
  BY Zenon DEF LoadReady
<1>4. \A u \in Threads : ~Unloading(u) /\ ~Unloading(u)'
  <2>1. \A u \in Threads : ~Unloading(u)
    BY Zenon DEF LoadReady, MayLoad
  <2> QED BY <1>3, <2>1 DEF Unloading
<1>5. /\ table # None /\ lib \in Libs /\ uses \in UsesType
      /\ LoadedInv /\ PluginInv /\ ObjectInv
  BY <1>1, RunningFacts
<1>6. /\ \A u \in Threads \cup Plugins, d \in Plugins :
           uses'[u][d] = IF u = t /\ d = c THEN uses[u][d] + 1 ELSE uses[u][d]
      /\ \A u \in Threads \cup Plugins, d \in Plugins : uses[u][d] \in Nat
  BY <1>2, <1>5 DEF UsesType
<1>7. Running' /\ \A u \in Threads : Loading(u)' <=> Loading(u)
  BY <1>1, <1>3, RunningStays DEF Loading
<1>8. LoadedInv'
  BY <1>3, <1>5 DEF LoadedInv, Exiting
<1>9. PluginInv'
  <2>1. \A u \in Threads \cup Plugins, d \in Plugins : uses'[u][d] > 0 => lib'[d] = "ready"
    BY <1>1, <1>3, <1>5, <1>6 DEF PluginInv
  <2>2. \A d \in Plugins : (lib'[d] # "absent" \/ Leaving(d)') /\ Parent[d] # None =>
          uses'[d][Parent[d]] > 0
    BY <1>3, <1>4, <1>5, <1>6, ClassAssumption, NobodyUnloads DEF PluginInv
  <2> QED BY <1>1, <1>3, <1>5, <1>7, <2>1, <2>2 DEF PluginInv
<1>10. ObjectInv'
  BY <1>3, <1>5, <1>6 DEF ObjectInv, Works, Usable
<1> QED BY <1>4, <1>8, <1>9, <1>10, NobodyUnloads DEF OInv

LEMMA LoadNewStep ==
  ASSUME Orderly, IInv, NEW t \in Threads, NEW c \in Plugins, LoadNew(t, c)
  PROVE  OInv'
<1>1. Running /\ pc[t].op = "idle" /\ lib[c] = "absent" /\ UNCHANGED engine
  BY Zenon DEF LoadNew, At
<1>2. /\ lib' = [lib EXCEPT ![c] = "loading"]
      /\ pc' = [pc EXCEPT ![t] = [Idle EXCEPT !.op = "add", !.cls = c]]
  BY Zenon DEF LoadNew
<1>3. table' = table /\ obj' = obj
  BY Zenon DEF LoadNew
<1>4. \A u \in Threads : ~Unloading(u)
  BY Zenon DEF LoadNew, MayLoad
<1>5. /\ table # None /\ lib \in Libs /\ uses \in UsesType /\ pc \in PcType
      /\ LoadedInv /\ PluginInv /\ ObjectInv
  BY <1>1, RunningFacts
<1>51. /\ \A d : ~Exiting(d) /\ table[c] = "absent"
  <2>1. \A d : ~Exiting(d)
    BY <1>4 DEF Exiting, Unloading
  <2> QED BY <1>1, <1>5, <2>1 DEF LoadedInv
<1>6. \A u \in Threads \cup Plugins, d \in Plugins : uses[u][d] \in Nat
  BY <1>5 DEF UsesType
<1>7. /\ Parent[c] = None => uses' = uses
      /\ Parent[c] # None =>
           /\ Parent[c] \in Plugins /\ uses[t][Parent[c]] > 0
           /\ \A u \in Threads \cup Plugins, d \in Plugins :
                uses'[u][d] = IF d = Parent[c] /\ u = t THEN uses[u][d] - 1
                              ELSE IF d = Parent[c] /\ u = c THEN uses[u][d] + 1
                              ELSE uses[u][d]
  BY <1>1, LoadNewUses DEF IInv
<1>8. /\ lib'[c] = "loading" /\ \A d \in Plugins : d # c => lib'[d] = lib[d]
      /\ pc'[t].op = "add" /\ pc'[t].cls = c /\ pc'[t].obj = None
      /\ \A u \in Threads : u # t => pc'[u] = pc[u]
  BY <1>2, <1>5 DEF Libs, PcType, Idle
<1>81. \A u \in Threads : ~Unloading(u)'
  BY <1>4, <1>8 DEF Unloading
<1>82. LoadedInv'
  BY <1>3, <1>5, <1>51, <1>8 DEF LoadedInv
<1>9. PluginInv'
  <2>1. Running'
    BY <1>1, RunningStays
  <2>2. \A u \in Threads : Loading(u) => pc[u].cls # c
    BY <1>1, <1>5 DEF PluginInv
  <2>3. Loading(t)' /\ \A u \in Threads : u # t => (Loading(u)' <=> Loading(u))
    BY <1>8 DEF Loading
  <2>31. \A u \in Threads : Loading(u) => pc[u].cls \in Plugins
    BY DEF IInv, WInv, WorkInv
  <2>4. \A u \in Threads : Loading(u)' =>
           /\ lib'[pc'[u].cls] = "loading" /\ pc'[u].obj = None
           /\ table'[pc'[u].cls] = IF pc'[u].op = "add" THEN "absent" ELSE "added"
    BY <1>3, <1>5, <1>51, <1>8, <2>2, <2>3, <2>31 DEF PluginInv
  <2>5. \A u, v \in Threads : Loading(u)' /\ Loading(v)' /\ pc'[u].cls = pc'[v].cls => u = v
    BY <1>5, <1>8, <2>2, <2>3 DEF PluginInv
  <2>6. \A u \in Threads \cup Plugins, d \in Plugins : uses'[u][d] > 0 => lib'[d] = "ready"
    <3> SUFFICES ASSUME NEW u \in Threads \cup Plugins, NEW d \in Plugins, uses'[u][d] > 0
                 PROVE  lib'[d] = "ready"
      OBVIOUS
    <3>1. lib[d] = "ready"
      BY <1>5, <1>6, <1>7 DEF PluginInv
    <3> QED BY <1>1, <1>8, <3>1
  <2>7. \A d \in Plugins : (lib'[d] # "absent" \/ Leaving(d)') /\ Parent[d] # None =>
          uses'[d][Parent[d]] > 0
    <3> SUFFICES ASSUME NEW d \in Plugins, lib'[d] # "absent", Parent[d] # None
                 PROVE  uses'[d][Parent[d]] > 0
      BY <1>81, NobodyUnloads
    <3>1. Parent[d] \in Plugins /\ d # t
      BY ClassAssumption, UserAssumption
    <3>2. CASE d = c
      BY <1>6, <1>7, <3>1, <3>2
    <3>3. CASE d # c
      <4>1. uses[d][Parent[d]] > 0
        BY <1>5, <1>8, <3>3 DEF PluginInv
      <4> QED BY <1>7, <3>1, <3>3, <4>1
    <3> QED BY <3>2, <3>3
  <2>8. \A d \in Plugins : lib'[d] = "ready" => table'[d] = "ready"
    BY <1>1, <1>3, <1>5, <1>8 DEF PluginInv
  <2> QED BY <2>4, <2>5, <2>6, <2>7, <2>8, Zenon DEF PluginInv
<1>10. ObjectInv'
  <2>1. ~Works(t) /\ ~Works(t)' /\ \A u \in Threads : u # t => (Works(u)' <=> Works(u))
    BY <1>1, <1>8 DEF Works
  <2>2. \A u \in Threads, d \in Plugins : u # t => uses'[u][d] = uses[u][d]
    BY <1>7, UserAssumption, ClassAssumption
  <2>3. pc[t].obj = None /\ pc'[t].obj = None
    BY <1>1, <1>5, <1>8 DEF ObjectInv
  <2> QED BY <1>3, <1>5, <1>8, <2>1, <2>2, <2>3 DEF ObjectInv, Usable
<1> QED BY <1>81, <1>82, <1>9, <1>10, NobodyUnloads DEF OInv

LEMMA ClassAddStep ==
  ASSUME IInv, NEW t \in Threads, ClassAdd(t)
  PROVE  OInv'
<1> DEFINE c == pc[t].cls
<1>1. Running /\ pc[t].op = "add" /\ UNCHANGED engine
  BY Zenon DEF ClassAdd, At
<1>2. /\ table' = [table EXCEPT ![c] = "added"]
      /\ pc' = [pc EXCEPT ![t].op = "init"]
  BY Zenon DEF ClassAdd
<1>3. lib' = lib /\ uses' = uses /\ obj' = obj
  BY Zenon DEF ClassAdd, plugins
<1>4. Running'
  BY <1>1, RunningStays
<1>5. /\ table # None /\ table \in Tables /\ pc \in PcType
      /\ WorkInv /\ LoadedInv /\ PluginInv /\ UnloadInv /\ ObjectInv
  BY <1>1, RunningFacts
<1>6. c \in Plugins /\ lib[c] = "loading" /\ Loading(t) /\ pc[t].obj = None
  BY <1>1, <1>5 DEF PluginInv, WorkInv, Loading
<1> HIDE DEF c
<1>7. /\ table' # None
      /\ table'[c] = "added" /\ \A d \in Classes : d # c => table'[d] = table[d]
      /\ pc'[t].op = "init" /\ pc'[t].cls = pc[t].cls /\ pc'[t].obj = pc[t].obj
      /\ \A u \in Threads : u # t => pc'[u] = pc[u]
  <2>1. table' \in Tables
    BY <1>2, <1>5, <1>6 DEF Tables, Classes
  <2> QED BY <1>2, <1>5, <1>6, <2>1, ClassAssumption DEF Tables, PcType, Point, Classes
<1>71. \A u \in Threads : ~Unloading(u) /\ ~Unloading(u)'
  <2>1. \A u \in Threads : ~Unloading(u)
    BY <1>5, <1>6 DEF UnloadInv
  <2> QED BY <1>7, <2>1 DEF Unloading
<1>72. LoadedInv'
  <2>1. \A d : ~Exiting(d)
    BY <1>71 DEF Exiting, Unloading
  <2> QED BY <1>3, <1>5, <1>6, <1>7, <2>1 DEF LoadedInv, Classes
<1>8. \A u \in Threads : Loading(u) /\ u # t => pc[u].cls # c
  BY <1>5, <1>6 DEF PluginInv, c
<1>9. PluginInv'
  <2>1. \A u \in Threads : Loading(u)' <=> Loading(u)
    BY <1>6, <1>7 DEF Loading
  <2>2. \A u \in Threads : Loading(u)' =>
           /\ lib'[pc'[u].cls] = "loading" /\ pc'[u].obj = None
           /\ table'[pc'[u].cls] = IF pc'[u].op = "add" THEN "absent" ELSE "added"
    <3> SUFFICES ASSUME NEW u \in Threads, Loading(u)
                 PROVE  /\ lib'[pc'[u].cls] = "loading" /\ pc'[u].obj = None
                        /\ table'[pc'[u].cls] = IF pc'[u].op = "add" THEN "absent" ELSE "added"
      BY <2>1
    <3>1. CASE u = t
      BY <1>3, <1>6, <1>7, <3>1 DEF c
    <3>2. CASE u # t
      <4>1. /\ pc[u].cls \in Plugins /\ lib[pc[u].cls] = "loading" /\ pc[u].obj = None
            /\ table[pc[u].cls] = IF pc[u].op = "add" THEN "absent" ELSE "added"
        BY <1>5 DEF PluginInv, WorkInv
      <4> QED BY <1>3, <1>7, <1>8, <3>2, <4>1 DEF Classes
    <3> QED BY <3>1, <3>2
  <2>3. \A u, v \in Threads : Loading(u)' /\ Loading(v)' /\ pc'[u].cls = pc'[v].cls => u = v
    <3>1. \A u \in Threads : pc'[u].cls = pc[u].cls
      BY <1>7
    <3> QED BY <1>5, <2>1, <3>1 DEF PluginInv
  <2>4. \A d \in Plugins : lib'[d] = "ready" => table'[d] = "ready"
    BY <1>1, <1>3, <1>5, <1>6, <1>7 DEF PluginInv, Classes
  <2>5. \A d \in Plugins : (lib'[d] # "absent" \/ Leaving(d)') /\ Parent[d] # None =>
          uses'[d][Parent[d]] > 0
    BY <1>3, <1>5, <1>71, NobodyUnloads DEF PluginInv
  <2> QED BY <1>3, <1>5, <2>2, <2>3, <2>4, <2>5 DEF PluginInv
<1>10. ObjectInv'
  <2>1. \A u \in Threads : (Works(u)' <=> Works(u)) /\ pc'[u].obj = pc[u].obj
    BY <1>1, <1>7 DEF Works
  <2>2. ~Works(t) /\ pc'[t].op = "init"
    BY <1>1, <1>7 DEF Works
  <2> QED BY <1>3, <1>5, <1>7, <2>1, <2>2 DEF ObjectInv, Usable
<1> QED BY <1>71, <1>72, <1>9, <1>10, NobodyUnloads DEF OInv

LEMMA ClassInitStep ==
  ASSUME IInv, NEW t \in Threads, ClassInit(t)
  PROVE  OInv'
<1> DEFINE c == pc[t].cls
<1>1. Running /\ pc[t].op = "init" /\ UNCHANGED engine
  BY Zenon DEF ClassInit, At
<1>2. /\ table' = [table EXCEPT ![c] = "ready"]
      /\ lib' = [lib EXCEPT ![c] = "ready"]
      /\ uses' = [uses EXCEPT ![t][c] = @ + 1]
      /\ pc' = [pc EXCEPT ![t] = Idle]
  BY Zenon DEF ClassInit
<1>3. obj' = obj
  BY Zenon DEF ClassInit
<1>4. Running'
  BY <1>1, RunningStays
<1>5. /\ table # None /\ table \in Tables /\ lib \in Libs /\ uses \in UsesType /\ pc \in PcType
      /\ WorkInv /\ LoadedInv /\ PluginInv /\ UnloadInv /\ ObjectInv
  BY <1>1, RunningFacts
<1>6. c \in Plugins /\ lib[c] = "loading" /\ Loading(t) /\ pc[t].obj = None
  BY <1>1, <1>5 DEF PluginInv, WorkInv, Loading
<1> HIDE DEF c
<1>7. /\ table'[c] = "ready" /\ \A d \in Classes : d # c => table'[d] = table[d]
      /\ lib'[c] = "ready" /\ \A d \in Plugins : d # c => lib'[d] = lib[d]
      /\ pc'[t].op = "idle" /\ pc'[t].obj = None
      /\ \A u \in Threads : u # t => pc'[u] = pc[u]
  BY <1>2, <1>5, <1>6 DEF Tables, Libs, PcType, Classes, Idle
<1>71. /\ \A u \in Threads \cup Plugins, d \in Plugins :
            uses'[u][d] = IF u = t /\ d = c THEN uses[u][d] + 1 ELSE uses[u][d]
       /\ \A u \in Threads \cup Plugins, d \in Plugins : uses[u][d] \in Nat
  BY <1>2, <1>5, <1>6 DEF UsesType
<1>72. \A u \in Threads : ~Unloading(u) /\ ~Unloading(u)'
  <2>1. \A u \in Threads : ~Unloading(u)
    BY <1>5, <1>6 DEF UnloadInv
  <2> QED BY <1>7, <2>1 DEF Unloading
<1>73. LoadedInv'
  <2>1. \A d : ~Exiting(d)
    BY <1>72 DEF Exiting, Unloading
  <2> QED BY <1>5, <1>6, <1>7, <2>1 DEF LoadedInv, Classes
<1>8. \A u \in Threads : Loading(u) /\ u # t => pc[u].cls # c
  BY <1>5, <1>6 DEF PluginInv, c
<1>9. PluginInv'
  <2>1. ~Loading(t)' /\ \A u \in Threads : u # t => (Loading(u)' <=> Loading(u))
    BY <1>7 DEF Loading
  <2>2. \A u \in Threads : Loading(u)' =>
           /\ lib'[pc'[u].cls] = "loading" /\ pc'[u].obj = None
           /\ table'[pc'[u].cls] = IF pc'[u].op = "add" THEN "absent" ELSE "added"
    <3> SUFFICES ASSUME NEW u \in Threads, Loading(u), u # t
                 PROVE  /\ lib'[pc'[u].cls] = "loading" /\ pc'[u].obj = None
                        /\ table'[pc'[u].cls] = IF pc'[u].op = "add" THEN "absent" ELSE "added"
      BY <2>1
    <3>1. /\ pc[u].cls \in Plugins /\ lib[pc[u].cls] = "loading" /\ pc[u].obj = None
          /\ table[pc[u].cls] = IF pc[u].op = "add" THEN "absent" ELSE "added"
      BY <1>5 DEF PluginInv, WorkInv
    <3> QED BY <1>7, <1>8, <3>1 DEF Classes
  <2>3. \A u, v \in Threads : Loading(u)' /\ Loading(v)' /\ pc'[u].cls = pc'[v].cls => u = v
    BY <1>5, <1>7, <2>1 DEF PluginInv
  <2>4. \A d \in Plugins : lib'[d] = "ready" => table'[d] = "ready"
    BY <1>1, <1>5, <1>7 DEF PluginInv, Classes
  <2>5. \A u \in Threads \cup Plugins, d \in Plugins : uses'[u][d] > 0 => lib'[d] = "ready"
    BY <1>5, <1>7, <1>71 DEF PluginInv
  <2>6. \A d \in Plugins : (lib'[d] # "absent" \/ Leaving(d)') /\ Parent[d] # None =>
          uses'[d][Parent[d]] > 0
    <3> SUFFICES ASSUME NEW d \in Plugins, lib'[d] # "absent", Parent[d] # None
                 PROVE  uses'[d][Parent[d]] > 0
      BY <1>72, NobodyUnloads
    <3>1. Parent[d] \in Plugins
      BY ClassAssumption
    <3>2. uses[d][Parent[d]] > 0
      BY <1>5, <1>6, <1>7 DEF PluginInv
    <3> QED BY <1>71, <3>1, <3>2
  <2> QED BY <2>2, <2>3, <2>4, <2>5, <2>6, Zenon DEF PluginInv
<1>10. ObjectInv'
  <2>1. ~Works(t) /\ ~Works(t)' /\ \A u \in Threads : u # t => (Works(u)' <=> Works(u))
    BY <1>1, <1>7 DEF Works
  <2>2. \A u \in Threads, d \in Plugins : u # t => uses'[u][d] = uses[u][d]
    BY <1>71
  <2> QED BY <1>3, <1>5, <1>6, <1>7, <2>1, <2>2 DEF ObjectInv, Usable
<1> QED BY <1>72, <1>73, <1>9, <1>10, NobodyUnloads DEF OInv

-----------------------------------------------------------------------------
(* Unloading, one step at a time.                                               *)

LEMMA UnloadStep ==
  ASSUME Orderly, IInv, NEW t \in Threads, NEW c \in Plugins, Unload(t, c)
  PROVE  OInv'
<1>1. Running /\ pc[t].op = "idle" /\ UNCHANGED engine
  BY Zenon DEF Unload, At
<1>2. /\ uses' = [uses EXCEPT ![t][c] = @ - 1] /\ uses[t][c] > 0
      /\ pc' = [pc EXCEPT ![t] = [Idle EXCEPT !.op = "check", !.cls = c]]
  BY Zenon DEF Unload
<1>3. table' = table /\ lib' = lib /\ obj' = obj
  BY Zenon DEF Unload
<1>4. \A u \in Threads : ~Unloading(u) /\ ~Loading(u)
  BY Zenon DEF Unload, MayUnload
<1>5. /\ lib \in Libs /\ uses \in UsesType /\ pc \in PcType
      /\ LoadedInv /\ PluginInv /\ ObjectInv
  BY <1>1, RunningFacts
<1>6. lib[c] = "ready"
  BY <1>2, <1>5 DEF PluginInv
<1>7. /\ \A u \in Threads \cup Plugins, d \in Plugins :
            uses'[u][d] = IF u = t /\ d = c THEN uses[u][d] - 1 ELSE uses[u][d]
      /\ \A u \in Threads \cup Plugins, d \in Plugins : uses[u][d] \in Nat
  BY <1>2, <1>5 DEF UsesType
<1>8. /\ pc'[t].op = "check" /\ pc'[t].cls = c /\ pc'[t].obj = None
      /\ \A u \in Threads : u # t => pc'[u] = pc[u]
  BY <1>2, <1>5 DEF PcType, Idle
<1>9. \A u \in Threads : ~Loading(u)' /\ (u # t => ~Unloading(u)')
  BY <1>4, <1>8 DEF Loading, Unloading
<1>10. \A d : ~Exiting(d) /\ ~Leaving(d) /\ ~Exiting(d)' /\ ~Leaving(d)'
  BY <1>4, <1>8 DEF Exiting, Leaving, Unloading
<1>11. LoadedInv'
  BY <1>3, <1>5, <1>10 DEF LoadedInv
<1>12. PluginInv'
  <2>1. \A u \in Threads \cup Plugins, d \in Plugins : uses'[u][d] > 0 => lib'[d] = "ready"
    BY <1>3, <1>5, <1>6, <1>7 DEF PluginInv
  <2>2. \A d \in Plugins : (lib'[d] # "absent" \/ Leaving(d)') /\ Parent[d] # None =>
          uses'[d][Parent[d]] > 0
    BY <1>3, <1>5, <1>7, <1>10, ClassAssumption, UserAssumption DEF PluginInv
  <2> QED BY <1>1, <1>3, <1>5, <1>9, <2>1, <2>2 DEF PluginInv
<1>13. UnloadInv'
  BY <1>3, <1>4, <1>6, <1>8, <1>9 DEF UnloadInv, Unloading, Loading
<1>14. ObjectInv'
  <2>1. ~Works(t) /\ ~Works(t)' /\ \A u \in Threads : u # t => (Works(u)' <=> Works(u))
    BY <1>1, <1>8 DEF Works
  <2>2. \A u \in Threads, d \in Plugins : u # t => uses'[u][d] = uses[u][d]
    BY <1>7
  <2>3. pc[t].obj = None /\ pc'[t].obj = None
    BY <1>1, <1>5, <1>8 DEF ObjectInv
  <2> QED BY <1>3, <1>5, <1>8, <2>1, <2>2, <2>3 DEF ObjectInv, Usable
<1> QED BY <1>11, <1>12, <1>13, <1>14 DEF OInv

\* What the steps that follow have in common.
LEMMA AloneUnloads ==
  ASSUME IInv, Running, NEW t \in Threads, Unloading(t),
         pc' = [pc EXCEPT ![t] = pc'[t]], ~Loading(t)', ~Works(t)', UNCHANGED obj,
         pc'[t].op = "idle" => pc'[t].obj = None,
         pc'[t].obj \in {None, pc[t].obj},
         \A u \in Threads, d \in Plugins : uses'[u][d] = uses[u][d]
  PROVE  /\ pc[t].cls \in Plugins /\ ~Loading(t) /\ ~Works(t)
         /\ \A u \in Threads : u # t => pc'[u] = pc[u]
         /\ \A u \in Threads : ~Loading(u) /\ ~Loading(u)'
         /\ \A u \in Threads : u # t => ~Unloading(u) /\ ~Unloading(u)'
         /\ ObjectInv'
<1>1. pc \in PcType /\ WorkInv /\ UnloadInv /\ ObjectInv
  BY RunningFacts
<1>2. \A u \in Threads : u # t => pc'[u] = pc[u]
  BY <1>1 DEF PcType
<1>3. \A u \in Threads : ~Loading(u) /\ (u # t => ~Unloading(u))
  BY <1>1 DEF UnloadInv
<1>4. \A u \in Threads : ~Loading(u)' /\ (u # t => ~Unloading(u)')
  BY <1>2, <1>3 DEF Loading, Unloading
<1>5. ~Works(t) /\ pc[t].cls \in Plugins
  BY <1>1 DEF Works, Unloading, WorkInv
<1>6. ObjectInv'
  <2>1. \A u \in Threads : u # t => (Works(u)' <=> Works(u))
    BY <1>2 DEF Works
  <2>2. \A u \in Threads : pc'[u].op = "idle" => pc'[u].obj = None
    BY <1>1, <1>2 DEF ObjectInv
  <2>3. pc'[t].op # "run"
    BY DEF Works
  <2>4. \A u \in Threads : Works(u)' =>
          /\ obj'[pc'[u].obj].owner = u /\ obj'[pc'[u].obj].cls = pc'[u].cls
          /\ Usable(u, pc[u].cls)'
    BY <1>1, <1>2, <2>1 DEF ObjectInv, Usable
  <2>5. \A u \in Threads, o \in Objects :
          obj'[o].owner = u /\ pc'[u].obj # o => obj'[o].inits = Depth[obj'[o].cls]
    <3>1. pc[t].obj \notin Objects
      BY <1>1, UserAssumption DEF UnloadInv
    <3> QED BY <1>1, <1>2, <3>1 DEF ObjectInv
  <2> QED BY <1>1, <1>2, <2>1, <2>2, <2>3, <2>4, <2>5 DEF ObjectInv
<1> QED BY <1>2, <1>3, <1>4, <1>5, <1>6

LEMMA UnloadCheckStep ==
  ASSUME IInv, NEW t \in Threads, UnloadCheck(t)
  PROVE  OInv'
<1> DEFINE c == pc[t].cls
<1>1. Running /\ pc[t].op = "check" /\ UNCHANGED engine
  BY Zenon DEF UnloadCheck, At
<1>2. table' = table /\ lib' = lib /\ uses' = uses /\ obj' = obj
  BY Zenon DEF UnloadCheck, plugins
<1>3. pc \in PcType /\ LoadedInv /\ PluginInv /\ UnloadInv
  BY <1>1, RunningFacts
<1>4. lib[c] = "ready"
  BY <1>1, <1>3 DEF UnloadInv
<1>5. /\ pc' = [pc EXCEPT ![t] = pc'[t]]
      /\ pc'[t].cls = c /\ pc'[t].obj = pc[t].obj
      /\ pc'[t].op = IF Used(c) THEN "test" ELSE "uncache"
  BY <1>3, <1>4 DEF UnloadCheck, PcType
<1>6. ~Loading(t)' /\ ~Works(t)' /\ Unloading(t)
  BY <1>1, <1>5 DEF Loading, Works, Unloading
<1>7. /\ \A u \in Threads : u # t => pc'[u] = pc[u]
      /\ \A u \in Threads : ~Loading(u) /\ ~Loading(u)'
      /\ \A u \in Threads : u # t => ~Unloading(u) /\ ~Unloading(u)'
      /\ ObjectInv'
  BY <1>1, <1>2, <1>5, <1>6, AloneUnloads
<1>8. \A d : ~Exiting(d) /\ ~Leaving(d) /\ ~Exiting(d)' /\ ~Leaving(d)'
  BY <1>1, <1>5, <1>7 DEF Exiting, Leaving, Unloading
<1>9. LoadedInv'
  BY <1>2, <1>3, <1>8 DEF LoadedInv
<1>10. PluginInv'
  BY <1>1, <1>2, <1>3, <1>7, <1>8, RunningStays DEF PluginInv
<1>11. UnloadInv'
  <2>1. Used(pc[t].cls)' <=> Used(c)
    BY <1>2, <1>5 DEF Used
  <2>2. lib'[pc'[t].cls] = "ready" /\ pc'[t].obj = None
    BY <1>2, <1>3, <1>4, <1>5, <1>6 DEF UnloadInv
  <2> QED BY <1>5, <1>7, <2>1, <2>2 DEF UnloadInv, Unloading
<1> QED BY <1>7, <1>9, <1>10, <1>11 DEF OInv

\* The count is not zero, as nobody else has unloaded the library.
LEMMA UnloadTestStep ==
  ASSUME IInv, NEW t \in Threads, UnloadTest(t)
  PROVE  OInv'
<1>1. Running /\ pc[t].op = "test" /\ UNCHANGED engine
  BY Zenon DEF UnloadTest, At
<1>2. table' = table /\ lib' = lib /\ uses' = uses /\ obj' = obj
  BY Zenon DEF UnloadTest, plugins
<1>3. pc \in PcType /\ LoadedInv /\ PluginInv /\ UnloadInv
  BY <1>1, RunningFacts
<1>4. lib[pc[t].cls] = "ready"
  BY <1>1, <1>3 DEF UnloadInv
<1>5. pc' = [pc EXCEPT ![t] = pc'[t]] /\ pc'[t].op = "idle" /\ pc'[t].obj = None
  BY <1>3, <1>4 DEF UnloadTest, PcType, Idle
<1>6. ~Loading(t)' /\ ~Works(t)' /\ Unloading(t) /\ ~Unloading(t)'
  BY <1>1, <1>5 DEF Loading, Works, Unloading
<1>7. /\ \A u \in Threads : u # t => pc'[u] = pc[u]
      /\ \A u \in Threads : ~Loading(u) /\ ~Loading(u)'
      /\ \A u \in Threads : u # t => ~Unloading(u) /\ ~Unloading(u)'
      /\ ObjectInv'
  BY <1>1, <1>2, <1>5, <1>6, AloneUnloads
<1>8. \A d : ~Exiting(d) /\ ~Leaving(d) /\ ~Exiting(d)' /\ ~Leaving(d)'
  BY <1>1, <1>5, <1>7 DEF Exiting, Leaving, Unloading
<1>9. LoadedInv'
  BY <1>2, <1>3, <1>8 DEF LoadedInv
<1>10. PluginInv'
  BY <1>1, <1>2, <1>3, <1>7, <1>8, RunningStays DEF PluginInv
<1> QED BY <1>6, <1>7, <1>9, <1>10, NobodyUnloads DEF OInv

LEMMA UncacheStep ==
  ASSUME IInv, NEW t \in Threads, Uncache(t)
  PROVE  OInv'
<1> DEFINE c == pc[t].cls
<1>1. Running /\ pc[t].op = "uncache" /\ UNCHANGED engine
  BY Zenon DEF Uncache, At
<1>2. /\ table' = table /\ uses' = uses /\ obj' = obj
      /\ lib' = [lib EXCEPT ![c] = "absent"] /\ pc' = [pc EXCEPT ![t].op = "exit"]
  BY Zenon DEF Uncache
<1>3. /\ pc \in PcType /\ lib \in Libs /\ uses \in UsesType
      /\ WorkInv /\ LoadedInv /\ PluginInv /\ UnloadInv
  BY <1>1, RunningFacts
<1>4. lib[c] = "ready" /\ ~Used(c)
  BY <1>1, <1>3 DEF UnloadInv
<1>5. /\ pc' = [pc EXCEPT ![t] = pc'[t]]
      /\ pc'[t].cls = c /\ pc'[t].obj = pc[t].obj /\ pc'[t].op = "exit"
  BY <1>2, <1>3 DEF PcType, Point
<1>6. ~Loading(t)' /\ ~Works(t)' /\ Unloading(t)
  BY <1>1, <1>5 DEF Loading, Works, Unloading
<1>7. /\ c \in Plugins
      /\ \A u \in Threads : u # t => pc'[u] = pc[u]
      /\ \A u \in Threads : ~Loading(u) /\ ~Loading(u)'
      /\ \A u \in Threads : u # t => ~Unloading(u) /\ ~Unloading(u)'
      /\ ObjectInv'
  BY <1>1, <1>2, <1>5, <1>6, AloneUnloads
<1>8. \A d : /\ ~Exiting(d) /\ ~Leaving(d)
             /\ Exiting(d)' <=> d = c
             /\ Leaving(d)' <=> d = c
  BY <1>1, <1>5, <1>7 DEF Exiting, Leaving, Unloading
<1>9. lib'[c] = "absent" /\ \A d \in Plugins : d # c => lib'[d] = lib[d]
  BY <1>2, <1>3, <1>7 DEF Libs
<1>10. LoadedInv'
  BY <1>2, <1>3, <1>8, <1>9 DEF LoadedInv
<1>11. PluginInv'
  <2>1. \A u \in Threads \cup Plugins : ~(uses[u][c] > 0)
    BY <1>4 DEF Used
  <2>2. \A u \in Threads \cup Plugins, d \in Plugins : uses'[u][d] > 0 => lib'[d] = "ready"
    BY <1>2, <1>3, <1>9, <2>1 DEF PluginInv
  <2>3. \A d \in Plugins : lib'[d] = "ready" => table'[d] = "ready"
    BY <1>1, <1>2, <1>3, <1>9 DEF PluginInv
  <2>4. \A d \in Plugins : (lib'[d] # "absent" \/ Leaving(d)') /\ Parent[d] # None =>
          uses'[d][Parent[d]] > 0
    BY <1>2, <1>3, <1>4, <1>8, <1>9 DEF PluginInv
  <2> QED BY <1>7, <2>2, <2>3, <2>4 DEF PluginInv
<1>12. UnloadInv'
  <2>1. lib'[pc'[t].cls] = "absent" /\ pc'[t].obj = None
    BY <1>3, <1>5, <1>6, <1>9 DEF UnloadInv
  <2> QED BY <1>5, <1>7, <2>1 DEF UnloadInv, Unloading
<1> QED BY <1>7, <1>10, <1>11, <1>12 DEF OInv

LEMMA ClassFreeStep ==
  ASSUME IInv, NEW t \in Threads, ClassFree(t)
  PROVE  OInv'
<1> DEFINE c == pc[t].cls
<1>1. Running /\ pc[t].op = "exit" /\ UNCHANGED engine
  BY Zenon DEF ClassFree, At
<1>2. /\ lib' = lib /\ uses' = uses /\ obj' = obj
      /\ table' = [table EXCEPT ![c] = "absent"] /\ pc' = [pc EXCEPT ![t].op = "release"]
  BY Zenon DEF ClassFree, plugins
<1>3. /\ pc \in PcType /\ table # None /\ table \in Tables
      /\ WorkInv /\ LoadedInv /\ PluginInv /\ UnloadInv
  BY <1>1, RunningFacts
<1>4. lib[c] = "absent"
  BY <1>1, <1>3 DEF UnloadInv
<1>5. /\ pc' = [pc EXCEPT ![t] = pc'[t]]
      /\ pc'[t].cls = c /\ pc'[t].obj = pc[t].obj /\ pc'[t].op = "release"
  BY <1>2, <1>3 DEF PcType, Point
<1>6. ~Loading(t)' /\ ~Works(t)' /\ Unloading(t)
  BY <1>1, <1>5 DEF Loading, Works, Unloading
<1>7. /\ c \in Plugins
      /\ \A u \in Threads : u # t => pc'[u] = pc[u]
      /\ \A u \in Threads : ~Loading(u) /\ ~Loading(u)'
      /\ \A u \in Threads : u # t => ~Unloading(u) /\ ~Unloading(u)'
      /\ ObjectInv'
  BY <1>1, <1>2, <1>5, <1>6, AloneUnloads
<1>8. \A d : /\ Exiting(d) => d = c
             /\ Leaving(d)' <=> Leaving(d)
  BY <1>1, <1>5, <1>7 DEF Exiting, Leaving, Unloading
<1>9. table'[c] = "absent" /\ \A d \in Plugins : d # c => table'[d] = table[d]
  BY <1>2, <1>3, <1>7 DEF Tables, Classes
<1>10. LoadedInv'
  BY <1>2, <1>3, <1>8, <1>9 DEF LoadedInv
<1>11. PluginInv'
  <2>1. \A d \in Plugins : lib'[d] = "ready" => table'[d] = "ready"
    BY <1>1, <1>2, <1>3, <1>4, <1>9 DEF PluginInv
  <2> QED BY <1>2, <1>3, <1>7, <1>8, <2>1 DEF PluginInv
<1>12. UnloadInv'
  <2>1. lib'[pc'[t].cls] = "absent" /\ pc'[t].obj = None
    BY <1>2, <1>3, <1>4, <1>5, <1>6 DEF UnloadInv
  <2> QED BY <1>5, <1>7, <2>1 DEF UnloadInv, Unloading
<1> QED BY <1>7, <1>10, <1>11, <1>12 DEF OInv

LEMMA ReleaseStep ==
  ASSUME IInv, NEW t \in Threads, Release(t)
  PROVE  OInv'
<1> DEFINE c == pc[t].cls
<1>1. Running /\ pc[t].op = "release" /\ UNCHANGED engine
  BY Zenon DEF Release, At
<1>2. table' = table /\ lib' = lib /\ obj' = obj
  BY Zenon DEF Release
<1>3. /\ pc \in PcType /\ uses \in UsesType
      /\ WorkInv /\ LoadedInv /\ PluginInv /\ UnloadInv
  BY <1>1, RunningFacts
<1>4. lib[c] = "absent" /\ Unloading(t) /\ c \in Plugins
  BY <1>1, <1>3 DEF UnloadInv, Unloading, WorkInv
<1>5. /\ pc' = [pc EXCEPT ![t] = pc'[t]] /\ pc'[t].obj = None
      /\ \/ /\ pc'[t].op = "idle" /\ uses' = uses
         \/ /\ pc'[t].op = "check" /\ pc'[t].cls = Parent[c]
            /\ Parent[c] \in Plugins /\ uses[c][Parent[c]] > 0
            /\ uses' = [uses EXCEPT ![c][Parent[c]] = @ - 1]
  <2>1. CASE Parent[c] # None /\ uses[c][Parent[c]] > 0
    <3>1. /\ uses' = [uses EXCEPT ![c][Parent[c]] = @ - 1]
          /\ pc' = [pc EXCEPT ![t] = [Idle EXCEPT !.op = "check", !.cls = Parent[c]]]
      BY <2>1, Zenon DEF Release
    <3>2. Parent[c] \in Plugins
      BY <1>4, <2>1, ClassAssumption
    <3>3. /\ pc'[t] = [op |-> "check", cls |-> Parent[c], obj |-> None, left |-> 0]
          /\ pc' = [pc EXCEPT ![t] = pc'[t]]
      BY <1>3, <3>1 DEF PcType, Idle
    <3>4. pc'[t].op = "check" /\ pc'[t].cls = Parent[c] /\ pc'[t].obj = None
      BY <3>3
    <3> QED BY <2>1, <3>1, <3>2, <3>3, <3>4, Zenon
  <2>2. CASE ~(Parent[c] # None /\ uses[c][Parent[c]] > 0)
    <3>1. uses' = uses /\ pc' = [pc EXCEPT ![t] = Idle]
      BY <2>2, Zenon DEF Release
    <3> QED BY <1>3, <3>1 DEF PcType, Idle
  <2> QED BY <2>1, <2>2
<1>6. ~Loading(t)' /\ ~Works(t)'
  BY <1>5 DEF Loading, Works
<1>7. /\ \A u \in Threads \cup Plugins, d \in Plugins : uses[u][d] \in Nat
      /\ \A u \in Threads \cup Plugins, d \in Plugins :
           /\ uses'[u][d] > 0 => uses[u][d] > 0
           /\ u # c => uses'[u][d] = uses[u][d]
  BY <1>3, <1>4, <1>5 DEF UsesType
<1>8. c \notin Threads
  BY <1>4, UserAssumption
<1>9. \A u \in Threads, d \in Plugins : uses'[u][d] = uses[u][d]
  BY <1>7, <1>8
<1>10. /\ \A u \in Threads : u # t => pc'[u] = pc[u]
       /\ \A u \in Threads : ~Loading(u) /\ ~Loading(u)'
       /\ \A u \in Threads : u # t => ~Unloading(u) /\ ~Unloading(u)'
       /\ ObjectInv'
  BY <1>1, <1>2, <1>4, <1>5, <1>6, <1>9, AloneUnloads
<1>11. \A d : ~Exiting(d) /\ ~Exiting(d)' /\ ~Leaving(d)'
  BY <1>1, <1>5, <1>10 DEF Exiting, Leaving, Unloading
<1>12. LoadedInv'
  BY <1>2, <1>3, <1>11 DEF LoadedInv
<1>13. PluginInv'
  <2>1. \A u \in Threads \cup Plugins, d \in Plugins : uses'[u][d] > 0 => lib'[d] = "ready"
    BY <1>2, <1>3, <1>7 DEF PluginInv
  <2>2. \A d \in Plugins : lib'[d] = "ready" => table'[d] = "ready"
    BY <1>1, <1>2, <1>3 DEF PluginInv
  <2>3. \A d \in Plugins : (lib'[d] # "absent" \/ Leaving(d)') /\ Parent[d] # None =>
          uses'[d][Parent[d]] > 0
    <3> SUFFICES ASSUME NEW d \in Plugins, lib'[d] # "absent", Parent[d] # None
                 PROVE  uses'[d][Parent[d]] > 0
      BY <1>11
    <3>1. Parent[d] \in Plugins /\ d # c
      BY <1>2, <1>4, ClassAssumption
    <3>2. uses[d][Parent[d]] > 0
      BY <1>2, <1>3 DEF PluginInv
    <3> QED BY <1>7, <3>1, <3>2
  <2> QED BY <1>10, <2>1, <2>2, <2>3 DEF PluginInv
<1>14. UnloadInv'
  <2>1. pc'[t].op = "check" => lib'[pc'[t].cls] = "ready"
    BY <1>2, <1>3, <1>4, <1>5 DEF PluginInv
  <2> QED BY <1>5, <1>10, <2>1 DEF UnloadInv, Unloading
<1> QED BY <1>10, <1>12, <1>13, <1>14 DEF OInv

-----------------------------------------------------------------------------
(* Objects.  Only one thread moves, and it is not loading a plug-in.            *)

LEMMA ObjectStep ==
  ASSUME IInv, Running, UNCHANGED <<engine, table, plugins>>, NEW t \in Threads,
         ObjectInv', ~Loading(t), ~Loading(t)', ~Unloading(t), ~Unloading(t)',
         \A u \in Threads : u # t => pc'[u] = pc[u]
  PROVE  OInv'
<1>1. UNCHANGED engine /\ table' = table /\ lib' = lib /\ uses' = uses
  BY Zenon DEF plugins
<1>2. Running'
  BY <1>1, RunningStays
<1>3. table # None /\ LoadedInv /\ PluginInv /\ UnloadInv
  BY RunningFacts
<1>4. \A u \in Threads : /\ Loading(u)' <=> Loading(u)
                         /\ Unloading(u)' <=> Unloading(u)
  BY DEF Loading, Unloading
<1>5. \A c : (Exiting(c)' <=> Exiting(c)) /\ (Leaving(c)' <=> Leaving(c))
  BY DEF Exiting, Leaving, Unloading
<1>6. LoadedInv'
  BY <1>1, <1>3, <1>5 DEF LoadedInv
<1>7. PluginInv'
  BY <1>1, <1>2, <1>3, <1>4, <1>5 DEF PluginInv
<1>8. UnloadInv'
  <2>1. \A c : Used(c)' <=> Used(c)
    BY <1>1 DEF Used
  <2>2. \A u \in Threads : Unloading(u)' => u # t /\ pc'[u] = pc[u] /\ Unloading(u)
    BY <1>4
  <2>3. \A u \in Threads : pc'[u].op \in {"check", "test", "uncache", "exit", "release"} =>
          pc'[u] = pc[u]
    BY <2>2 DEF Unloading
  <2> QED BY <1>1, <1>3, <1>4, <2>1, <2>2, <2>3 DEF UnloadInv, Used
<1> QED BY <1>6, <1>7, <1>8 DEF OInv

\* The information on a class that a thread may use is complete.
LEMMA ClassWhole ==
  ASSUME IInv, Running, NEW t \in Threads, NEW c \in Classes, Usable(t, c)
  PROVE  Known(c) /\ table[c] = "ready" /\ Hierarchy(c) = Depth[c] /\ Depth[c] \in Nat
<1>1. /\ table # None
      /\ \A d \in Core : table[d] = "ready"
      /\ PluginInv
  BY RunningFacts
<1>2. table[c] = "ready"
  BY <1>1 DEF PluginInv, Usable, Classes
<1> QED BY <1>1, <1>2, ClassAssumption DEF Known, Hierarchy

LEMMA NewStep ==
  ASSUME IInv, NEW t \in Threads, NEW c \in Classes, NEW o \in Objects, New(t, c, o)
  PROVE  OInv'
<1>1. /\ Running /\ pc[t].op = "idle" /\ Usable(t, c)
      /\ UNCHANGED <<engine, table, plugins>>
  BY Zenon DEF New, At
<1>2. /\ obj[o] = [cls |-> None, inits |-> 0, owner |-> None]
      /\ obj' = [obj EXCEPT ![o] = [cls |-> c, inits |-> 0, owner |-> t]]
      /\ pc' = [pc EXCEPT ![t] = [op |-> "run", cls |-> c, obj |-> o, left |-> Hierarchy(c)]]
  BY Zenon DEF New, Free
<1>3. Hierarchy(c) = Depth[c] /\ Depth[c] \in Nat
  BY <1>1, ClassWhole
<1>4. obj \in ObjType /\ pc \in PcType /\ WorkInv /\ ObjectInv
  BY <1>1, RunningFacts
<1>5. /\ obj' \in ObjType /\ pc' \in PcType
      /\ obj'[o] = [cls |-> c, inits |-> 0, owner |-> t]
      /\ \A p \in Objects : p # o => obj'[p] = obj[p]
      /\ pc'[t] = [op |-> "run", cls |-> c, obj |-> o, left |-> Depth[c]]
      /\ \A u \in Threads : u # t => pc'[u] = pc[u]
  BY <1>2, <1>3, <1>4 DEF ObjType, PcType, Point
<1>6. UNCHANGED uses
  BY <1>1, Zenon DEF plugins
<1>7. \A u \in Threads : u # t /\ Works(u) => pc[u].obj # o
  BY <1>2, <1>4, UserAssumption DEF ObjectInv, WorkInv
<1>8. \A u \in Threads : u # t => (Works(u)' <=> Works(u))
  BY <1>5 DEF Works
<1>9. ObjectInv'
  <2>1. \A u \in Threads : pc'[u].op = "idle" => pc'[u].obj = None
    BY <1>4, <1>5 DEF ObjectInv, WorkInv
  <2>2. \A u \in Threads : Works(u)' =>
          /\ obj'[pc'[u].obj].owner = u /\ obj'[pc'[u].obj].cls = pc'[u].cls
          /\ Usable(u, pc[u].cls)'
    BY <1>1, <1>4, <1>5, <1>6, <1>7, <1>8 DEF ObjectInv, WorkInv, Usable
  <2>3. \A u \in Threads : pc'[u].op = "run" =>
          obj'[pc'[u].obj].inits + pc'[u].left = Depth[pc'[u].cls]
    BY <1>3, <1>4, <1>5, <1>7 DEF ObjectInv, WorkInv, Works
  <2>4. \A u \in Threads, p \in Objects : obj'[p].owner = u /\ pc'[u].obj # p =>
          obj'[p].inits = Depth[obj'[p].cls]
    BY <1>1, <1>4, <1>5, UserAssumption DEF ObjectInv, WorkInv
  <2> QED BY <1>6, <2>1, <2>2, <2>3, <2>4 DEF ObjectInv, WorkInv, Usable
<1>10. ~Loading(t) /\ ~Loading(t)' /\ ~Unloading(t) /\ ~Unloading(t)'
  BY <1>1, <1>5 DEF Loading, Unloading
<1> QED BY <1>1, <1>5, <1>9, <1>10, ObjectStep

LEMMA DropStep ==
  ASSUME IInv, NEW t \in Threads, NEW o \in Objects, Drop(t, o)
  PROVE  OInv'
<1>1. /\ Running /\ pc[t].op = "idle" /\ obj[o].owner = t /\ Usable(t, obj[o].cls)
      /\ UNCHANGED <<engine, table, plugins>>
  BY Zenon DEF Drop, At
<1>2. /\ pc' = [pc EXCEPT ![t] = [Idle EXCEPT !.op = "delete", !.cls = obj[o].cls, !.obj = o]]
      /\ obj' = obj
  BY Zenon DEF Drop
<1>3. obj \in ObjType /\ pc \in PcType /\ WorkInv /\ ObjectInv
  BY <1>1, RunningFacts
<1>4. obj[o].cls \in Classes
  BY <1>1, <1>3, UserAssumption DEF WorkInv
<1>5. /\ pc' \in PcType
      /\ pc'[t].op = "delete" /\ pc'[t].cls = obj[o].cls /\ pc'[t].obj = o
      /\ \A u \in Threads : u # t => pc'[u] = pc[u]
  BY <1>2, <1>3, <1>4 DEF PcType, Point, Idle
<1>6. UNCHANGED uses
  BY <1>1, Zenon DEF plugins
<1>7. ObjectInv'
  <2>1. pc[t].obj = None /\ ~(None \in Objects)
    BY <1>1, <1>3, UserAssumption DEF ObjectInv, WorkInv
  <2>2. Works(t)' /\ \A u \in Threads : u # t => (Works(u)' <=> Works(u))
    BY <1>5 DEF Works
  <2>3. \A u \in Threads : pc'[u].op \in {"idle", "run"} => u # t
    BY <1>5
  <2>4. \A u \in Threads : Works(u)' =>
          /\ obj'[pc'[u].obj].owner = u /\ obj'[pc'[u].obj].cls = pc'[u].cls
          /\ Usable(u, pc[u].cls)'
    BY <1>1, <1>2, <1>3, <1>4, <1>5, <1>6, <2>2 DEF ObjectInv, WorkInv, Usable
  <2>5. \A u \in Threads, p \in Objects : obj'[p].owner = u /\ pc'[u].obj # p =>
          obj'[p].inits = Depth[obj'[p].cls]
    BY <1>1, <1>2, <1>3, <1>5, <2>1 DEF ObjectInv, WorkInv
  <2> QED BY <1>2, <1>3, <1>5, <1>6, <2>3, <2>4, <2>5 DEF ObjectInv, WorkInv, Usable
<1>8. ~Loading(t) /\ ~Loading(t)' /\ ~Unloading(t) /\ ~Unloading(t)'
  BY <1>1, <1>5 DEF Loading, Unloading
<1> QED BY <1>1, <1>2, <1>3, <1>5, <1>7, <1>8, ObjectStep

LEMMA RunInitStep ==
  ASSUME IInv, NEW t \in Threads, RunInit(t)
  PROVE  OInv'
<1>1. /\ Running /\ pc[t].op = "run" /\ pc[t].left > 0
      /\ UNCHANGED <<engine, table, plugins>>
  BY Zenon DEF RunInit, At
<1>2. obj \in ObjType /\ pc \in PcType /\ WorkInv /\ ObjectInv /\ UNCHANGED uses
  BY <1>1, RunningFacts, Zenon DEF plugins
<1>3. /\ pc[t].obj \in Objects /\ pc[t].cls \in Classes
      /\ obj[pc[t].obj].owner = t /\ obj[pc[t].obj].cls = pc[t].cls
      /\ obj[pc[t].obj].inits + pc[t].left = Depth[pc[t].cls]
      /\ obj[pc[t].obj].inits \in Nat /\ pc[t].left \in Nat
  BY <1>1, <1>2 DEF ObjectInv, WorkInv, Works, ObjType, PcType, Point
<1>4. \A u \in Threads : u # t /\ Works(u) => pc[u].obj # pc[t].obj
  BY <1>2, <1>3 DEF ObjectInv, WorkInv
<1>5. CASE /\ obj' = [obj EXCEPT ![pc[t].obj].inits = @ + 1]
           /\ pc' = [pc EXCEPT ![t].left = @ - 1]
  <2> DEFINE o == pc[t].obj
  <2>0. o \in Objects
    BY <1>3
  <2>1. /\ obj' \in ObjType /\ pc' \in PcType
        /\ obj'[o].inits = obj[o].inits + 1 /\ obj'[o].cls = obj[o].cls
        /\ obj'[o].owner = obj[o].owner
        /\ \A p \in Objects : p # o => obj'[p] = obj[p]
        /\ pc'[t].op = "run" /\ pc'[t].cls = pc[t].cls /\ pc'[t].obj = o
        /\ pc'[t].left = pc[t].left - 1
        /\ \A u \in Threads : u # t => pc'[u] = pc[u]
    BY <1>1, <1>2, <1>3, <1>5 DEF ObjType, PcType, Point
  <2> HIDE DEF o
  <2>2. \A p \in Objects : obj'[p].owner = obj[p].owner /\ obj'[p].cls = obj[p].cls
    BY <2>1
  <2>3. \A u \in Threads : /\ Works(u)' <=> Works(u)
                           /\ pc'[u].op = pc[u].op
                           /\ pc'[u].obj = pc[u].obj /\ pc'[u].cls = pc[u].cls
    BY <1>1, <2>1 DEF Works, o
  <2>4. ObjectInv'
    <3>1. \A u \in Threads : Works(u)' =>
            /\ obj'[pc'[u].obj].owner = u /\ obj'[pc'[u].obj].cls = pc'[u].cls
            /\ Usable(u, pc[u].cls)'
      BY <1>2, <2>2, <2>3 DEF ObjectInv, WorkInv, Usable
    <3>2. \A u \in Threads : pc'[u].op = "run" =>
            obj'[pc'[u].obj].inits + pc'[u].left = Depth[pc'[u].cls]
      BY <1>2, <1>3, <1>4, <2>1, <2>3 DEF ObjectInv, WorkInv, Works, o
    <3>3. \A u \in Threads, p \in Objects : obj'[p].owner = u /\ pc'[u].obj # p =>
          obj'[p].inits = Depth[obj'[p].cls]
      BY <1>2, <1>3, <2>1, <2>2, <2>3 DEF ObjectInv, o
    <3>4. \A u \in Threads : pc'[u].op = "idle" => pc'[u].obj = None
      BY <1>2, <2>3 DEF ObjectInv, WorkInv
    <3> QED BY <3>1, <3>2, <3>3, <3>4 DEF ObjectInv, WorkInv
  <2>5. ~Loading(t) /\ ~Loading(t)' /\ ~Unloading(t) /\ ~Unloading(t)'
    BY <1>1, <2>1 DEF Loading, Unloading
  <2> QED BY <1>1, <2>1, <2>4, <2>5, ObjectStep
<1>6. CASE pc' = [pc EXCEPT ![t].op = "delete"] /\ UNCHANGED obj
  <2>1. /\ pc' \in PcType
        /\ pc'[t].op = "delete" /\ pc'[t].cls = pc[t].cls /\ pc'[t].obj = pc[t].obj
        /\ \A u \in Threads : u # t => pc'[u] = pc[u]
    BY <1>1, <1>2, <1>6 DEF PcType, Point
  <2>2. \A u \in Threads : /\ Works(u)' <=> Works(u)
                           /\ pc'[u].op \in {"idle", "run"} => pc'[u] = pc[u]
                           /\ pc'[u].obj = pc[u].obj /\ pc'[u].cls = pc[u].cls
    BY <1>1, <2>1 DEF Works
  <2>3. ObjectInv'
    BY <1>2, <1>6, <2>2 DEF ObjectInv, WorkInv, Usable
  <2>4. ~Loading(t) /\ ~Loading(t)' /\ ~Unloading(t) /\ ~Unloading(t)'
    BY <1>1, <2>1 DEF Loading, Unloading
  <2> QED BY <1>1, <1>2, <1>6, <2>1, <2>3, <2>4, ObjectStep
<1> QED BY <1>5, <1>6, Zenon DEF RunInit

LEMMA NewReturnsStep ==
  ASSUME IInv, NEW t \in Threads, NewReturns(t)
  PROVE  OInv'
<1>1. /\ Running /\ pc[t].op = "run" /\ pc[t].left = 0
      /\ UNCHANGED <<engine, table, plugins>>
      /\ pc' = [pc EXCEPT ![t] = Idle] /\ obj' = obj
  BY Zenon DEF NewReturns, At
<1>2. obj \in ObjType /\ pc \in PcType /\ WorkInv /\ ObjectInv /\ UNCHANGED uses
  BY <1>1, RunningFacts, Zenon DEF plugins
<1>3. /\ obj[pc[t].obj].inits \in Nat /\ obj[pc[t].obj].cls = pc[t].cls
      /\ obj[pc[t].obj].inits = Depth[pc[t].cls]
  BY <1>1, <1>2 DEF ObjectInv, WorkInv, Works, ObjType
<1>4. /\ pc' \in PcType /\ pc'[t].op = "idle" /\ pc'[t].obj = None
      /\ \A u \in Threads : u # t => pc'[u] = pc[u]
  BY <1>1, <1>2 DEF PcType, Point, Idle
<1>5. ~Works(t)' /\ \A u \in Threads : u # t => (Works(u)' <=> Works(u))
  BY <1>4 DEF Works
<1>6. ObjectInv'
  <2>1. \A u \in Threads, p \in Objects : obj'[p].owner = u /\ pc'[u].obj # p =>
          obj'[p].inits = Depth[obj'[p].cls]
    BY <1>1, <1>2, <1>3, <1>4 DEF ObjectInv, WorkInv
  <2> QED BY <1>1, <1>2, <1>4, <1>5, <2>1 DEF ObjectInv, WorkInv, Usable
<1>7. ~Loading(t) /\ ~Loading(t)' /\ ~Unloading(t) /\ ~Unloading(t)'
  BY <1>1, <1>4 DEF Loading, Unloading
<1> QED BY <1>1, <1>2, <1>4, <1>6, <1>7, ObjectStep

LEMMA DeleteStep ==
  ASSUME IInv, NEW t \in Threads, Delete(t)
  PROVE  OInv'
<1> DEFINE c == pc[t].cls
<1>1. /\ Running /\ pc[t].op = "delete"
      /\ UNCHANGED <<engine, table, plugins>>
  BY Zenon DEF Delete, At
<1>2. obj \in ObjType /\ pc \in PcType /\ WorkInv /\ ObjectInv /\ UNCHANGED uses
  BY <1>1, RunningFacts, Zenon DEF plugins
<1>3. c \in Classes /\ Usable(t, c)
  BY <1>1, <1>2 DEF ObjectInv, WorkInv, Works
<1>4. Known(c) /\ Hierarchy(c) \in Nat
  BY <1>1, <1>3, ClassWhole
<1>5. /\ pc' = [pc EXCEPT ![t].op = "destroy", ![t].left = Hierarchy(c)]
      /\ obj' = obj
  BY <1>4, Zenon DEF Delete
<1>51. obj' = obj
  BY <1>5
<1>6. /\ pc' \in PcType
      /\ pc'[t].op = "destroy" /\ pc'[t].cls = pc[t].cls /\ pc'[t].obj = pc[t].obj
      /\ \A u \in Threads : u # t => pc'[u] = pc[u]
  BY <1>2, <1>4, <1>5 DEF PcType, Point
<1>7. \A u \in Threads : /\ Works(u)' <=> Works(u)
                         /\ pc'[u].op \in {"idle", "run"} => pc'[u] = pc[u]
                         /\ pc'[u].obj = pc[u].obj /\ pc'[u].cls = pc[u].cls
  BY <1>1, <1>6 DEF Works
<1>8. ObjectInv'
  <2>1. \A u \in Threads : Works(u)' =>
          /\ obj'[pc'[u].obj].owner = u /\ obj'[pc'[u].obj].cls = pc'[u].cls
          /\ Usable(u, pc[u].cls)'
    BY <1>2, <1>51, <1>7 DEF ObjectInv, WorkInv, Usable
  <2>2. \A u \in Threads, p \in Objects : obj'[p].owner = u /\ pc'[u].obj # p =>
          obj'[p].inits = Depth[obj'[p].cls]
    BY <1>2, <1>51, <1>7 DEF ObjectInv, WorkInv
  <2>3. \A u \in Threads : pc'[u].op \in {"idle", "run"} => pc'[u] = pc[u]
    BY <1>7
  <2> QED BY <1>2, <1>51, <2>1, <2>2, <2>3 DEF ObjectInv, WorkInv
<1>9. ~Loading(t) /\ ~Loading(t)' /\ ~Unloading(t) /\ ~Unloading(t)'
  BY <1>1, <1>6 DEF Loading, Unloading
<1> QED BY <1>1, <1>2, <1>5, <1>6, <1>8, <1>9, ObjectStep

LEMMA RunDestroyStep ==
  ASSUME IInv, NEW t \in Threads, RunDestroy(t)
  PROVE  OInv'
<1>1. /\ Running /\ pc[t].op = "destroy" /\ pc[t].left > 0
      /\ UNCHANGED <<engine, table, plugins>>
      /\ pc' = [pc EXCEPT ![t].left = @ - 1] /\ obj' = obj
  BY Zenon DEF RunDestroy, At
<1>2. obj \in ObjType /\ pc \in PcType /\ WorkInv /\ ObjectInv /\ UNCHANGED uses
  BY <1>1, RunningFacts, Zenon DEF plugins
<1>3. /\ pc' \in PcType
      /\ pc'[t].op = "destroy" /\ pc'[t].cls = pc[t].cls /\ pc'[t].obj = pc[t].obj
      /\ \A u \in Threads : u # t => pc'[u] = pc[u]
  BY <1>1, <1>2 DEF PcType, Point
<1>4. \A u \in Threads : /\ Works(u)' <=> Works(u)
                         /\ pc'[u].op \in {"idle", "run"} => pc'[u] = pc[u]
                         /\ pc'[u].obj = pc[u].obj /\ pc'[u].cls = pc[u].cls
  BY <1>1, <1>3 DEF Works
<1>5. ObjectInv'
  BY <1>1, <1>2, <1>4 DEF ObjectInv, WorkInv, Usable
<1>6. ~Loading(t) /\ ~Loading(t)' /\ ~Unloading(t) /\ ~Unloading(t)'
  BY <1>1, <1>3 DEF Loading, Unloading
<1> QED BY <1>1, <1>2, <1>3, <1>5, <1>6, ObjectStep

LEMMA DeleteReturnsStep ==
  ASSUME IInv, NEW t \in Threads, DeleteReturns(t)
  PROVE  OInv'
<1>1. /\ Running /\ pc[t].op = "destroy"
      /\ UNCHANGED <<engine, table, plugins>>
      /\ pc' = [pc EXCEPT ![t] = Idle]
      /\ obj' = [obj EXCEPT ![pc[t].obj] = [cls |-> None, inits |-> 0, owner |-> None]]
  BY Zenon DEF DeleteReturns, At, Free
<1>2. obj \in ObjType /\ pc \in PcType /\ WorkInv /\ ObjectInv /\ UNCHANGED uses
  BY <1>1, RunningFacts, Zenon DEF plugins
<1> DEFINE o == pc[t].obj
<1>3. o \in Objects /\ obj[o].owner = t
  BY <1>1, <1>2 DEF ObjectInv, WorkInv, Works
<1>4. /\ obj' \in ObjType /\ pc' \in PcType /\ obj'[o].owner = None
      /\ \A p \in Objects : p # o => obj'[p] = obj[p]
      /\ pc'[t].op = "idle" /\ pc'[t].obj = None
      /\ \A u \in Threads : u # t => pc'[u] = pc[u]
  BY <1>1, <1>2, <1>3 DEF ObjType, PcType, Point, Idle
<1>5. ~Works(t)' /\ \A u \in Threads : u # t => (Works(u)' <=> Works(u))
  BY <1>4 DEF Works
<1>6. \A u \in Threads : u # t /\ Works(u) => pc[u].obj # o
  BY <1>2, <1>3 DEF ObjectInv, WorkInv
<1>7. ObjectInv'
  <2>1. \A u \in Threads, p \in Objects : obj'[p].owner = u /\ pc'[u].obj # p =>
          obj'[p].inits = Depth[obj'[p].cls]
    BY <1>2, <1>3, <1>4, UserAssumption DEF ObjectInv, WorkInv
  <2>2. \A u \in Threads : pc'[u].op = "idle" => pc'[u].obj = None
    BY <1>2, <1>4 DEF ObjectInv, WorkInv
  <2>3. \A u \in Threads : Works(u)' =>
          /\ obj'[pc'[u].obj].owner = u /\ obj'[pc'[u].obj].cls = pc'[u].cls
          /\ Usable(u, pc[u].cls)'
    BY <1>2, <1>4, <1>5, <1>6 DEF ObjectInv, WorkInv, Usable
  <2>4. \A u \in Threads : pc'[u].op = "run" =>
          obj'[pc'[u].obj].inits + pc'[u].left = Depth[pc'[u].cls]
    BY <1>2, <1>4, <1>5, <1>6 DEF ObjectInv, WorkInv, Works
  <2> QED BY <2>1, <2>2, <2>3, <2>4 DEF ObjectInv, WorkInv
<1>8. ~Loading(t) /\ ~Loading(t)' /\ ~Unloading(t) /\ ~Unloading(t)'
  BY <1>1, <1>4 DEF Loading, Unloading
<1> QED BY <1>1, <1>4, <1>7, <1>8, ObjectStep


-----------------------------------------------------------------------------
(* The invariants. *)

LEMMA Beginning ==
  ASSUME Init
  PROVE  WInv /\ OInv
<1>1. TypeOK
  <2>1. {errdbg, path, failed} \subseteq BOOLEAN
    BY Zenon DEF Init
  <2>2. /\ count = 0 /\ stage = "idle" /\ time = 0 /\ env = 0 /\ starts = 0 /\ table = None
        /\ maps = [m \in Managers |-> 0] /\ manager = {}
        /\ lib = [c \in Plugins |-> "absent"]
        /\ uses = [u \in Threads \cup Plugins |-> [c \in Plugins |-> 0]]
        /\ obj = [o \in Objects |-> Free]
        /\ pc = [t \in Threads |-> Idle]
    BY Zenon DEF Init
  <2>3. lib \in [Plugins -> {"absent", "loading", "ready"}]
    BY <2>2
  <2>4. uses \in [Threads \cup Plugins -> [Plugins -> Nat]]
    BY <2>2
  <2>5. obj \in ObjType
    BY <2>2 DEF Free, ObjType
  <2>6. pc \in PcType
    BY <2>2 DEF Idle, PcType, Point
  <2>7. /\ count \in 0 .. MaxCount /\ stage \in {"idle"} \cup Starting \cup Stopping
        /\ {time, env, starts} \subseteq Nat
        /\ maps \in [Managers -> Nat] /\ manager \subseteq Managers
    BY <2>2, BoundAssumption
  <2> QED BY <2>1, <2>2, <2>3, <2>4, <2>5, <2>6, <2>7 DEF TypeOK, ObjType, PcType, Point
<1>2. /\ ~errdbg /\ ~path /\ ~failed
      /\ count = 0 /\ stage = "idle" /\ time = 0 /\ table = None /\ manager = {}
  BY Zenon DEF Init
<1>3. /\ \A c \in Plugins : lib[c] = "absent"
      /\ \A u \in Threads \cup Plugins, c \in Plugins : uses[u][c] = 0
      /\ \A o \in Objects : obj[o].owner = None
      /\ \A t \in Threads : pc[t].op = "idle" /\ pc[t].obj = None
  BY DEF Init, Free, Idle
<1>4. StageInv
  BY <1>2 DEF StageInv, TimeDue, Off, Running, Starting, Stopping
<1>5. TableInv
  BY <1>2 DEF TableInv, Off, Running
<1>6. ManagerInv
  BY <1>2 DEF ManagerInv, Running
<1>7. /\ \A t \in Threads : ~Loading(t) /\ ~Unloading(t) /\ ~Works(t)
      /\ \A c : ~Leaving(c)
  BY <1>3 DEF Loading, Unloading, Works, Leaving
<1>8. WorkInv
  BY <1>3, <1>7 DEF WorkInv
<1>9. LoadedInv
  BY <1>2 DEF LoadedInv
<1>10. PluginInv
  BY <1>2, <1>3, <1>7 DEF PluginInv, Running
<1>11. UnloadInv
  BY <1>3, <1>7 DEF UnloadInv
<1>12. ObjectInv
  BY <1>3, <1>7, UserAssumption DEF ObjectInv
<1> QED BY <1>1, <1>4, <1>5, <1>6, <1>8, <1>9, <1>10, <1>11, <1>12 DEF WInv, OInv

LEMMA Same ==
  ASSUME UNCHANGED vars
  PROVE  (WInv => WInv') /\ (OInv => OInv')
<1>1. UNCHANGED <<count, stage, errdbg, time, env, maps, manager, path, starts, failed,
                  table, lib, uses, obj, pc>>
  BY Zenon DEF vars, engine, plugins
<1>2. TypeOK => TypeOK'
  BY <1>1, Zenon DEF TypeOK
<1>3. StageInv => StageInv'
  BY <1>1, Zenon DEF StageInv, TimeDue, Off, Running
<1>4. TableInv /\ ManagerInv => TableInv' /\ ManagerInv'
  BY <1>1, Zenon DEF TableInv, ManagerInv, Off, Running
<1>5. /\ Running' <=> Running
      /\ table' = table /\ lib' = lib /\ uses' = uses /\ obj' = obj /\ pc' = pc
  BY <1>1, Zenon DEF Running
<1>6. WorkInv => WorkInv'
  BY <1>5 DEF WorkInv, Loading, Unloading, Works
<1>7. LoadedInv /\ UnloadInv => LoadedInv' /\ UnloadInv'
  BY <1>5 DEF LoadedInv, UnloadInv, Exiting, Loading, Unloading, Used
<1>8. PluginInv => PluginInv'
  BY <1>5 DEF PluginInv, Loading, Leaving
<1>9. ObjectInv => ObjectInv'
  BY <1>5 DEF ObjectInv, Works, Usable
<1> QED BY <1>2, <1>3, <1>4, <1>6, <1>7, <1>8, <1>9 DEF WInv, OInv

LEMMA WStep == WInv /\ [Next]_vars => WInv'
<1> SUFFICES ASSUME WInv, [Next]_vars PROVE WInv'
  OBVIOUS
<1>1. ASSUME NEW t \in Threads, NEW c \in Plugins,
             LoadReady(t, c) \/ LoadNew(t, c) \/ Unload(t, c)
      PROVE  WInv'
  BY <1>1, LoadReadyType, LoadNewType, UnloadType
<1>2. ASSUME NEW t \in Threads, ClassAdd(t) \/ ClassInit(t)
      PROVE  WInv'
  BY <1>2, ClassAddType, ClassInitType
<1>3. ASSUME NEW t \in Threads,
             UnloadCheck(t) \/ UnloadTest(t) \/ Uncache(t) \/ ClassFree(t) \/ Release(t)
      PROVE  WInv'
  BY <1>3, UnloadLooksType, UncacheType, ClassFreeType, ReleaseType
<1>4. ASSUME NEW t \in Threads, NEW o \in Objects,
             Drop(t, o) \/ \E c \in Classes : New(t, c, o)
      PROVE  WInv'
  BY <1>4, DropType, NewType
<1>5. ASSUME NEW t \in Threads,
             RunInit(t) \/ NewReturns(t) \/ Delete(t) \/ RunDestroy(t) \/ DeleteReturns(t)
      PROVE  WInv'
  BY <1>5, WorkType
<1> QED BY MainStep, Same, <1>1, <1>2, <1>3, <1>4, <1>5, Zenon DEF Next

LEMMA OStep == Orderly /\ IInv /\ [Next]_vars => OInv'
<1> SUFFICES ASSUME Orderly, IInv, [Next]_vars PROVE OInv'
  OBVIOUS
<1>1. WInv' /\ OInv
  BY WStep DEF IInv
<1>2. ASSUME NEW t \in Threads, NEW c \in Plugins,
             LoadReady(t, c) \/ LoadNew(t, c) \/ Unload(t, c)
      PROVE  OInv'
  BY <1>2, LoadReadyStep, LoadNewStep, UnloadStep
<1>3. ASSUME NEW t \in Threads, ClassAdd(t) \/ ClassInit(t)
      PROVE  OInv'
  BY <1>3, ClassAddStep, ClassInitStep
<1>4. ASSUME NEW t \in Threads,
             UnloadCheck(t) \/ UnloadTest(t) \/ Uncache(t) \/ ClassFree(t) \/ Release(t)
      PROVE  OInv'
  BY <1>4, UnloadCheckStep, UnloadTestStep, UncacheStep, ClassFreeStep, ReleaseStep
<1>5. ASSUME NEW t \in Threads, NEW o \in Objects,
             Drop(t, o) \/ \E c \in Classes : New(t, c, o)
      PROVE  OInv'
  BY <1>5, DropStep, NewStep
<1>6. ASSUME NEW t \in Threads,
             RunInit(t) \/ NewReturns(t) \/ Delete(t) \/ RunDestroy(t) \/ DeleteReturns(t)
      PROVE  OInv'
  BY <1>6, RunInitStep, NewReturnsStep, DeleteStep, RunDestroyStep, DeleteReturnsStep
<1> QED BY MainRest, Same, <1>1, <1>2, <1>3, <1>4, <1>5, <1>6, Zenon DEF Next

\* What the starts and stops of the engine keep holds of every reachable state,
\* whatever the threads load, unload, make and delete meanwhile.
THEOREM Invariance == Spec => []WInv
<1>1. Init => WInv
  BY Beginning
<1> QED BY <1>1, WStep, PTL DEF Spec

\* In an orderly application the inductive invariant holds of every reachable
\* state.
THEOREM OrderlyInvariance ==
  ASSUME Orderly
  PROVE  Spec => []IInv
<1>1. Init => IInv
  BY Beginning DEF IInv
<1>2. IInv /\ [Next]_vars => IInv'
  BY WStep, OStep DEF IInv
<1> QED BY <1>1, <1>2, PTL DEF Spec

\* Every variable stays in its type: the counts of the modules that are started
\* several times never go below zero, and no plug-in is given back too often.
THEOREM TypeCorrect == Spec => []TypeOK
<1>1. WInv => TypeOK
  BY DEF WInv
<1> QED BY <1>1, Invariance, PTL

\* Once speect_init has succeeded everything is there, whichever stages of
\* whichever earlier starts failed.
THEOREM StartedCorrect == Spec => []Started
<1>1. WInv => Started
  <2> SUFFICES ASSUME WInv, Running
               PROVE  /\ errdbg /\ time > 0 /\ env > 0 /\ path
                      /\ \A c \in Core : Known(c) /\ table[c] = "ready"
                      /\ \A m \in Managers : m \in manager /\ maps[m] = Depth[MapClass]
    BY DEF Started
  <2>1. count \in Nat /\ time \in Nat /\ StageInv /\ TableInv /\ ManagerInv
    BY BoundAssumption DEF WInv, TypeOK
  <2>2. errdbg /\ path /\ env > 0
    BY <2>1 DEF StageInv, Off, Running
  <2>3. time > 0
    BY <2>1 DEF StageInv, TimeDue, Off, Running
  <2>4. \A c \in Core : Known(c) /\ table[c] = "ready"
    BY <2>1 DEF TableInv, Known
  <2>5. \A m \in Managers : m \in manager /\ maps[m] = Depth[MapClass]
    BY <2>1 DEF ManagerInv
  <2> QED BY <2>2, <2>3, <2>4, <2>5
<1> QED BY <1>1, Invariance, PTL

\* A stop takes down what the starts set up, if no start failed.
THEOREM StoppedCorrect == Spec => []Stopped
<1>1. WInv => Stopped
  <2> SUFFICES ASSUME WInv, stage = "idle", count = 0, ~failed
               PROVE  ~errdbg /\ time = 0 /\ table = None /\ manager = {} /\ ~path
    BY DEF Stopped
  <2>1. StageInv /\ TableInv /\ ManagerInv
    BY DEF WInv
  <2>2. ~errdbg /\ ~path
    BY <2>1 DEF StageInv, Off, Running
  <2>3. time = 0
    BY <2>1 DEF StageInv, TimeDue, Off
  <2>4. table = None /\ manager = {}
    BY <2>1 DEF TableInv, ManagerInv, Off, Running
  <2> QED BY <2>2, <2>3, <2>4
<1> QED BY <1>1, Invariance, PTL

\* The class of an object that a thread is making or deleting is there, with its
\* hierarchy.
LEMMA WorkedClass ==
  ASSUME IInv, NEW t \in Threads, Works(t)
  PROVE  /\ Known(pc[t].cls) /\ table[pc[t].cls] = "ready"
         /\ Hierarchy(pc[t].cls) = Depth[pc[t].cls]
<1>1. Running
  BY DEF IInv, WInv, WorkInv, Works
<1>2. pc[t].cls \in Classes /\ Usable(t, pc[t].cls)
  BY DEF IInv, WInv, OInv, WorkInv, ObjectInv
<1> QED BY <1>1, <1>2, ClassWhole

\* If loads and other deletions keep away while a plug-in is deleted, what a thread
\* may read of a class while it makes or deletes an object is there, and a class is
\* known only while its library is loaded, or just being unloaded.
THEOREM InfoCorrect ==
  ASSUME Orderly
  PROVE  Spec => []InfoLives
<1>1. IInv => InfoLives
  <2> SUFFICES ASSUME IInv PROVE InfoLives
    OBVIOUS
  <2>1. \A t \in Threads :
          pc[t].op \in {"run", "destroy"} => Known(pc[t].cls) /\ table[pc[t].cls] = "ready"
    BY WorkedClass DEF Works
  <2>2. \A c \in Plugins : Known(c) => lib[c] # "absent" \/ Exiting(c)
    BY DEF IInv, OInv, LoadedInv, Known
  <2> QED BY <2>1, <2>2 DEF InfoLives, Exiting
<1> QED BY <1>1, OrderlyInvariance, PTL

\* Then, too, an object that is given out is initialised at every level of its
\* class, and one that is deleted is destroyed at every level.
THEOREM ObjectsCorrect ==
  ASSUME Orderly
  PROVE  Spec => []WholeObjects
<1>1. IInv => WholeObjects
  <2> SUFFICES ASSUME IInv PROVE WholeObjects
    OBVIOUS
  <2>1. \A t \in Threads, o \in Objects :
          obj[o].owner = t /\ pc[t].obj # o => obj[o].inits = Depth[obj[o].cls]
    BY DEF IInv, OInv, ObjectInv
  <2>2. \A t \in Threads :
          pc[t].op = "destroy" => Hierarchy(pc[t].cls) = Depth[pc[t].cls]
    BY WorkedClass DEF Works
  <2> QED BY <2>1, <2>2 DEF WholeObjects
<1> QED BY <1>1, OrderlyInvariance, PTL

=============================================================================
