--------------------------- MODULE PluginManager ---------------------------
(***************************************************************************)
(* The plug-in manager: engine/src/pluginmanager/manager.c with the        *)
(* classes it drives, library.c and plugin_object.c, and the S_DELETE      *)
(* protocol of base/objsystem/object_macros.h.                             *)
(*                                                                         *)
(* Threads load plug-ins by path and delete them again.  A library object  *)
(* is cached under its path before its code is loaded; its registration    *)
(* function may itself load further plug-ins, and its exit function        *)
(* deletes them.  A program point ("at") is a place where another thread   *)
(* may run: between taking and releasing pm_mutex, and between two         *)
(* accesses to the shared library object or to the cache.                  *)
(***************************************************************************)
EXTENDS Integers, Sequences, FiniteSets, FiniteSetsExt

CONSTANTS
  Threads,    \* the threads of the application
  Keeper,     \* the thread that initialises and quits the engine
  Paths,      \* full plug-in paths
  Requires,   \* Requires[p]: the plug-ins the register function of p loads
  Fault,      \* Fault[p]: where loading p fails, if it does
  Libs,       \* identities of SLibrary objects (a bound on live libraries)
  MaxCalls,   \* bound: s_pm_load_plugin calls a thread makes
  Discipline, \* how the application orders its calls, see MayLoad
  NoLib,
  NoThread

Faults == {"none", "resolve", "open", "register"}
Disciplines == {"none", "load_only", "serial", "kept"}

ASSUME ThreadsAssumption == Keeper \in Threads /\ NoThread \notin Threads
ASSUME LibsAssumption == Libs \subseteq Nat /\ NoLib \notin Libs
ASSUME PathsAssumption == Paths # {}
ASSUME RequiresAssumption == Requires \in [Paths -> Seq(Paths)]
ASSUME FaultAssumption == Fault \in [Paths -> Faults]
ASSUME FiniteAssumption == IsFiniteSet(Threads) /\ IsFiniteSet(Paths) /\ IsFiniteSet(Libs)
ASSUME UsersAssumption == Threads \cap Paths = {}
ASSUME BoundsAssumption == MaxCalls \in Nat /\ Discipline \in Disciplines

VARIABLES
  initialized, \* the manager is between _s_pm_init and _s_pm_quit
  owner,       \* the thread that holds pm_mutex
  cache,       \* libraryCache
  library,     \* the SLibrary objects but for their reference counts
  ref,         \* S_OBJECT_REF of the libraries
  statics,     \* the static SPlugin pointers of each plug-in's own code
  held,        \* held[t][l]: SPlugin objects on l the code of t owns
  stack,       \* the calls a thread is in, innermost last
  calls        \* loads a thread has asked for

vars == <<initialized, owner, cache, library, ref, statics, held, stack, calls>>

Library ==
  [state : {"unused", "live", "freed"}, path : Paths,
   ready : BOOLEAN, inManager : BOOLEAN, dso : BOOLEAN]

Points ==
  {"lock", "lookup", "share", "spin", "create", "load", "register",
   "unregister", "discard", "publish", "set_ready",
   "dispose", "check", "uncache", "zero", "test", "destroy", "at_exit", "free"}

Frame ==
  [at : Points, path : Paths, lib : Libs \cup {NoLib}, next : Nat, last : Nat]

Live(l) == library[l].state = "live"

(***************************************************************************)
(* The call stack of a thread.                                             *)
(***************************************************************************)
Idle(t) == stack[t] = <<>>
Top(t) == stack[t][Len(stack[t])]
Caller(t) == stack[t][Len(stack[t]) - 1]
At(t, point) == ~Idle(t) /\ Top(t).at = point

Become(t, frame) == stack' = [stack EXCEPT ![t][Len(stack[t])] = frame]
Goto(t, point) == Become(t, [Top(t) EXCEPT !.at = point])
GotoLoop(t, point, n) ==
  Become(t, [Top(t) EXCEPT !.at = point, !.next = 1, !.last = n])

NewCall(point, p, l) ==
  [at |-> point, path |-> p, lib |-> l, next |-> 0, last |-> 0]
Call(t, frame) == stack' = [stack EXCEPT ![t] = Append(@, frame)]
Pop(s) == SubSeq(s, 1, Len(s) - 1)

(***************************************************************************)
(* Return from the innermost call with the library of the plug-in it       *)
(* yields, NoLib for none.  The caller of a nested call is a plug-in's     *)
(* register or exit function, which assigns the result to the static       *)
(* pointer it is at; a register function whose load failed deletes the     *)
(* plug-ins it loaded so far.                                              *)
(***************************************************************************)
\* Variant: a register function that fails keeps the last plug-in it loaded.
ResumedForgetful(frame, l) ==
  IF frame.at = "register" /\ l = NoLib
    THEN [frame EXCEPT !.at = "unregister", !.next = 1, !.last = frame.next - 2]
    ELSE [frame EXCEPT !.next = @ + 1]

Resumed(frame, l) ==
  IF frame.at = "register" /\ l = NoLib
    THEN [frame EXCEPT !.at = "unregister", !.next = 1, !.last = frame.next - 1]
    ELSE [frame EXCEPT !.next = @ + 1]

Return(t, l) ==
  IF Len(stack[t]) = 1
    THEN /\ stack' = [stack EXCEPT ![t] = <<>>]
         /\ held' = IF l = NoLib THEN held ELSE [held EXCEPT ![t][l] = @ + 1]
         /\ UNCHANGED statics
    ELSE /\ stack' = [stack EXCEPT ![t] =
              [Pop(@) EXCEPT ![Len(stack[t]) - 1] = Resumed(Caller(t), l)]]
         /\ statics' = [statics EXCEPT ![Caller(t).path][Caller(t).next] = l]
         /\ UNCHANGED held

(***************************************************************************)
(* What the application does.  The manager does not order its callers;     *)
(* Discipline says how far the application orders itself:                  *)
(*   "none"       threads load and delete plug-ins as they please          *)
(*   "load_only"  as "none", but no plug-in is deleted                     *)
(*   "serial"     a thread calls only when no other thread is in a call    *)
(*   "kept"       a thread deletes only what the keeper holds as well, and  *)
(*                the keeper lets go for good only when the others are done *)
(***************************************************************************)
Holds(t, p) == \E l \in Libs : held[t][l] > 0 /\ library[l].path = p

\* t is in a S_DELETE of its own.
Deleting(t) ==
  /\ ~Idle(t)
  /\ stack[t][1].at \in {"dispose", "check", "uncache", "zero", "test",
                          "destroy", "at_exit", "free"}

MayLoad(t, p) ==
  /\ Discipline = "serial" => \A u \in Threads : Idle(u)
  /\ Discipline = "kept" => t = Keeper \/ ~Deleting(Keeper)

MayDelete(t, l) ==
  LET p == library[l].path
  IN /\ Discipline # "load_only"
     /\ Discipline = "serial" => \A u \in Threads : Idle(u)
     /\ Discipline = "kept" =>
          IF t = Keeper /\ held[t][l] = 1
            THEN \A u \in Threads \ {t} : Idle(u) /\ \A k \in Libs : held[u][k] = 0
            ELSE Holds(Keeper, p)

CallLoad(t, p) ==
  /\ initialized /\ Idle(t)
  /\ calls[t] < MaxCalls
  /\ MayLoad(t, p)
  /\ calls' = [calls EXCEPT ![t] = @ + 1]
  /\ Call(t, NewCall("lock", p, NoLib))
  /\ UNCHANGED <<initialized, owner, cache, library, ref, statics, held>>

\* S_DELETE of an SPlugin: DestroyPlugin does S_DELETE on its library.
CallDelete(t, l) ==
  /\ Idle(t)
  /\ held[t][l] > 0
  /\ MayDelete(t, l)
  /\ held' = [held EXCEPT ![t][l] = @ - 1]
  /\ Call(t, NewCall("dispose", library[l].path, l))
  /\ UNCHANGED <<initialized, owner, cache, library, ref, statics, calls>>

(***************************************************************************)
(* s_pm_load_plugin.                                                       *)
(***************************************************************************)
LockManager(t) ==
  /\ At(t, "lock")
  /\ owner = NoThread
  /\ owner' = t
  /\ Goto(t, "lookup")
  /\ UNCHANGED <<initialized, cache, library, ref, statics, held, calls>>

\* s_pm_get_plugin_path could not allocate the path: return, pm_mutex held.
ResolveFails(t) ==
  /\ At(t, "lookup")
  /\ Fault[Top(t).path] = "resolve"
  /\ Return(t, NoLib)
  /\ UNCHANGED <<initialized, owner, cache, library, ref, calls>>

\* The cache has the path; the reference is taken in the next step.
LookupHit(t) ==
  /\ At(t, "lookup")
  /\ Fault[Top(t).path] # "resolve"
  /\ cache[Top(t).path] # NoLib
  /\ Become(t, [Top(t) EXCEPT !.at = "share", !.lib = cache[Top(t).path]])
  /\ UNCHANGED <<initialized, owner, cache, library, ref, statics, held, calls>>

\* Variant: the cached library is shared without a reference.
ShareUncounted(t) ==
  /\ At(t, "share")
  /\ owner' = NoThread
  /\ Goto(t, "spin")
  /\ UNCHANGED <<initialized, cache, library, ref, statics, held, calls>>

\* Variant: a hit returns with pm_mutex held.
ShareLocked(t) ==
  /\ At(t, "share")
  /\ ref' = [ref EXCEPT ![Top(t).lib] = @ + 1]
  /\ Goto(t, "spin")
  /\ UNCHANGED <<initialized, owner, cache, library, statics, held, calls>>

\* SObjectIncRef on the cached library, and unlock.
ShareLibrary(t) ==
  /\ At(t, "share")
  /\ ref' = [ref EXCEPT ![Top(t).lib] = @ + 1]
  /\ owner' = NoThread
  /\ Goto(t, "spin")
  /\ UNCHANGED <<initialized, cache, library, statics, held, calls>>

\* Variant: a cached library is taken for a loaded one.
SpinSkipped(t) ==
  /\ At(t, "spin")
  /\ Return(t, Top(t).lib)
  /\ UNCHANGED <<initialized, owner, cache, library, ref, calls>>

\* while (!SPluginIsReady(plugin)) {}
SpinEnds(t) ==
  /\ At(t, "spin")
  /\ library[Top(t).lib].ready
  /\ Return(t, Top(t).lib)
  /\ UNCHANGED <<initialized, owner, cache, library, ref, calls>>

\* An identity no pointer of the model names any more may be used again.
Fresh(l) ==
  /\ ~Live(l)
  /\ \A p \in Paths : /\ cache[p] # l
                      /\ \A i \in DOMAIN statics[p] : statics[p][i] # l
  /\ \A t \in Threads : /\ held[t][l] = 0
                        /\ \A i \in DOMAIN stack[t] : stack[t][i].lib # l

\* A miss: the path has to be loaded.
LookupMiss(t) ==
  /\ At(t, "lookup")
  /\ Fault[Top(t).path] # "resolve"
  /\ cache[Top(t).path] = NoLib
  /\ Goto(t, "create")
  /\ UNCHANGED <<initialized, owner, cache, library, ref, statics, held, calls>>

\* Cache a new library (its only reference is the cache's) and unlock.
CreateLibrary(t) ==
  LET p == Top(t).path
  IN /\ At(t, "create")
     /\ \E l \in Libs :
          /\ Fresh(l)
          /\ \A k \in Libs : Fresh(k) => l <= k
          /\ library' = [library EXCEPT ![l] =
               [state |-> "live", path |-> p, ready |-> FALSE,
                inManager |-> FALSE, dso |-> FALSE]]
          /\ ref' = [ref EXCEPT ![l] = 1]
          /\ cache' = [cache EXCEPT ![p] = l]
          /\ Become(t, [Top(t) EXCEPT !.at = "load", !.lib = l])
     /\ owner' = NoThread
     /\ UNCHANGED <<initialized, statics, held, calls>>

\* SLibraryLoad up to the call of the plug-in's register function.
LoadLibrary(t) ==
  LET p == Top(t).path
  IN /\ At(t, "load")
     /\ IF Fault[p] = "open"
          THEN Goto(t, "discard")
          ELSE GotoLoop(t, "register", Len(Requires[p]))
     /\ UNCHANGED <<initialized, owner, cache, library, ref, statics, held, calls>>

\* The register function loads the plug-ins it requires, one by one ...
RegisterRequired(t) ==
  LET frame == Top(t)
  IN /\ At(t, "register")
     /\ frame.next <= frame.last
     /\ Call(t, NewCall("lock", Requires[frame.path][frame.next], NoLib))
     /\ UNCHANGED <<initialized, owner, cache, library, ref, statics, held, calls>>

\* ... and then its classes.
RegisterClasses(t) ==
  LET frame == Top(t)
  IN /\ At(t, "register")
     /\ frame.next > frame.last
     /\ IF Fault[frame.path] = "register"
          THEN /\ GotoLoop(t, "unregister", Len(Requires[frame.path]))
               /\ UNCHANGED library
          ELSE /\ Goto(t, "publish")
               /\ library' = [library EXCEPT ![frame.lib].dso = TRUE]
     /\ UNCHANGED <<initialized, owner, cache, ref, statics, held, calls>>

\* in_pluginmanager := TRUE and the caller's reference.
PublishLibrary(t) ==
  /\ At(t, "publish")
  /\ library' = [library EXCEPT ![Top(t).lib].inManager = TRUE]
  /\ ref' = [ref EXCEPT ![Top(t).lib] = @ + 1]
  /\ Goto(t, "set_ready")
  /\ UNCHANGED <<initialized, owner, cache, statics, held, calls>>

\* Variant: the ready flag is never set.
SetReadyForgotten(t) ==
  /\ At(t, "set_ready")
  /\ Return(t, Top(t).lib)
  /\ UNCHANGED <<initialized, owner, cache, library, ref, calls>>

SetReady(t) ==
  /\ At(t, "set_ready")
  /\ library' = [library EXCEPT ![Top(t).lib].ready = TRUE]
  /\ Return(t, Top(t).lib)
  /\ UNCHANGED <<initialized, owner, cache, ref, calls>>

\* SMapObjectUnlink(libraryCache, library->path): whatever is cached there.
CacheRemove(l) ==
  LET p == library[l].path
  IN /\ cache' = [cache EXCEPT ![p] = NoLib]
     /\ ref' = [k \in Libs |-> IF k = cache[p] /\ ref[k] > 0
                                 THEN ref[k] - 1 ELSE ref[k]]

\* A load that failed takes its library out of the cache and deletes it.
DiscardLibrary(t) ==
  /\ At(t, "discard")
  /\ CacheRemove(Top(t).lib)
  /\ Goto(t, "dispose")
  /\ UNCHANGED <<initialized, owner, library, statics, held, calls>>

(***************************************************************************)
(* S_DELETE of a library: DisposeLibrary (SObjectDecRef, then              *)
(* _s_pm_unload_library), the test of the count, SObjectDelete.            *)
(***************************************************************************)
\* Variant: the count is decremented below zero.
DecRefUnchecked(t) ==
  /\ At(t, "dispose")
  /\ ref' = [ref EXCEPT ![Top(t).lib] = @ - 1]
  /\ Goto(t, "check")
  /\ UNCHANGED <<initialized, owner, cache, library, statics, held, calls>>

DecRef(t) ==
  LET l == Top(t).lib
  IN /\ At(t, "dispose")
     /\ ref' = [ref EXCEPT ![l] = IF @ > 0 THEN @ - 1 ELSE 0]
     /\ Goto(t, "check")
     /\ UNCHANGED <<initialized, owner, cache, library, statics, held, calls>>

CheckLastReference(t) ==
  LET l == Top(t).lib
  IN /\ At(t, "check")
     /\ IF ref[l] = 1 /\ library[l].inManager
          THEN Goto(t, "uncache")
          ELSE Goto(t, "test")
     /\ UNCHANGED <<initialized, owner, cache, library, ref, statics, held, calls>>

UncacheLibrary(t) ==
  /\ At(t, "uncache")
  /\ CacheRemove(Top(t).lib)
  /\ Goto(t, "zero")
  /\ UNCHANGED <<initialized, owner, library, statics, held, calls>>

ZeroRef(t) ==
  /\ At(t, "zero")
  /\ ref' = [ref EXCEPT ![Top(t).lib] = 0]
  /\ Goto(t, "test")
  /\ UNCHANGED <<initialized, owner, cache, library, statics, held, calls>>

\* S_OBJECT_REF(SELF) == 0 decides whether SObjectDelete is called.
TestUnreferenced(t) ==
  /\ At(t, "test")
  /\ IF ref[Top(t).lib] = 0
       THEN Goto(t, "destroy") /\ UNCHANGED <<statics, held>>
       ELSE Return(t, NoLib)
  /\ UNCHANGED <<initialized, owner, cache, library, ref, calls>>

\* DestroyLibrary: the exit function runs if the library was loaded.
DestroyLibrary(t) ==
  /\ At(t, "destroy")
  /\ IF library[Top(t).lib].dso
       THEN GotoLoop(t, "at_exit", Len(Requires[Top(t).path]))
       ELSE Goto(t, "free")
  /\ UNCHANGED <<initialized, owner, cache, library, ref, statics, held, calls>>

\* S_DELETE of the static pointers of a plug-in, a NULL one is skipped.
DeleteRequired(t) ==
  LET frame == Top(t)
      l == statics[frame.path][frame.next]
  IN /\ At(t, "at_exit") \/ At(t, "unregister")
     /\ frame.next <= frame.last
     /\ IF l = NoLib
          THEN Become(t, [frame EXCEPT !.next = @ + 1])
          ELSE Call(t, NewCall("dispose", library[l].path, l))
     /\ UNCHANGED <<initialized, owner, cache, library, ref, statics, held, calls>>

RequiredDeleted(t) ==
  LET frame == Top(t)
  IN /\ At(t, "at_exit") \/ At(t, "unregister")
     /\ frame.next > frame.last
     /\ Goto(t, IF frame.at = "at_exit" THEN "free" ELSE "discard")
     /\ UNCHANGED <<initialized, owner, cache, library, ref, statics, held, calls>>

FreeLibrary(t) ==
  LET l == Top(t).lib
  IN /\ At(t, "free")
     /\ library' = [library EXCEPT ![l].state = "freed", ![l].ready = FALSE,
                                   ![l].inManager = FALSE, ![l].dso = FALSE]
     /\ Return(t, NoLib)
     /\ UNCHANGED <<initialized, owner, cache, ref, calls>>

(***************************************************************************)
(* _s_pm_init and _s_pm_quit, called by the keeper with no thread in the   *)
(* manager; the application has deleted its plug-ins before it quits.      *)
(***************************************************************************)
InitManager ==
  /\ ~initialized
  /\ initialized' = TRUE
  /\ owner' = NoThread
  /\ cache' = [p \in Paths |-> NoLib]
  /\ UNCHANGED <<library, ref, statics, held, stack, calls>>

QuitManager ==
  /\ initialized
  /\ owner = NoThread
  /\ \A t \in Threads : Idle(t) /\ \A l \in Libs : held[t][l] = 0
  /\ initialized' = FALSE
  /\ library' = [l \in Libs |->
       IF \E p \in Paths : cache[p] = l
         THEN [library[l] EXCEPT !.state = "freed"] ELSE library[l]]
  /\ cache' = [p \in Paths |-> NoLib]
  /\ UNCHANGED <<owner, ref, statics, held, stack, calls>>

Init ==
  /\ initialized = FALSE
  /\ owner = NoThread
  /\ cache = [p \in Paths |-> NoLib]
  /\ library = [l \in Libs |->
       [state |-> "unused", path |-> CHOOSE p \in Paths : TRUE,
        ready |-> FALSE, inManager |-> FALSE, dso |-> FALSE]]
  /\ ref = [l \in Libs |-> 0]
  /\ statics = [p \in Paths |-> [i \in DOMAIN Requires[p] |-> NoLib]]
  /\ held = [t \in Threads |-> [l \in Libs |-> 0]]
  /\ stack = [t \in Threads |-> <<>>]
  /\ calls = [t \in Threads |-> 0]

\* What a thread does on its own once it is in a call.
Step(t) ==
  \/ LockManager(t) \/ ResolveFails(t) \/ LookupHit(t) \/ ShareLibrary(t)
  \/ SpinEnds(t) \/ LookupMiss(t) \/ CreateLibrary(t) \/ LoadLibrary(t)
  \/ RegisterRequired(t) \/ RegisterClasses(t) \/ PublishLibrary(t) \/ SetReady(t)
  \/ DiscardLibrary(t) \/ DecRef(t) \/ CheckLastReference(t)
  \/ UncacheLibrary(t) \/ ZeroRef(t) \/ TestUnreferenced(t)
  \/ DestroyLibrary(t) \/ DeleteRequired(t) \/ RequiredDeleted(t)
  \/ FreeLibrary(t)

Next ==
  \/ InitManager
  \/ QuitManager
  \/ \E t \in Threads :
       \/ \E p \in Paths : CallLoad(t, p)
       \/ \E l \in Libs : CallDelete(t, l)
       \/ Step(t)

Spec == Init /\ [][Next]_vars

\* The scheduler runs every thread that can run; nothing else is assumed.
FairSpec == Spec /\ \A t \in Threads : WF_vars(Step(t))

-----------------------------------------------------------------------------
(***************************************************************************)
(* Properties.                                                             *)
(***************************************************************************)
TypeOK ==
  /\ initialized \in BOOLEAN
  /\ owner \in Threads \cup {NoThread}
  /\ cache \in [Paths -> Libs \cup {NoLib}]
  /\ library \in [Libs -> Library]
  /\ ref \in [Libs -> Nat]
  /\ DOMAIN statics = Paths
  /\ \A p \in Paths : statics[p] \in [DOMAIN Requires[p] -> Libs \cup {NoLib}]
  /\ held \in [Threads -> [Libs -> Nat]]
  /\ stack \in [Threads -> Seq(Frame)]
  /\ calls \in [Threads -> 0..MaxCalls]

Frames == UNION {{<<t, i>> : i \in DOMAIN stack[t]} : t \in Threads}
FrameOf(f) == stack[f[1]][f[2]]

\* The static pointers whose S_DELETE is under way.
InDeletion ==
  {<<FrameOf(f).path, FrameOf(f).next>> : f \in
     {g \in Frames : /\ g[2] < Len(stack[g[1]])
                     /\ FrameOf(g).at \in {"at_exit", "unregister"}}}

StaticHandles(l) ==
  {h \in UNION {{<<p, i>> : i \in DOMAIN statics[p]} : p \in Paths} :
     statics[h[1]][h[2]] = l} \ InDeletion

\* Calls that own a reference: waiting for the loader, about to return one,
\* or about to give one back.
CallHandles(l) ==
  {f \in Frames :
     /\ FrameOf(f).lib = l
     /\ \/ FrameOf(f).at \in {"spin", "set_ready"}
        \/ FrameOf(f).at = "dispose" /\ library[l].inManager}

HeldHandles(l) == MapThenSumSet(LAMBDA t : held[t][l], Threads)

\* No pointer to a library outlives it: not the cache's, not a plug-in object's,
\* not one a call is still going to use (manager.h promises "Thread safe" and
\* that a plug-in "can be normally deleted with S_DELETE").
NoDangling ==
  /\ \A p \in Paths : cache[p] # NoLib => Live(cache[p])
  /\ \A t \in Threads, l \in Libs : held[t][l] > 0 => Live(l)
  /\ \A l \in Libs : StaticHandles(l) # {} => Live(l)
  /\ \A f \in Frames : FrameOf(f).lib # NoLib => Live(FrameOf(f).lib)

\* A library's reference count is the number of its users and the cache:
\* no load or delete, successful or failed, nested or not, loses or adds one.
RefExact ==
  \A l \in Libs : Live(l) =>
    ref[l] = (IF cache[library[l].path] = l THEN 1 ELSE 0)
             + HeldHandles(l) + Cardinality(StaticHandles(l))
             + Cardinality(CallHandles(l))

\* A plug-in is only handed out when its library has finished loading, to the
\* thread that loaded it and to those that found it in the cache.
HandedOutReady ==
  \A l \in Libs :
    (StaticHandles(l) # {} \/ \E t \in Threads : held[t][l] > 0)
      => library[l].ready \/ library[l].state = "freed"

\* When every plug-in has been deleted and no call is under way, nothing is
\* left: every library is freed and the cache is empty.
NothingLeft ==
  (\A t \in Threads : Idle(t) /\ \A l \in Libs : held[t][l] = 0) =>
    /\ \A p \in Paths : cache[p] = NoLib
    /\ \A l \in Libs : ~Live(l)

\* A call that waits for a library to become ready waits for somebody: the
\* library is ready, or another call is loading it.
WaitersHaveLoader ==
  \A f \in Frames : FrameOf(f).at = "spin" =>
    \/ library[FrameOf(f).lib].ready
    \/ \E g \in Frames :
         /\ FrameOf(g).lib = FrameOf(f).lib
         /\ FrameOf(g).at \in {"load", "register", "publish", "set_ready"}

\* pm_mutex is held only by a thread that is inside s_pm_load_plugin's
\* critical section.
LockReleased ==
  owner # NoThread => \E at \in {"lookup", "share", "create"} : At(owner, at)

\* Every load and every delete returns.
CallsReturn == \A t \in Threads : ~Idle(t) ~> Idle(t)

(***************************************************************************)
(* What the manager promises its users: PluginService.  A user is a thread *)
(* or a plug-in that keeps others in its static pointers.                  *)
(***************************************************************************)
OpenPaths == {p \in Paths : cache[p] # NoLib /\ library[cache[p]].ready}

Uses(u, p) ==
  LET on == {l \in Libs : library[l].path = p}
  IN IF u \in Threads
       THEN MapThenSumSet(LAMBDA l : held[u][l], on)
       ELSE Cardinality({h \in UNION {StaticHandles(l) : l \in on} : h[1] = u})

Service == INSTANCE PluginService WITH
  Users <- Threads \cup Paths,
  open <- OpenPaths,
  uses <- [u \in Threads \cup Paths |-> [p \in Paths |-> Uses(u, p)]]

\* Plug-ins are opened before their first user and closed after their last.
ServiceSpec == Service!Spec

=============================================================================
