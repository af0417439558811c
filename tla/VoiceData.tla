----------------------------- MODULE VoiceData -----------------------------
(***************************************************************************)
(* The data of voices: the cache of the voice manager                      *)
(* (engine/src/voicemanager/manager.c) and the operations of SVoice that   *)
(* load, share, replace and release data objects (voice.c).                *)
(*                                                                         *)
(* A data object is loaded once and shared by the voices that name its     *)
(* path; the cache counts its users in the reference count of the entry,   *)
(* and each voice's map of data holds a reference to the object itself.    *)
(* A function of manager.c that runs under vm_mutex is one step.  The      *)
(* functions of voice.c hold the mutex of the voice and take vm_mutex      *)
(* several times, so they are several steps: a program point ("at") is a   *)
(* place between two of them where another thread may run.                 *)
(***************************************************************************)
EXTENDS Integers, FiniteSets, FiniteSetsExt

CONSTANTS
  Threads,  \* the threads of the application
  Voices,   \* identities of SVoice objects (a bound on live voices)
  Keys,     \* names of data in a voice
  Paths,    \* paths of data files
  Objects,  \* addresses of data objects (a bound on live objects)
  Config,   \* Config[v][k]: the path the configuration of v gives for k
  Uses,     \* how the application uses SVoiceSetData, see Settable
  Null

ASSUME NullAssumption == Null \notin Threads \cup Paths \cup Objects
ASSUME ConfigAssumption == Config \in [Voices -> [Keys -> Paths \cup {Null}]]
ASSUME UsesAssumption == Uses \subseteq {"borrow", "share_plain", "reset_same"}
ASSUME SomeAssumption == Voices # {} /\ Keys # {}
ASSUME FiniteAssumption == IsFiniteSet(Threads) /\ IsFiniteSet(Voices \X Keys)

VARIABLES
  dataTypes,    \* the object of the cache's entry for a path
  entryRef,     \* S_OBJECT_REF of that entry
  dataIdentity, \* the path under which an address is in the cache
  alive,        \* addresses that hold an object
  objectRef,    \* S_OBJECT_REF of the objects
  state,        \* how far each voice is in its life
  owner,        \* the thread that loaded the voice, and will delete it
  data,         \* data[v][k]: dataObjects of the voices
  lock,         \* the thread that holds the voice's voice_mutex
  call,         \* what each thread is doing
  at            \* and how far it is

cache == <<dataTypes, entryRef, dataIdentity>>
objects == <<alive, objectRef>>
voices == <<state, owner, data, lock>>
threads == <<call, at>>
vars == <<cache, objects, voices, threads>>

Operations == {"none", "load", "synth", "set", "delete", "destroy"}
Points == {"idle", "load", "place", "lock", "use", "replace", "next",
           "query", "unload", "dispose", "count", "put", "return"}
Call == [op : Operations, voice : Voices, key : Keys,
         object : Objects \cup {Null}, \* the object to place, or in use
         old : Objects \cup {Null}]    \* the object just unlinked

SomeKey == CHOOSE k \in Keys : TRUE
NoCall == [op |-> "none", voice |-> CHOOSE v \in Voices : TRUE, key |-> SomeKey,
           object |-> Null, old |-> Null]

TypeOK ==
  /\ dataTypes \in [Paths -> Objects \cup {Null}]
  /\ entryRef \in [Paths -> Nat]
  /\ dataIdentity \in [Objects -> Paths \cup {Null}]
  /\ alive \subseteq Objects /\ objectRef \in [Objects -> Nat]
  /\ state \in [Voices -> {"absent", "loading", "ready", "leaving"}]
  /\ owner \in [Voices -> Threads \cup {Null}]
  /\ data \in [Voices -> [Keys -> Objects \cup {Null}]]
  /\ lock \in [Voices -> Threads \cup {Null}]
  /\ call \in [Threads -> Call] /\ at \in [Threads -> Points]

Init ==
  /\ dataTypes = [p \in Paths |-> Null]
  /\ entryRef = [p \in Paths |-> 0]
  /\ dataIdentity = [o \in Objects |-> Null]
  /\ alive = {} /\ objectRef = [o \in Objects |-> 0]
  /\ state = [v \in Voices |-> "absent"]
  /\ owner = [v \in Voices |-> Null]
  /\ data = [v \in Voices |-> [k \in Keys |-> Null]]
  /\ lock = [v \in Voices |-> Null]
  /\ call = [t \in Threads |-> NoCall]
  /\ at = [t \in Threads |-> "idle"]

Holders(o) == {h \in Voices \X Keys : data[h[1]][h[2]] = o}
Mine(t) == {v \in Voices : owner[v] = t /\ state[v] = "ready"}

(***************************************************************************)
(* Steps of a thread.  A finished call forgets its pointers.               *)
(***************************************************************************)
Goto(t, point) == at' = [at EXCEPT ![t] = point]

Start(t, op, v, k, o, point) ==
  /\ at[t] = "idle"
  /\ Goto(t, point)
  /\ call' = [call EXCEPT ![t] = [op |-> op, voice |-> v, key |-> k,
                                  object |-> o, old |-> Null]]

Finish(t) ==
  /\ Goto(t, "idle")
  /\ call' = [call EXCEPT ![t] = NoCall]

\* A new object at an address that holds none.
New(o) ==
  /\ o \notin alive
  /\ alive' = alive \cup {o}
  /\ objectRef' = [objectRef EXCEPT ![o] = 0]

(***************************************************************************)
(* Loading: s_vm_load_voice builds the voice without its data, then loads  *)
(* what its configuration names, key by key.                               *)
(***************************************************************************)
LoadVoice(t, v) ==
  /\ state[v] = "absent"
  /\ Start(t, "load", v, SomeKey, Null, "load")
  /\ state' = [state EXCEPT ![v] = "loading"]
  /\ owner' = [owner EXCEPT ![v] = t]
  /\ UNCHANGED <<cache, objects, data, lock>>

Missing(v) == {k \in Keys : Config[v][k] # Null /\ data[v][k] = Null}

\* load_data finds the path in the cache and counts one more user.
ShareData(t, k) ==
  LET v == call[t].voice
      p == Config[v][k]
  IN  /\ at[t] = "load" /\ k \in Missing(v)
      /\ dataTypes[p] # Null
      /\ entryRef' = [entryRef EXCEPT ![p] = @ + 1]
      /\ call' = [call EXCEPT ![t].key = k, ![t].object = dataTypes[p]]
      /\ Goto(t, "place")
      /\ UNCHANGED <<dataTypes, dataIdentity, objects, voices>>

\* Variant: the identity of the object is not put into the cache.
ReadDataUnnamed(t, k, o) ==
  LET v == call[t].voice
      p == Config[v][k]
  IN  /\ at[t] = "load" /\ k \in Missing(v)
      /\ dataTypes[p] = Null
      /\ New(o)
      /\ dataTypes' = [dataTypes EXCEPT ![p] = o]
      /\ entryRef' = [entryRef EXCEPT ![p] = 1]
      /\ call' = [call EXCEPT ![t].key = k, ![t].object = o]
      /\ Goto(t, "place")
      /\ UNCHANGED <<dataIdentity, voices>>

\* load_data reads the file and adds the object to the cache (cache_add).
ReadData(t, k, o) ==
  LET v == call[t].voice
      p == Config[v][k]
  IN  /\ at[t] = "load" /\ k \in Missing(v)
      /\ dataTypes[p] = Null
      /\ New(o)
      /\ dataTypes' = [dataTypes EXCEPT ![p] = o]
      /\ entryRef' = [entryRef EXCEPT ![p] = 1]
      /\ dataIdentity' = [dataIdentity EXCEPT ![o] = p]
      /\ call' = [call EXCEPT ![t].key = k, ![t].object = o]
      /\ Goto(t, "place")
      /\ UNCHANGED voices

PlaceData(t) ==
  LET v == call[t].voice
      o == call[t].object
  IN  /\ at[t] = "place"
      /\ data' = [data EXCEPT ![v][call[t].key] = o]
      /\ objectRef' = [objectRef EXCEPT ![o] = @ + 1]
      /\ call' = [call EXCEPT ![t].object = Null]
      /\ Goto(t, "load")
      /\ UNCHANGED <<cache, alive, state, owner, lock>>

VoiceLoaded(t) ==
  LET v == call[t].voice
  IN  /\ at[t] = "load" /\ Missing(v) = {}
      /\ state' = [state EXCEPT ![v] = "ready"]
      /\ Finish(t)
      /\ UNCHANGED <<cache, objects, owner, data, lock>>

\* The plug-in or the file of a data object that is not in the cache cannot
\* be loaded: s_vm_load_voice deletes the voice with the data it has.
LoadFails(t) ==
  LET v == call[t].voice
  IN  /\ at[t] = "load"
      /\ \E k \in Missing(v) : dataTypes[Config[v][k]] = Null
      /\ state' = [state EXCEPT ![v] = "leaving"]
      /\ call' = [call EXCEPT ![t].op = "destroy"]
      /\ Goto(t, "lock")
      /\ UNCHANGED <<cache, objects, owner, data, lock>>

(***************************************************************************)
(* The calls on a voice.  Any thread may synthesise with a voice.  With    *)
(* "borrow", only the thread that loaded a voice changes its data, and it  *)
(* may set what its voices hold; else any thread changes the data, and     *)
(* sets new objects only.                                                  *)
(***************************************************************************)
MayChange(t, v) == state[v] = "ready" /\ ("borrow" \in Uses => owner[v] = t)

\* Variant: synthesis does not take the mutex of the voice.
SynthUttUnlocked(t, v) ==
  /\ state[v] = "ready"
  /\ Start(t, "synth", v, SomeKey, Null, "use")
  /\ UNCHANGED <<cache, objects, voices>>

SynthUtt(t, v) ==
  /\ state[v] = "ready"
  /\ Start(t, "synth", v, SomeKey, Null, "lock")
  /\ UNCHANGED <<cache, objects, voices>>

SetNew(t, v, k, o) ==
  /\ MayChange(t, v)
  /\ New(o)
  /\ Start(t, "set", v, k, o, "lock")
  /\ UNCHANGED <<cache, voices>>

\* An object a voice of t holds already, under another key; one that is not
\* the cache's only with "share_plain", one under this very key only with
\* "reset_same".
Settable(t, v, k, o) ==
  /\ "borrow" \in Uses
  /\ \E h \in Holders(o) : h[1] \in Mine(t)
  /\ dataIdentity[o] = Null /\ data[v][k] # o => "share_plain" \in Uses
  /\ data[v][k] = o => "reset_same" \in Uses

SetHeld(t, v, k, o) ==
  /\ MayChange(t, v) /\ Settable(t, v, k, o)
  /\ Start(t, "set", v, k, o, "lock")
  /\ UNCHANGED <<cache, objects, voices>>

DelData(t, v, k) ==
  /\ MayChange(t, v)
  /\ Start(t, "delete", v, k, Null, "lock")
  /\ UNCHANGED <<cache, objects, voices>>

\* S_DELETE(voice), by the thread that loaded it, when no call is using it.
DeleteVoice(t, v) ==
  /\ v \in Mine(t)
  /\ \A u \in Threads : at[u] = "idle" \/ call[u].voice # v
  /\ Start(t, "destroy", v, SomeKey, Null, "lock")
  /\ state' = [state EXCEPT ![v] = "leaving"]
  /\ UNCHANGED <<cache, objects, owner, data, lock>>

Lock(t) ==
  LET v == call[t].voice
  IN  /\ at[t] = "lock" /\ lock[v] = Null
      /\ lock' = [lock EXCEPT ![v] = t]
      /\ Goto(t, CASE call[t].op = "synth" -> "use"
                   [] call[t].op \in {"set", "delete"} -> "replace"
                   [] OTHER -> "next")
      /\ UNCHANGED <<cache, objects, state, owner, data, call>>

\* s_mutex_unlock at the end of the functions that hold the voice.
Return(t) ==
  LET v == call[t].voice
  IN  /\ at[t] = "return"
      /\ lock' = [lock EXCEPT ![v] = Null]
      /\ Finish(t)
      /\ UNCHANGED <<cache, objects, state, owner, data>>

\* An utterance processor asks the voice for data, and works with it.
GetData(t, k) ==
  LET v == call[t].voice
  IN  /\ at[t] = "use" /\ call[t].object = Null
      /\ data[v][k] # Null
      /\ call' = [call EXCEPT ![t].key = k, ![t].object = data[v][k]]
      /\ UNCHANGED <<cache, objects, voices, at>>

Synthesised(t) ==
  /\ at[t] = "use" /\ Goto(t, "return")
  /\ UNCHANGED <<cache, objects, voices, call>>

(***************************************************************************)
(* unload_data_entry: unlink the object from the voice, ask the manager    *)
(* whether it is the cache's, then have it unloaded or delete it.          *)
(***************************************************************************)
\* Variant: SVoiceDelData repeats the deletion without another look at the map.
AfterUnloadAgain(t) ==
  CASE call[t].op = "set" -> "count"
    [] call[t].op = "delete" -> "replace"
    [] OTHER -> "next"

\* What the caller of unload_data_entry does next.
AfterUnload(t) ==
  CASE call[t].op = "set" -> "count"
    [] call[t].op = "delete" -> "return"
    [] OTHER -> "next"

Unlink(t, k) ==
  LET v == call[t].voice
      o == data[v][k]
  IN  /\ o # Null
      /\ data' = [data EXCEPT ![v][k] = Null]
      /\ objectRef' = [objectRef EXCEPT ![o] = @ - 1]
      /\ call' = [call EXCEPT ![t].key = k, ![t].old = o]
      /\ Goto(t, "query")
      /\ UNCHANGED <<cache, alive, state, owner, lock>>

Replace(t) ==
  LET k == call[t].key
  IN  /\ at[t] = "replace"
      /\ \/ Unlink(t, k)
         \/ /\ data[call[t].voice][k] = Null
            /\ Goto(t, AfterUnload(t))
            /\ UNCHANGED <<cache, objects, voices, call>>

Query(t) ==
  /\ at[t] = "query"
  /\ Goto(t, IF dataIdentity[call[t].old] # Null THEN "unload" ELSE "dispose")
  /\ UNCHANGED <<cache, objects, voices, call>>

\* Variant: free_dataType forgets the object.
UnloadKept(t) ==
  LET o == call[t].old
      p == dataIdentity[o]
      last == entryRef[p] = 1
  IN  /\ at[t] = "unload" /\ p # Null /\ dataTypes[p] # Null
      /\ entryRef' = [entryRef EXCEPT ![p] = @ - 1]
      /\ dataTypes' = IF last THEN [dataTypes EXCEPT ![p] = Null] ELSE dataTypes
      /\ dataIdentity' = IF last THEN [dataIdentity EXCEPT ![o] = Null] ELSE dataIdentity
      /\ call' = [call EXCEPT ![t].old = Null]
      /\ Goto(t, AfterUnload(t))
      /\ UNCHANGED <<objects, voices>>

\* unload_data: the last user removes the entry (cache_remove), and with it
\* the object (free_dataType).
Unload(t) ==
  LET o == call[t].old
      p == dataIdentity[o]
      last == entryRef[p] = 1
  IN  /\ at[t] = "unload" /\ p # Null /\ dataTypes[p] # Null
      /\ entryRef' = [entryRef EXCEPT ![p] = @ - 1]
      /\ dataTypes' = IF last THEN [dataTypes EXCEPT ![p] = Null] ELSE dataTypes
      /\ dataIdentity' = IF last THEN [dataIdentity EXCEPT ![o] = Null] ELSE dataIdentity
      /\ alive' = IF last THEN alive \ {dataTypes[p]} ELSE alive
      /\ call' = [call EXCEPT ![t].old = Null]
      /\ Goto(t, AfterUnload(t))
      /\ UNCHANGED <<objectRef, voices>>

\* S_DELETE of an object that is not the cache's: dispose drops one more
\* reference, if there is one, and the last reference frees the object.
Dispose(t) ==
  LET o == call[t].old
      ref == IF objectRef[o] = 0 THEN 0 ELSE objectRef[o] - 1
  IN  /\ at[t] = "dispose"
      /\ objectRef' = [objectRef EXCEPT ![o] = ref]
      /\ alive' = IF ref = 0 THEN alive \ {o} ELSE alive
      /\ call' = [call EXCEPT ![t].old = Null]
      /\ Goto(t, AfterUnload(t))
      /\ UNCHANGED <<cache, voices>>

\* Variant: SVoiceSetData does not count an object of the cache.
CountNone(t) ==
  /\ at[t] = "count" /\ Goto(t, "put")
  /\ UNCHANGED <<cache, objects, voices, call>>

\* SVoiceSetData: data_loaded_inc_ref counts the voice as a user.
Count(t) ==
  LET p == dataIdentity[call[t].object]
  IN  /\ at[t] = "count"
      /\ entryRef' = IF p = Null THEN entryRef ELSE [entryRef EXCEPT ![p] = @ + 1]
      /\ Goto(t, "put")
      /\ UNCHANGED <<dataTypes, dataIdentity, objects, voices, call>>

Put(t) ==
  LET v == call[t].voice
      o == call[t].object
  IN  /\ at[t] = "put"
      /\ data' = [data EXCEPT ![v][call[t].key] = o]
      /\ objectRef' = [objectRef EXCEPT ![o] = @ + 1]
      /\ call' = [call EXCEPT ![t].object = Null]
      /\ Goto(t, "return")
      /\ UNCHANGED <<cache, alive, state, owner, lock>>

\* DestroyVoice: each key in turn, then the mutex and the voice.
UnloadNext(t, k) == at[t] = "next" /\ Unlink(t, k)

Destroyed(t) ==
  LET v == call[t].voice
  IN  /\ at[t] = "next" /\ \A k \in Keys : data[v][k] = Null
      /\ state' = [state EXCEPT ![v] = "absent"]
      /\ owner' = [owner EXCEPT ![v] = Null]
      /\ lock' = [lock EXCEPT ![v] = Null]
      /\ Finish(t)
      /\ UNCHANGED <<cache, objects, data>>

\* What a thread decides to do, and what it does by itself once in a call.
Ask(t) ==
  \E v \in Voices :
    \/ LoadVoice(t, v) \/ SynthUtt(t, v) \/ DeleteVoice(t, v)
    \/ \E k \in Keys :
         \/ DelData(t, v, k)
         \/ \E o \in Objects : SetNew(t, v, k, o) \/ SetHeld(t, v, k, o)

Step(t) ==
  \/ PlaceData(t) \/ VoiceLoaded(t) \/ LoadFails(t)
  \/ Lock(t) \/ Return(t) \/ Synthesised(t)
  \/ Replace(t) \/ Query(t) \/ Unload(t) \/ Dispose(t) \/ Count(t) \/ Put(t)
  \/ Destroyed(t)
  \/ \E k \in Keys : \/ ShareData(t, k) \/ GetData(t, k) \/ UnloadNext(t, k)
                     \/ \E o \in Objects : ReadData(t, k, o)

Next == \E t \in Threads : Ask(t) \/ Step(t)

Spec == Init /\ [][Next]_vars
FairSpec == Spec /\ \A t \in Threads : WF_vars(Step(t))

(***************************************************************************)
(* Properties.                                                             *)
(***************************************************************************)
\* t counts as a user of o: between load_data and the voice's map, between
\* data_loaded_inc_ref and the map, or between the map and unload_data.
Claims(t, o) ==
  \/ at[t] \in {"place", "put"} /\ call[t].object = o
  \/ at[t] \in {"query", "unload", "dispose"} /\ call[t].old = o

\* The count of a cache entry is exactly its users: every voice and key that
\* holds the object, and every thread that has counted itself but not placed
\* the object yet, or has unlinked it but not unloaded it yet.
RefExact ==
  \A p \in Paths :
    entryRef[p] = IF dataTypes[p] = Null THEN 0
                  ELSE Cardinality(Holders(dataTypes[p]))
                       + Cardinality({t \in Threads : Claims(t, dataTypes[p])})

\* dataTypes and dataIdentity are inverse to each other, so a path is loaded
\* at most once and an address at which another object now lives is not
\* taken for the cache's.
CacheAgrees ==
  /\ \A p \in Paths : dataTypes[p] # Null => dataIdentity[dataTypes[p]] = p
  /\ \A o \in Objects : dataIdentity[o] # Null => dataTypes[dataIdentity[o]] = o

\* No voice and no running call has a pointer to a freed object, and what an
\* utterance processor got from the voice is still the voice's.
NoDangling ==
  /\ \A v \in Voices, k \in Keys : data[v][k] \in alive \cup {Null}
  /\ \A t \in Threads :
       /\ {call[t].object, call[t].old} \subseteq alive \cup {Null}
       /\ at[t] = "use" /\ call[t].object # Null
            => data[call[t].voice][call[t].key] = call[t].object

\* An object lives only as long as a voice holds it or a call has it in hand.
NoLeak ==
  \A o \in alive :
    \/ Holders(o) # {}
    \/ \E t \in Threads : o \in {call[t].object, call[t].old}

\* The answer of _s_vm_data_loaded still stands when unload_data_entry acts on
\* it, though vm_mutex was released in between.
AnswerStands ==
  \A t \in Threads :
    /\ at[t] = "unload" => /\ dataIdentity[call[t].old] # Null
                           /\ dataTypes[dataIdentity[call[t].old]] = call[t].old
    /\ at[t] = "dispose" => dataIdentity[call[t].old] = Null

\* Whoever holds the mutex of a voice lets it go, on every path through the
\* functions of voice.c.
LockReleased == \A v \in Voices : lock[v] # Null ~> lock[v] = Null

\* voice.h: SVoiceDelData and SVoiceSetData delete a value only "if it is not
\* referenced", so what a voice holds is not freed.
HeldAlive == \A v \in Voices, k \in Keys : data[v][k] \in alive \cup {Null}
=============================================================================
