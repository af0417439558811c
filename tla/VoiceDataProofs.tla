--------------------------- MODULE VoiceDataProofs ---------------------------
(***************************************************************************)
(* Proofs about VoiceData, for any threads, voices, keys, paths, objects   *)
(* and configurations.  Of the uses of SVoiceSetData they allow "borrow"   *)
(* only: with the other two the properties do not hold.                    *)
(***************************************************************************)
EXTENDS VoiceData, Counts, FiniteSetTheorems, TLAPS

Careful == Uses \subseteq {"borrow"}

\* Where each kind of call may be, and which pointers it has there.
Holding == {"use", "replace", "next", "query", "unload", "dispose", "count", "put", "return"}
Unlinked == {"query", "unload", "dispose"}

PointAt(t) ==
  /\ call[t].op = "none" <=> at[t] = "idle"
  /\ call[t].op = "load" => at[t] \in {"load", "place"}
  /\ call[t].op = "synth" => at[t] \in {"lock", "use", "return"}
  /\ call[t].op = "set" => at[t] \in {"lock", "replace", "count", "put", "return"} \cup Unlinked
  /\ call[t].op = "delete" => at[t] \in {"lock", "replace", "return"} \cup Unlinked
  /\ call[t].op = "destroy" => at[t] \in {"lock", "next"} \cup Unlinked
  /\ call[t].old # Null <=> at[t] \in Unlinked
  /\ call[t].op = "set" => (call[t].object # Null <=> at[t] # "return")
  /\ call[t].op \in {"none", "delete", "destroy"} => call[t].object = Null
  /\ call[t].op = "load" => (call[t].object # Null <=> at[t] = "place")
  /\ call[t].op = "synth" /\ at[t] = "lock" => call[t].object = Null

\* The thread that is in a voice's functions has its mutex.
LockAt(t) == at[t] \in Holding => lock[call[t].voice] = t

LockHeld ==
  \A v \in Voices : lock[v] # Null => at[lock[v]] \in Holding /\ call[lock[v]].voice = v

\* A voice is loaded, and deleted, by one thread, and nobody else is in it then.
StateAt(t) ==
  /\ call[t].op = "load" => state[call[t].voice] = "loading" /\ owner[call[t].voice] = t
  /\ call[t].op = "destroy" => state[call[t].voice] = "leaving" /\ owner[call[t].voice] = t
  /\ call[t].op \in {"synth", "set", "delete"} => state[call[t].voice] = "ready"
  /\ call[t].op \in {"set", "delete"} /\ "borrow" \in Uses => owner[call[t].voice] = t

\* The place in the map for the object that is loaded, or set, is free, and what
\* synthesis uses is in its place.
Slot(t) == data[call[t].voice][call[t].key]

SlotAt(t) ==
  /\ at[t] = "place" => Slot(t) = Null
  /\ call[t].op = "set" /\ at[t] \in Unlinked \cup {"count", "put"} => Slot(t) = Null
  /\ call[t].op = "synth" /\ call[t].object # Null => Slot(t) = call[t].object

\* Nothing that somebody has a pointer to is freed.
AliveAt(t) == call[t].object \in alive \cup {Null} /\ call[t].old \in alive \cup {Null}

AliveInv ==
  /\ \A h \in Voices \X Keys : data[h[1]][h[2]] \in alive \cup {Null}
  /\ \A p \in Paths : dataTypes[p] \in alive \cup {Null}

\* What the cache says of an object stands while a call acts on it.
AnswerAt(t) ==
  /\ at[t] = "place" => dataIdentity[call[t].object] # Null
  /\ at[t] = "unload" => dataIdentity[call[t].old] # Null
  /\ at[t] = "dispose" => dataIdentity[call[t].old] = Null

\* An object that is not the cache's is in one place only: under one key of one
\* voice, or with the one call that will set it, or with the one that unlinked it.
Sets(t, o) == call[t].op = "set" /\ call[t].object = o

PlainInv ==
  \A o \in Objects : dataIdentity[o] = Null =>
    /\ \A g, h \in Voices \X Keys : data[g[1]][g[2]] = o /\ data[h[1]][h[2]] = o => g = h
    /\ \A h \in Voices \X Keys, t \in Threads :
         data[h[1]][h[2]] = o => ~Sets(t, o) /\ call[t].old # o
    /\ \A t, u \in Threads : Sets(t, o) => call[u].old # o /\ (Sets(u, o) => t = u)
    /\ \A t, u \in Threads : call[t].old = o /\ call[u].old = o => t = u

\* An object of the cache that is to be set is in another place of a voice of the
\* same thread until it is counted.
Uncounted == {"lock", "replace", "count"} \cup Unlinked
Lends(h, t) == /\ data[h[1]][h[2]] = call[t].object /\ h # <<call[t].voice, call[t].key>>
               /\ state[h[1]] = "ready" /\ owner[h[1]] = t

LentAt(t) ==
  call[t].op = "set" /\ at[t] \in Uncounted /\ dataIdentity[call[t].object] # Null =>
    "borrow" \in Uses /\ \E h \in Voices \X Keys : Lends(h, t)

\* The users of an object, and what counts them.
Claimers(o) == {t \in Threads : Claims(t, o)}
HolderCount(o) == Cardinality(Holders(o))
ClaimCount(o) == Cardinality(Claimers(o))

CountInv ==
  /\ \A o \in alive : objectRef[o] = HolderCount(o)
  /\ \A p \in Paths : dataTypes[p] # Null =>
       entryRef[p] > 0 /\ entryRef[p] = HolderCount(dataTypes[p]) + ClaimCount(dataTypes[p])
  /\ \A p \in Paths : dataTypes[p] = Null => entryRef[p] = 0

ThreadInv(t) ==
  /\ PointAt(t) /\ LockAt(t) /\ StateAt(t) /\ SlotAt(t) /\ AliveAt(t) /\ AnswerAt(t)
  /\ LentAt(t)

IInv ==
  /\ TypeOK /\ \A t \in Threads : ThreadInv(t)
  /\ LockHeld /\ AliveInv /\ PlainInv /\ CacheAgrees /\ CountInv /\ NoLeak

-----------------------------------------------------------------------------
(* Counting holders and claimers.                                              *)

Held(h) == data[h[1]][h[2]]

LEMMA Counted ==
  ASSUME NEW o
  PROVE  /\ IsFiniteSet(Holders(o)) /\ HolderCount(o) \in Nat
         /\ IsFiniteSet(Claimers(o)) /\ ClaimCount(o) \in Nat
         /\ HolderCount(o) = 0 <=> Holders(o) = {}
         /\ ClaimCount(o) = 0 <=> Claimers(o) = {}
<1>1. Holders(o) \in SUBSET (Voices \X Keys) /\ Claimers(o) \in SUBSET Threads
  BY DEF Holders, Claimers
<1>2. IsFiniteSet(Holders(o)) /\ IsFiniteSet(Claimers(o))
  BY <1>1, FS_Subset, FiniteAssumption
<1> QED BY <1>2, FS_CardinalityType, FS_EmptySet DEF HolderCount, ClaimCount

\* The same after the step.
LEMMA CountedNext ==
  ASSUME NEW o
  PROVE  /\ IsFiniteSet(Holders(o)') /\ HolderCount(o)' \in Nat
         /\ IsFiniteSet(Claimers(o)') /\ ClaimCount(o)' \in Nat
<1>1. Holders(o)' \in SUBSET (Voices \X Keys) /\ Claimers(o)' \in SUBSET Threads
  BY DEF Holders, Claimers
<1>2. IsFiniteSet(Holders(o)') /\ IsFiniteSet(Claimers(o)')
  BY <1>1, FS_Subset, FiniteAssumption
<1> QED BY <1>2, FS_CardinalityType DEF HolderCount, ClaimCount

\* A step that changes one place of the maps changes the count of holders by that
\* place, and a step of t changes the count of claimers by t.
LEMMA HolderCounts ==
  ASSUME NEW o, NEW h \in Voices \X Keys,
         \A g \in Voices \X Keys : g # h => Held(g)' = Held(g)
  PROVE  HolderCount(o)' = HolderCount(o) + One(Held(h)' = o) - One(Held(h) = o)
<1>1. \A g : g # h => (g \in Holders(o) <=> g \in Holders(o)')
  BY DEF Holders, Held
<1>2. (h \in Holders(o) <=> Held(h) = o) /\ (h \in Holders(o)' <=> Held(h)' = o)
  BY DEF Holders, Held
<1>3. IsFiniteSet(Holders(o)) /\ IsFiniteSet(Holders(o)')
  BY Counted, CountedNext
<1>4. Cardinality(Holders(o)') = Cardinality(Holders(o)) + One(h \in Holders(o)') - One(h \in Holders(o))
  BY <1>1, <1>3, DifferInOne
<1> QED BY <1>2, <1>4 DEF HolderCount, One

Others(t) == Threads \ {t}

LEMMA ClaimCounts ==
  ASSUME NEW o, NEW t \in Threads, \A u \in Others(t) : Claims(u, o)' <=> Claims(u, o)
  PROVE  ClaimCount(o)' = ClaimCount(o) + One(Claims(t, o)') - One(Claims(t, o))
<1>1. \A u : u # t => (u \in Claimers(o) <=> u \in Claimers(o)')
  BY DEF Claimers, Others
<1>2. (t \in Claimers(o) <=> Claims(t, o)) /\ (t \in Claimers(o)' <=> Claims(t, o)')
  BY DEF Claimers
<1>3. IsFiniteSet(Claimers(o)) /\ IsFiniteSet(Claimers(o)')
  BY Counted, CountedNext
<1>4. Cardinality(Claimers(o)') = Cardinality(Claimers(o)) + One(t \in Claimers(o)') - One(t \in Claimers(o))
  BY <1>1, <1>3, DifferInOne
<1> QED BY <1>2, <1>4 DEF ClaimCount, One

\* An object that is counted once, by t, has no other user.
LEMMA OnlyClaim ==
  ASSUME NEW o, NEW t \in Threads, Claims(t, o), HolderCount(o) + ClaimCount(o) = 1
  PROVE  /\ \A h \in Voices \X Keys : Held(h) # o
         /\ \A u \in Others(t) : ~Claims(u, o)
<1>1. t \in Claimers(o)
  BY DEF Claimers
<1>2. HolderCount(o) = 0 /\ ClaimCount(o) = 1
  BY <1>1, Counted
<1>3. Holders(o) = {} /\ \E u : Claimers(o) = {u}
  BY <1>2, Counted, FS_Singleton DEF ClaimCount
<1> QED BY <1>1, <1>3 DEF Holders, Claimers, Held, Others

-----------------------------------------------------------------------------
(* What a step of one thread leaves alone.                                     *)

\* Of the other threads, and of the voices they use.
LeavesThreads(t) ==
  /\ \A u \in Others(t) : call'[u] = call[u] /\ at'[u] = at[u]
  /\ \A v \in Voices : lock[v] # Null /\ lock[v] # t => lock'[v] = lock[v]
  /\ \A u \in Others(t) : call[u].op # "none" =>
       state'[call[u].voice] = state[call[u].voice] /\ owner'[call[u].voice] = owner[call[u].voice]
  /\ \A v \in Voices : state[v] = "ready" /\ owner[v] # t =>
       state'[v] = "ready" /\ owner'[v] = owner[v]

\* Of the maps of data: t changes the voice it is in.
InVoice(t) == at[t] \in Holding \cup {"place"}

LeavesData(t) ==
  \A h \in Voices \X Keys : Held(h)' # Held(h) =>
    InVoice(t) /\ call[t].op # "synth" /\ h[1] = call[t].voice

\* Of the objects the others point to.
Kept(o) == o \in alive' /\ dataIdentity'[o] = dataIdentity[o]

LeavesObjects(t) ==
  \A u \in Others(t) : /\ call[u].object # Null => Kept(call[u].object)
                       /\ call[u].old # Null => Kept(call[u].old)

\* The fields of a call.
LEMMA CallType ==
  ASSUME TypeOK, NEW t \in Threads
  PROVE  /\ call[t].op \in Operations /\ call[t].voice \in Voices /\ call[t].key \in Keys
         /\ call[t].object \in Objects \cup {Null} /\ call[t].old \in Objects \cup {Null}
         /\ at[t] \in Points /\ <<call[t].voice, call[t].key>> \in Voices \X Keys
BY DEF TypeOK, Call

\* Two threads are not in one voice at a time.
LEMMA Apart ==
  ASSUME IInv, NEW t \in Threads, NEW u \in Others(t), InVoice(t), InVoice(u)
  PROVE  call[t].voice # call[u].voice
<1>1. u \in Threads /\ u # t
  BY DEF Others
<1>2. /\ PointAt(t) /\ LockAt(t) /\ StateAt(t) /\ PointAt(u) /\ LockAt(u) /\ StateAt(u)
  BY <1>1 DEF IInv, ThreadInv
<1>3. at[t] = "place" => call[t].op = "load"
  BY <1>2, CallType DEF PointAt, Unlinked, IInv, Operations
<1>4. at[u] = "place" => call[u].op = "load"
  BY <1>1, <1>2, CallType DEF PointAt, Unlinked, IInv, Operations
<1>5. at[t] \in Holding => state[call[t].voice] # "loading" /\ lock[call[t].voice] = t
  BY <1>2, CallType DEF PointAt, Holding, StateAt, LockAt, IInv, Operations
<1>6. at[u] \in Holding => state[call[u].voice] # "loading" /\ lock[call[u].voice] = u
  BY <1>1, <1>2, CallType DEF PointAt, Holding, StateAt, LockAt, IInv, Operations
<1> QED BY <1>1, <1>2, <1>3, <1>4, <1>5, <1>6 DEF InVoice, StateAt

LEMMA OthersPoint ==
  ASSUME IInv, NEW t \in Threads, LeavesThreads(t), NEW u \in Others(t)
  PROVE  PointAt(u)' /\ LockAt(u)' /\ StateAt(u)'
<1>1. u \in Threads /\ u # t
  BY DEF Others
<1>2. PointAt(u) /\ LockAt(u) /\ StateAt(u)
  BY <1>1 DEF IInv, ThreadInv
<1>3. call'[u] = call[u] /\ at'[u] = at[u]
  BY DEF LeavesThreads
<1>4. PointAt(u)'
  BY <1>2, <1>3 DEF PointAt
<1>5. LockAt(u)'
  <2>1. lock[call[u].voice] = u => lock'[call[u].voice] = u
    <3>1. call[u].voice \in Voices /\ u # Null
      BY <1>1, CallType, NullAssumption DEF IInv
    <3> QED BY <1>1, <3>1 DEF LeavesThreads
  <2> QED BY <1>2, <1>3, <2>1 DEF LockAt
<1>6. StateAt(u)'
  <2>1. call[u].op # "none" => /\ state'[call[u].voice] = state[call[u].voice]
                               /\ owner'[call[u].voice] = owner[call[u].voice]
    BY DEF LeavesThreads
  <2> QED BY <1>2, <1>3, <2>1 DEF StateAt
<1> QED BY <1>4, <1>5, <1>6

LEMMA OthersSlot ==
  ASSUME IInv, NEW t \in Threads, LeavesThreads(t), LeavesData(t), NEW u \in Others(t)
  PROVE  SlotAt(u)'
<1>1. u \in Threads /\ u # t
  BY DEF Others
<1>2. SlotAt(u) /\ PointAt(u)
  BY <1>1 DEF IInv, ThreadInv
<1>3. call'[u] = call[u] /\ at'[u] = at[u]
  BY DEF LeavesThreads
<1>4. InVoice(u) => Slot(u)' = Slot(u)
  <2>1. PICK h \in Voices \X Keys : h = <<call[u].voice, call[u].key>>
    BY <1>1, CallType DEF IInv
  <2>2. Slot(u) = Held(h) /\ Slot(u)' = Held(h)' /\ h[1] = call[u].voice
    BY <1>3, <2>1 DEF Slot, Held
  <2>3. InVoice(u) => ~(InVoice(t) /\ h[1] = call[t].voice)
    BY <2>2, Apart
  <2> QED BY <2>2, <2>3 DEF LeavesData
<1>5. /\ at[u] = "place" => InVoice(u)
      /\ at[u] \in Unlinked \cup {"count", "put"} => InVoice(u)
      /\ call[u].op = "synth" /\ call[u].object # Null => InVoice(u)
  BY <1>2 DEF InVoice, Holding, Unlinked, PointAt
<1> QED BY <1>2, <1>3, <1>4, <1>5 DEF SlotAt

\* What is lent to u is in a voice of u that is ready, which nobody else changes.
LEMMA OthersLent ==
  ASSUME IInv, NEW t \in Threads, LeavesThreads(t), LeavesData(t), LeavesObjects(t),
         NEW u \in Others(t)
  PROVE  LentAt(u)'
<1>1. u \in Threads /\ u # t
  BY DEF Others
<1>2. LentAt(u) /\ PointAt(u)
  BY <1>1 DEF IInv, ThreadInv
<1>3. call'[u] = call[u] /\ at'[u] = at[u]
  BY DEF LeavesThreads
<1> SUFFICES ASSUME call[u].op = "set", at[u] \in Uncounted, dataIdentity'[call[u].object] # Null
             PROVE  "borrow" \in Uses /\ \E h \in Voices \X Keys : Lends(h, u)'
  BY <1>3 DEF LentAt
<1>4. call[u].object # Null
  BY <1>2 DEF PointAt, Uncounted, Unlinked
<1>5. dataIdentity[call[u].object] # Null
  BY <1>4 DEF LeavesObjects, Kept
<1>6. "borrow" \in Uses
  BY <1>2, <1>5 DEF LentAt
<1>7. PICK h \in Voices \X Keys : Lends(h, u)
  BY <1>2, <1>5 DEF LentAt
<1>8. state[h[1]] = "ready" /\ owner[h[1]] = u /\ h[1] \in Voices
  BY <1>7 DEF Lends
<1>9. state'[h[1]] = "ready" /\ owner'[h[1]] = u
  BY <1>1, <1>8 DEF LeavesThreads
<1>10. Held(h)' = Held(h)
  <2>1. PointAt(t) /\ StateAt(t)
    BY DEF IInv, ThreadInv
  <2>2. ~(InVoice(t) /\ h[1] = call[t].voice /\ call[t].op # "synth")
    BY <1>1, <1>6, <1>8, <2>1, CallType
    DEF StateAt, PointAt, InVoice, Holding, Operations, IInv
  <2> QED BY <2>2 DEF LeavesData
<1> QED BY <1>3, <1>6, <1>7, <1>9, <1>10 DEF Lends, Held

\* What every step keeps of the other threads.
LEMMA OthersKeep ==
  ASSUME IInv, NEW t \in Threads, LeavesThreads(t), LeavesData(t), LeavesObjects(t)
  PROVE  \A u \in Others(t) : ThreadInv(u)'
<1> SUFFICES ASSUME NEW u \in Others(t) PROVE ThreadInv(u)'
  OBVIOUS
<1>1. u \in Threads /\ AliveAt(u) /\ AnswerAt(u) /\ PointAt(u)
  BY DEF Others, IInv, ThreadInv
<1>2. call'[u] = call[u] /\ at'[u] = at[u]
  BY DEF LeavesThreads
<1>3. AliveAt(u)'
  BY <1>1, <1>2 DEF AliveAt, LeavesObjects, Kept
<1>4. AnswerAt(u)'
  <2>1. at[u] = "place" => call[u].object # Null
    BY <1>1, CallType DEF PointAt, IInv, Operations, Unlinked
  <2>2. at[u] \in {"unload", "dispose"} => call[u].old # Null
    BY <1>1 DEF PointAt, Unlinked
  <2> QED BY <1>1, <1>2, <2>1, <2>2 DEF AnswerAt, LeavesObjects, Kept
<1> QED BY <1>3, <1>4, OthersPoint, OthersSlot, OthersLent DEF ThreadInv

\* The mutexes: t takes and releases its own only.
LockSteps(t) ==
  \A v \in Voices : /\ lock'[v] = t => at'[t] \in Holding /\ call'[t].voice = v
                    /\ lock'[v] \in {lock[v], t, Null}

LEMMA LocksKeep ==
  ASSUME IInv, NEW t \in Threads, LeavesThreads(t), LockSteps(t)
  PROVE  LockHeld'
<1> SUFFICES ASSUME NEW v \in Voices, lock'[v] # Null
             PROVE  at'[lock'[v]] \in Holding /\ call'[lock'[v]].voice = v
  BY DEF LockHeld
<1>1. CASE lock'[v] = t
  BY <1>1 DEF LockSteps
<1>2. CASE lock'[v] # t
  <2>1. lock'[v] = lock[v] /\ lock[v] # Null
    BY <1>2 DEF LockSteps
  <2>2. lock[v] \in Others(t) /\ at[lock[v]] \in Holding /\ call[lock[v]].voice = v
    BY <1>2, <2>1 DEF IInv, LockHeld, TypeOK, Others
  <2> QED BY <2>1, <2>2 DEF LeavesThreads
<1> QED BY <1>1, <1>2

\* A step of t that changes neither the maps nor the cache nor any object, and
\* takes nothing into its hands that is not the cache's.
Quiet(t) ==
  /\ data' = data /\ dataTypes' = dataTypes /\ entryRef' = entryRef
  /\ dataIdentity' = dataIdentity /\ alive' = alive /\ objectRef' = objectRef
  /\ \A o \in Objects : Claims(t, o)' <=> Claims(t, o)
  /\ \A o \in Objects : dataIdentity[o] = Null =>
       (Sets(t, o)' => Sets(t, o)) /\ (call'[t].old = o => call[t].old = o)
  /\ \A o \in Objects : o \in {call[t].object, call[t].old} =>
       o \in {call'[t].object, call'[t].old} \/ \E h \in Voices \X Keys : Held(h) = o

LEMMA QuietKeeps ==
  ASSUME IInv, NEW t \in Threads, LeavesThreads(t), Quiet(t)
  PROVE  /\ LeavesData(t) /\ LeavesObjects(t)
         /\ AliveInv' /\ PlainInv' /\ CacheAgrees' /\ CountInv' /\ NoLeak'
<1>1. \A u \in Others(t) : u \in Threads /\ u # t /\ call'[u] = call[u] /\ at'[u] = at[u]
  BY DEF Others, LeavesThreads
<1>2. LeavesData(t)
  BY DEF Quiet, LeavesData, Held
<1>3. LeavesObjects(t)
  BY <1>1 DEF Quiet, LeavesObjects, Kept, IInv, ThreadInv, AliveAt
<1>4. AliveInv' /\ CacheAgrees'
  BY DEF Quiet, IInv, AliveInv, CacheAgrees
<1>5. PlainInv'
  <2> SUFFICES ASSUME NEW o \in Objects, dataIdentity[o] = Null
               PROVE
    /\ \A g, h \in Voices \X Keys : data[g[1]][g[2]] = o /\ data[h[1]][h[2]] = o => g = h
    /\ \A h \in Voices \X Keys, u \in Threads :
         data[h[1]][h[2]] = o => ~Sets(u, o)' /\ call'[u].old # o
    /\ \A r, u \in Threads : Sets(r, o)' => call'[u].old # o /\ (Sets(u, o)' => r = u)
    /\ \A r, u \in Threads : call'[r].old = o /\ call'[u].old = o => r = u
    BY DEF PlainInv, Quiet
  <2>1. \A u \in Threads : (Sets(u, o)' => Sets(u, o)) /\ (call'[u].old = o => call[u].old = o)
    BY <1>1 DEF Quiet, Sets, Others
  <2>2. /\ \A g, h \in Voices \X Keys : data[g[1]][g[2]] = o /\ data[h[1]][h[2]] = o => g = h
        /\ \A h \in Voices \X Keys, u \in Threads :
             data[h[1]][h[2]] = o => ~Sets(u, o) /\ call[u].old # o
        /\ \A r, u \in Threads : Sets(r, o) => call[u].old # o /\ (Sets(u, o) => r = u)
        /\ \A r, u \in Threads : call[r].old = o /\ call[u].old = o => r = u
    BY DEF IInv, PlainInv
  <2> QED BY <2>1, <2>2
<1>6. \A o \in Objects : HolderCount(o)' = HolderCount(o) /\ ClaimCount(o)' = ClaimCount(o)
  <2> SUFFICES ASSUME NEW o \in Objects
               PROVE  HolderCount(o)' = HolderCount(o) /\ ClaimCount(o)' = ClaimCount(o)
    OBVIOUS
  <2>1. Holders(o)' = Holders(o)
    BY DEF Holders, Quiet
  <2>2. \A u \in Threads : Claims(u, o)' <=> Claims(u, o)
    BY <1>1 DEF Claims, Others, Quiet
  <2>3. Claimers(o)' = Claimers(o)
    BY <2>2 DEF Claimers
  <2> QED BY <2>1, <2>3 DEF HolderCount, ClaimCount
<1>7. CountInv'
  <2>1. alive \subseteq Objects /\ \A p \in Paths : dataTypes[p] # Null => dataTypes[p] \in Objects
    BY DEF IInv, TypeOK
  <2>2. CountInv
    BY DEF IInv
  <2> QED BY <1>6, <2>1, <2>2 DEF Quiet, CountInv
<1>8. NoLeak'
  <2> SUFFICES ASSUME NEW o \in alive
               PROVE  Holders(o)' # {} \/ \E u \in Threads : o \in {call'[u].object, call'[u].old}
    BY DEF NoLeak, Quiet
  <2>1. o \in Objects /\ Holders(o)' = Holders(o)
    BY DEF IInv, TypeOK, Holders, Quiet
  <2>2. CASE \E u \in Others(t) : o \in {call[u].object, call[u].old}
    BY <1>1, <2>2
  <2>3. CASE o \in {call[t].object, call[t].old}
    BY <2>1, <2>3 DEF Quiet, Holders, Held
  <2> QED BY <2>1, <2>2, <2>3 DEF IInv, NoLeak, Others
<1> QED BY <1>2, <1>3, <1>4, <1>5, <1>7, <1>8

LEMMA QuietStep ==
  ASSUME IInv, NEW t \in Threads, TypeOK', LeavesThreads(t), LockSteps(t), Quiet(t), ThreadInv(t)'
  PROVE  IInv'
<1>1. \A u \in Others(t) : ThreadInv(u)'
  BY QuietKeeps, OthersKeep
<1>2. \A u \in Threads : ThreadInv(u)'
  BY <1>1 DEF Others
<1> QED BY <1>2, QuietKeeps, LocksKeep DEF IInv

-----------------------------------------------------------------------------
(* How a step changes the calls.                                               *)

ThreadTypes == call \in [Threads -> Call] /\ at \in [Threads -> Points]

OthersSame(t) == \A u \in Others(t) : call'[u] = call[u] /\ at'[u] = at[u]

LEMMA StartEffect ==
  ASSUME TypeOK, NEW t \in Threads, NEW op \in Operations, NEW v \in Voices, NEW k \in Keys,
         NEW o \in Objects \cup {Null}, NEW p \in Points, Start(t, op, v, k, o, p)
  PROVE  /\ ThreadTypes' /\ OthersSame(t) /\ at[t] = "idle" /\ at'[t] = p
         /\ call'[t].op = op /\ call'[t].voice = v /\ call'[t].key = k
         /\ call'[t].object = o /\ call'[t].old = Null
<1>1. at' = [at EXCEPT ![t] = p] /\ at[t] = "idle"
  BY DEF Start, Goto
<1> DEFINE c == [op |-> op, voice |-> v, key |-> k, object |-> o, old |-> Null]
<1>2. call' = [call EXCEPT ![t] = c]
  BY DEF Start
<1>3. c \in Call /\ c.op = op /\ c.voice = v /\ c.key = k /\ c.object = o /\ c.old = Null
  BY DEF Call
<1> HIDE DEF c
<1> QED BY <1>1, <1>2, <1>3 DEF TypeOK, ThreadTypes, OthersSame, Others

LEMMA FinishEffect ==
  ASSUME TypeOK, NEW t \in Threads, Finish(t)
  PROVE  /\ ThreadTypes' /\ OthersSame(t) /\ at'[t] = "idle"
         /\ call'[t].op = "none" /\ call'[t].object = Null /\ call'[t].old = Null
<1>1. at' = [at EXCEPT ![t] = "idle"] /\ call' = [call EXCEPT ![t] = NoCall]
  BY DEF Finish, Goto
<1>2. NoCall \in Call /\ NoCall.op = "none" /\ NoCall.object = Null /\ NoCall.old = Null
  BY SomeAssumption DEF NoCall, Call, SomeKey, Operations
<1> QED BY <1>1, <1>2 DEF TypeOK, ThreadTypes, OthersSame, Others, Points

LEMMA GotoEffect ==
  ASSUME TypeOK, NEW t \in Threads, NEW p \in Points, Goto(t, p)
  PROVE  /\ at' \in [Threads -> Points] /\ at'[t] = p
         /\ \A u \in Others(t) : at'[u] = at[u]
BY DEF TypeOK, Goto, Others

\* A call that is where no object counts it.
LEMMA NoClaim ==
  ASSUME NEW t, at[t] \notin {"place", "put"} \cup Unlinked
  PROVE  \A o : ~Claims(t, o)
BY DEF Claims, Unlinked

-----------------------------------------------------------------------------
(* The steps that change no data.                                              *)

LEMMA LoadVoiceKeeps ==
  ASSUME IInv, NEW t \in Threads, NEW v \in Voices, LoadVoice(t, v)
  PROVE  IInv'
<1>1. /\ ThreadTypes' /\ OthersSame(t) /\ at[t] = "idle" /\ at'[t] = "load"
      /\ call'[t].op = "load" /\ call'[t].voice = v /\ call'[t].key = SomeKey
      /\ call'[t].object = Null /\ call'[t].old = Null
  <2>1. TypeOK /\ Start(t, "load", v, SomeKey, Null, "load")
    BY Zenon DEF LoadVoice, IInv
  <2>2. "load" \in Operations /\ "load" \in Points /\ SomeKey \in Keys
    BY SomeAssumption DEF Operations, Points, SomeKey
  <2> QED BY <2>1, <2>2, StartEffect
<1>2. /\ state[v] = "absent" /\ state' = [state EXCEPT ![v] = "loading"]
      /\ owner' = [owner EXCEPT ![v] = t] /\ lock' = lock /\ data' = data
      /\ dataTypes' = dataTypes /\ entryRef' = entryRef /\ dataIdentity' = dataIdentity
      /\ alive' = alive /\ objectRef' = objectRef
  BY Zenon DEF LoadVoice, cache, objects
<1>3. ThreadInv(t) /\ call[t].op = "none" /\ call[t].object = Null /\ call[t].old = Null
  BY <1>1 DEF IInv, ThreadInv, PointAt, Unlinked
<1>4. TypeOK'
  BY <1>1, <1>2 DEF IInv, TypeOK, ThreadTypes
<1>5. LeavesThreads(t)
  <2>1. \A u \in Others(t) : call[u].op # "none" => call[u].voice # v
    BY <1>2, CallType DEF IInv, ThreadInv, StateAt, Others, Operations
  <2> QED BY <1>1, <1>2, <2>1, CallType DEF IInv, TypeOK, LeavesThreads, OthersSame, Others
<1>6. LockSteps(t)
  BY <1>1, <1>2, <1>3, NullAssumption DEF IInv, LockHeld, LockSteps, Holding
<1>7. Quiet(t)
  BY <1>1, <1>2, <1>3, NullAssumption DEF Quiet, Claims, Sets
<1>8. ThreadInv(t)'
  BY <1>1, <1>2, <1>3, <1>4
  DEF ThreadInv, PointAt, LockAt, StateAt, SlotAt, AliveAt, AnswerAt, LentAt, Unlinked,
      Holding, TypeOK
<1> QED BY <1>4, <1>5, <1>6, <1>7, <1>8, QuietStep

\* A call begins, and changes nothing but the thread.
Begins(t, v) ==
  /\ call[t].op = "none" /\ call'[t].voice = v /\ state[v] = "ready"
  /\ call'[t].old = Null /\ at'[t] = "lock"
  /\ call'[t].op \in {"synth", "delete"} => call'[t].object = Null
  /\ call'[t].op = "set" => call'[t].object # Null

LEMMA BeginKeeps ==
  ASSUME IInv, NEW t \in Threads, NEW v \in Voices, Begins(t, v), at[t] = "idle",
         ThreadTypes', OthersSame(t), UNCHANGED <<cache, objects, voices>>,
         call'[t].op \in {"synth", "delete", "set"},
         call'[t].op \in {"set", "delete"} => MayChange(t, v),
         call'[t].object \in alive \cup {Null},
         call'[t].op = "set" =>
           /\ dataIdentity[call'[t].object] # Null /\ "borrow" \in Uses
           /\ \E h \in Voices \X Keys : Lends(h, t)'
  PROVE  IInv'
<1>1. /\ lock' = lock /\ state' = state /\ owner' = owner /\ data' = data
      /\ dataTypes' = dataTypes /\ entryRef' = entryRef /\ dataIdentity' = dataIdentity
      /\ alive' = alive /\ objectRef' = objectRef
  BY Zenon DEF cache, objects, voices
<1>2. ThreadInv(t) /\ call[t].object = Null /\ call[t].old = Null
  BY DEF IInv, ThreadInv, PointAt, Unlinked
<1>3. TypeOK'
  BY <1>1 DEF IInv, TypeOK, ThreadTypes
<1>4. LeavesThreads(t)
  BY <1>1 DEF LeavesThreads, OthersSame
<1>5. LockSteps(t)
  BY <1>1, <1>2, NullAssumption DEF IInv, LockHeld, LockSteps, Holding
<1>6. Quiet(t)
  BY <1>1, <1>2, NullAssumption DEF Quiet, Claims, Sets, Begins
<1>7. ThreadInv(t)'
  <2>1. /\ PointAt(t)' /\ LockAt(t)' /\ AnswerAt(t)'
    BY DEF Begins, PointAt, LockAt, AnswerAt, Unlinked, Holding
  <2>2. StateAt(t)'
    BY <1>1 DEF Begins, StateAt, MayChange
  <2>3. SlotAt(t)' /\ AliveAt(t)'
    BY <1>1 DEF Begins, SlotAt, AliveAt, Unlinked
  <2>4. LentAt(t)'
    BY <1>1 DEF LentAt
  <2> QED BY <2>1, <2>2, <2>3, <2>4 DEF ThreadInv
<1> QED BY <1>3, <1>4, <1>5, <1>6, <1>7, QuietStep

LEMMA SynthUttKeeps ==
  ASSUME IInv, NEW t \in Threads, NEW v \in Voices, SynthUtt(t, v)
  PROVE  IInv'
<1>1. /\ ThreadTypes' /\ OthersSame(t) /\ at[t] = "idle" /\ at'[t] = "lock"
      /\ call'[t].op = "synth" /\ call'[t].voice = v /\ call'[t].key = SomeKey
      /\ call'[t].object = Null /\ call'[t].old = Null
  BY StartEffect, SomeAssumption DEF SynthUtt, IInv, Operations, Points, SomeKey
<1>2. call[t].op = "none"
  BY <1>1 DEF IInv, ThreadInv, PointAt
<1>3. Begins(t, v)
  BY <1>1, <1>2 DEF Begins, SynthUtt
<1> QED BY <1>1, <1>3, BeginKeeps DEF SynthUtt

LEMMA DelDataKeeps ==
  ASSUME IInv, NEW t \in Threads, NEW v \in Voices, NEW k \in Keys, DelData(t, v, k)
  PROVE  IInv'
<1>1. /\ ThreadTypes' /\ OthersSame(t) /\ at[t] = "idle" /\ at'[t] = "lock"
      /\ call'[t].op = "delete" /\ call'[t].voice = v /\ call'[t].key = k
      /\ call'[t].object = Null /\ call'[t].old = Null
  BY StartEffect DEF DelData, IInv, Operations, Points
<1>2. call[t].op = "none"
  BY <1>1 DEF IInv, ThreadInv, PointAt
<1>3. Begins(t, v)
  BY <1>1, <1>2 DEF Begins, DelData, MayChange
<1> QED BY <1>1, <1>3, BeginKeeps DEF DelData

\* Of the uses of SVoiceSetData, "borrow" alone sets objects of the cache only, which
\* another voice or key of the thread holds.
LEMMA SetHeldKeeps ==
  ASSUME Careful, IInv, NEW t \in Threads, NEW v \in Voices, NEW k \in Keys,
         NEW o \in Objects, SetHeld(t, v, k, o)
  PROVE  IInv'
<1>1. /\ ThreadTypes' /\ OthersSame(t) /\ at[t] = "idle" /\ at'[t] = "lock"
      /\ call'[t].op = "set" /\ call'[t].voice = v /\ call'[t].key = k
      /\ call'[t].object = o /\ call'[t].old = Null
  BY StartEffect DEF SetHeld, IInv, Operations, Points
<1>2. call[t].op = "none"
  BY <1>1 DEF IInv, ThreadInv, PointAt
<1>3. Begins(t, v)
  BY <1>1, <1>2, NullAssumption DEF Begins, SetHeld, MayChange
<1>4. data[v][k] # o /\ dataIdentity[o] # Null /\ "borrow" \in Uses
  BY DEF SetHeld, Settable, Careful
<1>5. PICK h \in Holders(o) : h[1] \in Mine(t)
  BY DEF SetHeld, Settable
<1>6. h \in Voices \X Keys /\ data[h[1]][h[2]] = o /\ state[h[1]] = "ready" /\ owner[h[1]] = t
  BY <1>5 DEF Holders, Mine
<1>7. data' = data /\ state' = state /\ owner' = owner
  BY Zenon DEF SetHeld, voices
<1>8. Lends(h, t)'
  BY <1>1, <1>4, <1>6, <1>7 DEF Lends
<1>9. o \in alive
  BY <1>6, NullAssumption DEF IInv, AliveInv
<1> QED BY <1>1, <1>3, <1>4, <1>6, <1>8, <1>9, BeginKeeps DEF SetHeld

LEMMA DeleteVoiceKeeps ==
  ASSUME IInv, NEW t \in Threads, NEW v \in Voices, DeleteVoice(t, v)
  PROVE  IInv'
<1>1. /\ ThreadTypes' /\ OthersSame(t) /\ at[t] = "idle" /\ at'[t] = "lock"
      /\ call'[t].op = "destroy" /\ call'[t].voice = v /\ call'[t].key = SomeKey
      /\ call'[t].object = Null /\ call'[t].old = Null
  BY StartEffect, SomeAssumption DEF DeleteVoice, IInv, Operations, Points, SomeKey
<1>2. /\ state[v] = "ready" /\ owner[v] = t /\ state' = [state EXCEPT ![v] = "leaving"]
      /\ owner' = owner /\ lock' = lock /\ data' = data
      /\ dataTypes' = dataTypes /\ entryRef' = entryRef /\ dataIdentity' = dataIdentity
      /\ alive' = alive /\ objectRef' = objectRef
  BY Zenon DEF DeleteVoice, cache, objects, Mine
<1>3. ThreadInv(t) /\ call[t].op = "none" /\ call[t].object = Null /\ call[t].old = Null
  BY <1>1 DEF IInv, ThreadInv, PointAt, Unlinked
<1>4. TypeOK'
  BY <1>1, <1>2 DEF IInv, TypeOK, ThreadTypes
<1>5. LeavesThreads(t)
  <2>1. \A u \in Others(t) : call[u].op # "none" => call[u].voice # v
    BY DEF DeleteVoice, IInv, ThreadInv, PointAt, Others
  <2> QED BY <1>1, <1>2, <2>1, CallType DEF IInv, TypeOK, LeavesThreads, OthersSame, Others
<1>6. LockSteps(t)
  BY <1>1, <1>2, <1>3, NullAssumption DEF IInv, LockHeld, LockSteps, Holding
<1>7. Quiet(t)
  BY <1>1, <1>2, <1>3, NullAssumption DEF Quiet, Claims, Sets
<1>8. ThreadInv(t)'
  BY <1>1, <1>2, <1>3, <1>4
  DEF ThreadInv, PointAt, LockAt, StateAt, SlotAt, AliveAt, AnswerAt, LentAt, Unlinked,
      Holding, TypeOK
<1> QED BY <1>4, <1>5, <1>6, <1>7, <1>8, QuietStep

LEMMA VoiceLoadedKeeps ==
  ASSUME IInv, NEW t \in Threads, VoiceLoaded(t)
  PROVE  IInv'
<1>1. /\ ThreadTypes' /\ OthersSame(t) /\ at'[t] = "idle"
      /\ call'[t].op = "none" /\ call'[t].object = Null /\ call'[t].old = Null
  BY FinishEffect DEF VoiceLoaded, IInv
<1>2. /\ at[t] = "load" /\ state' = [state EXCEPT ![call[t].voice] = "ready"]
      /\ owner' = owner /\ lock' = lock /\ data' = data
      /\ dataTypes' = dataTypes /\ entryRef' = entryRef /\ dataIdentity' = dataIdentity
      /\ alive' = alive /\ objectRef' = objectRef
  BY Zenon DEF VoiceLoaded, cache, objects
<1>3. /\ ThreadInv(t) /\ call[t].op = "load" /\ call[t].object = Null /\ call[t].old = Null
      /\ state[call[t].voice] = "loading" /\ owner[call[t].voice] = t /\ call[t].voice \in Voices
  BY <1>2, CallType DEF IInv, ThreadInv, PointAt, StateAt, Unlinked, Operations
<1>4. TypeOK'
  BY <1>1, <1>2 DEF IInv, TypeOK, ThreadTypes
<1>5. LeavesThreads(t)
  <2>1. \A u \in Others(t) : call[u].op # "none" => call[u].voice # call[t].voice
    BY <1>3, CallType DEF IInv, ThreadInv, StateAt, Others, Operations
  <2> QED BY <1>1, <1>2, <1>3, <2>1, CallType DEF IInv, TypeOK, LeavesThreads, OthersSame, Others
<1>6. LockSteps(t)
  BY <1>1, <1>2, <1>3, NullAssumption DEF IInv, LockHeld, LockSteps, Holding
<1>7. Quiet(t)
  BY <1>1, <1>2, <1>3, NullAssumption DEF Quiet, Claims, Sets
<1>8. ThreadInv(t)'
  BY <1>1, <1>2, <1>3, <1>4
  DEF ThreadInv, PointAt, LockAt, StateAt, SlotAt, AliveAt, AnswerAt, LentAt, Unlinked,
      Holding, TypeOK
<1> QED BY <1>4, <1>5, <1>6, <1>7, <1>8, QuietStep

LEMMA LoadFailsKeeps ==
  ASSUME IInv, NEW t \in Threads, LoadFails(t)
  PROVE  IInv'
<1>1. /\ at[t] = "load" /\ state' = [state EXCEPT ![call[t].voice] = "leaving"]
      /\ call' = [call EXCEPT ![t].op = "destroy"] /\ Goto(t, "lock")
      /\ owner' = owner /\ lock' = lock /\ data' = data
      /\ dataTypes' = dataTypes /\ entryRef' = entryRef /\ dataIdentity' = dataIdentity
      /\ alive' = alive /\ objectRef' = objectRef
  BY Zenon DEF LoadFails, cache, objects
<1>2. /\ ThreadTypes' /\ OthersSame(t) /\ at'[t] = "lock"
      /\ call'[t].op = "destroy" /\ call'[t].voice = call[t].voice /\ call'[t].key = call[t].key
      /\ call'[t].object = call[t].object /\ call'[t].old = call[t].old
  <2>1. /\ call' \in [Threads -> Call] /\ \A u \in Others(t) : call'[u] = call[u]
        /\ call'[t].op = "destroy" /\ call'[t].voice = call[t].voice /\ call'[t].key = call[t].key
        /\ call'[t].object = call[t].object /\ call'[t].old = call[t].old
    BY <1>1 DEF IInv, TypeOK, Call, Operations, Others
  <2> QED BY <1>1, <2>1, GotoEffect DEF IInv, ThreadTypes, OthersSame, Points
<1>3. /\ ThreadInv(t) /\ call[t].op = "load" /\ call[t].object = Null /\ call[t].old = Null
      /\ state[call[t].voice] = "loading" /\ owner[call[t].voice] = t /\ call[t].voice \in Voices
  BY <1>1, CallType DEF IInv, ThreadInv, PointAt, StateAt, Unlinked, Operations
<1>4. TypeOK'
  BY <1>1, <1>2 DEF IInv, TypeOK, ThreadTypes
<1>5. LeavesThreads(t)
  <2>1. \A u \in Others(t) : call[u].op # "none" => call[u].voice # call[t].voice
    BY <1>3, CallType DEF IInv, ThreadInv, StateAt, Others, Operations
  <2> QED BY <1>1, <1>2, <1>3, <2>1, CallType DEF IInv, TypeOK, LeavesThreads, OthersSame, Others
<1>6. LockSteps(t)
  BY <1>1, <1>2, <1>3, NullAssumption DEF IInv, LockHeld, LockSteps, Holding
<1>7. Quiet(t)
  BY <1>1, <1>2, <1>3, NullAssumption DEF Quiet, Claims, Sets
<1>8. ThreadInv(t)'
  BY <1>1, <1>2, <1>3, <1>4
  DEF ThreadInv, PointAt, LockAt, StateAt, SlotAt, AliveAt, AnswerAt, LentAt, Unlinked,
      Holding, TypeOK
<1> QED BY <1>4, <1>5, <1>6, <1>7, <1>8, QuietStep

\* A step that only moves on.
LEMMA MoveKeeps ==
  ASSUME IInv, NEW t \in Threads, NEW p \in Points, Goto(t, p),
         UNCHANGED <<cache, objects, voices, call>>, PointAt(t)', LockAt(t)',
         \A v \in Voices : lock[v] = t => p \in Holding /\ call[t].voice = v,
         \A o \in Objects : Claims(t, o)' <=> Claims(t, o),
         SlotAt(t)', AnswerAt(t)', LentAt(t)'
  PROVE  IInv'
<1>1. /\ lock' = lock /\ state' = state /\ owner' = owner /\ data' = data
      /\ dataTypes' = dataTypes /\ entryRef' = entryRef /\ dataIdentity' = dataIdentity
      /\ alive' = alive /\ objectRef' = objectRef /\ call' = call
  BY Zenon DEF cache, objects, voices
<1>2. ThreadTypes' /\ OthersSame(t) /\ at'[t] = p
  BY <1>1, GotoEffect DEF IInv, ThreadTypes, OthersSame, TypeOK
<1>3. ThreadInv(t) /\ TypeOK
  BY DEF IInv
<1>4. TypeOK'
  BY <1>1, <1>2, <1>3 DEF TypeOK, ThreadTypes
<1>5. LeavesThreads(t)
  BY <1>1, <1>2 DEF LeavesThreads, OthersSame
<1>6. LockSteps(t)
  BY <1>1, <1>2 DEF LockSteps
<1>7. Quiet(t)
  BY <1>1, <1>2 DEF Quiet, Sets
<1>8. ThreadInv(t)'
  BY <1>1, <1>3 DEF ThreadInv, StateAt, AliveAt
<1> QED BY <1>4, <1>5, <1>6, <1>7, <1>8, QuietStep

LEMMA AfterUnloadPoint ==
  ASSUME NEW t
  PROVE  /\ call[t].op = "set" => AfterUnload(t) = "count"
         /\ call[t].op = "delete" => AfterUnload(t) = "return"
         /\ call[t].op = "destroy" => AfterUnload(t) = "next"
BY DEF AfterUnload

LEMMA SynthesisedKeeps ==
  ASSUME IInv, NEW t \in Threads, Synthesised(t)
  PROVE  IInv'
<1>1. at[t] = "use" /\ Goto(t, "return") /\ UNCHANGED <<cache, objects, voices, call>>
  BY DEF Synthesised
<1>2. at'[t] = "return" /\ call' = call /\ lock' = lock /\ data' = data
      /\ dataIdentity' = dataIdentity
  BY <1>1, GotoEffect DEF IInv, Points, cache, voices
<1>3. ThreadInv(t) /\ call[t].op = "synth"
  BY <1>1, CallType DEF IInv, ThreadInv, PointAt, Unlinked, Operations
<1>4. PointAt(t)' /\ LockAt(t)' /\ SlotAt(t)' /\ AnswerAt(t)' /\ LentAt(t)'
  BY <1>1, <1>2, <1>3
  DEF ThreadInv, PointAt, LockAt, SlotAt, AnswerAt, LentAt, Unlinked, Holding, Slot
<1>5. \A o \in Objects : Claims(t, o)' <=> Claims(t, o)
  BY <1>1, <1>2 DEF Claims
<1>6. \A v \in Voices : lock[v] = t => "return" \in Holding /\ call[t].voice = v
  BY NullAssumption DEF IInv, LockHeld, Holding
<1> QED BY <1>1, <1>4, <1>5, <1>6, MoveKeeps DEF Points

\* The answer of the manager is that of its map.
LEMMA QueryKeeps ==
  ASSUME IInv, NEW t \in Threads, Query(t)
  PROVE  IInv'
<1>1. PICK p \in {"unload", "dispose"} :
        /\ p = "unload" <=> dataIdentity[call[t].old] # Null
        /\ Goto(t, p) /\ at[t] = "query" /\ UNCHANGED <<cache, objects, voices, call>>
  <2>1. CASE dataIdentity[call[t].old] # Null
    BY <2>1 DEF Query
  <2>2. CASE dataIdentity[call[t].old] = Null
    BY <2>2 DEF Query
  <2> QED BY <2>1, <2>2
<1>2. at'[t] = p /\ call' = call /\ lock' = lock /\ data' = data /\ state' = state
      /\ owner' = owner /\ dataIdentity' = dataIdentity /\ p \in Points
  BY <1>1, GotoEffect DEF IInv, Points, cache, voices
<1>3. ThreadInv(t)
  BY DEF IInv
<1>4. PointAt(t)' /\ LockAt(t)' /\ SlotAt(t)' /\ AnswerAt(t)'
  BY <1>1, <1>2, <1>3
  DEF ThreadInv, PointAt, LockAt, SlotAt, AnswerAt, Unlinked, Holding, Slot
<1>5. LentAt(t)'
  BY <1>1, <1>2, <1>3 DEF ThreadInv, LentAt, Uncounted, Unlinked, Lends
<1>6. \A o \in Objects : Claims(t, o)' <=> Claims(t, o)
  BY <1>1, <1>2 DEF Claims
<1>7. \A v \in Voices : lock[v] = t => p \in Holding /\ call[t].voice = v
  BY NullAssumption DEF IInv, LockHeld, Holding
<1> QED BY <1>1, <1>2, <1>4, <1>5, <1>6, <1>7, MoveKeeps

\* SVoiceSetData and SVoiceDelData where the voice has no such data.
ReplaceNone(t) ==
  /\ at[t] = "replace" /\ data[call[t].voice][call[t].key] = Null
  /\ Goto(t, AfterUnload(t)) /\ UNCHANGED <<cache, objects, voices, call>>

LEMMA ReplaceNoneKeeps ==
  ASSUME IInv, NEW t \in Threads, ReplaceNone(t)
  PROVE  IInv'
<1>1. ThreadInv(t) /\ call[t].op \in {"set", "delete"} /\ at[t] = "replace"
  BY CallType DEF ReplaceNone, IInv, ThreadInv, PointAt, Unlinked, Operations
<1>2. PICK p \in {"count", "return"} :
        /\ p = AfterUnload(t) /\ (p = "count" <=> call[t].op = "set")
  BY <1>1, AfterUnloadPoint
<1>3. Goto(t, p) /\ UNCHANGED <<cache, objects, voices, call>>
  BY <1>2 DEF ReplaceNone
<1>4. at'[t] = p /\ call' = call /\ lock' = lock /\ data' = data /\ state' = state
      /\ owner' = owner /\ dataIdentity' = dataIdentity /\ p \in Points
  BY <1>2, <1>3, GotoEffect DEF IInv, Points, cache, voices
<1>5. PointAt(t)' /\ LockAt(t)' /\ SlotAt(t)' /\ AnswerAt(t)'
  BY <1>1, <1>2, <1>4
  DEF ReplaceNone, ThreadInv, PointAt, LockAt, SlotAt, AnswerAt, Unlinked, Holding, Slot
<1>6. LentAt(t)'
  BY <1>1, <1>2, <1>4 DEF ThreadInv, LentAt, Uncounted, Unlinked, Lends
<1>7. \A o \in Objects : Claims(t, o)' <=> Claims(t, o)
  BY <1>1, <1>4 DEF Claims
<1>8. \A v \in Voices : lock[v] = t => p \in Holding /\ call[t].voice = v
  BY NullAssumption DEF IInv, LockHeld, Holding
<1> QED BY <1>3, <1>4, <1>5, <1>6, <1>7, <1>8, MoveKeeps

LEMMA LockKeeps ==
  ASSUME IInv, NEW t \in Threads, Lock(t)
  PROVE  IInv'
<1>1. /\ at[t] = "lock" /\ lock[call[t].voice] = Null
      /\ lock' = [lock EXCEPT ![call[t].voice] = t] /\ call' = call
      /\ state' = state /\ owner' = owner /\ data' = data
      /\ dataTypes' = dataTypes /\ entryRef' = entryRef /\ dataIdentity' = dataIdentity
      /\ alive' = alive /\ objectRef' = objectRef
  BY Zenon DEF Lock, cache, objects
<1>2. /\ ThreadInv(t) /\ call[t].voice \in Voices
      /\ call[t].op \in {"synth", "set", "delete", "destroy"}
  BY <1>1, CallType DEF IInv, ThreadInv, PointAt, Operations
<1>3. PICK p \in {"use", "replace", "next"} :
        /\ p = "use" <=> call[t].op = "synth"
        /\ p = "next" <=> call[t].op = "destroy"
        /\ Goto(t, p)
  <2>1. CASE call[t].op = "synth"
    BY <2>1 DEF Lock
  <2>2. CASE call[t].op \in {"set", "delete"}
    BY <2>2 DEF Lock
  <2>3. CASE call[t].op = "destroy"
    BY <2>3 DEF Lock
  <2> QED BY <1>2, <2>1, <2>2, <2>3
<1>4. ThreadTypes' /\ OthersSame(t) /\ at'[t] = p
  BY <1>1, <1>3, GotoEffect DEF IInv, ThreadTypes, OthersSame, Points, TypeOK
<1>5. TypeOK'
  BY <1>1, <1>4 DEF IInv, TypeOK, ThreadTypes
<1>6. LeavesThreads(t)
  BY <1>1, <1>2, <1>4 DEF IInv, TypeOK, LeavesThreads, OthersSame
<1>7. LockSteps(t)
  <2>1. \A v \in Voices : lock[v] # t
    BY <1>1, NullAssumption DEF IInv, LockHeld, Holding
  <2> QED BY <1>1, <1>2, <1>4, <2>1 DEF IInv, TypeOK, LockSteps, Holding
<1>8. Quiet(t)
  BY <1>1, <1>4 DEF Quiet, Sets, Claims
<1>9. ThreadInv(t)'
  <2>1. PointAt(t)' /\ SlotAt(t)' /\ AnswerAt(t)'
    BY <1>1, <1>2, <1>3, <1>4 DEF ThreadInv, PointAt, SlotAt, AnswerAt, Unlinked, Slot
  <2>2. StateAt(t)' /\ AliveAt(t)'
    BY <1>1, <1>2 DEF ThreadInv, StateAt, AliveAt
  <2>3. LentAt(t)'
    BY <1>1, <1>2, <1>3, <1>4 DEF ThreadInv, LentAt, Uncounted, Unlinked, Lends
  <2>4. LockAt(t)'
    BY <1>1, <1>2 DEF LockAt, IInv, TypeOK
  <2> QED BY <2>1, <2>2, <2>3, <2>4 DEF ThreadInv
<1> QED BY <1>5, <1>6, <1>7, <1>8, <1>9, QuietStep

\* A finished call leaves the mutex; what synthesis used is still in its place.
LEMMA ReturnKeeps ==
  ASSUME IInv, NEW t \in Threads, Return(t)
  PROVE  IInv'
<1>1. /\ at[t] = "return" /\ lock' = [lock EXCEPT ![call[t].voice] = Null]
      /\ state' = state /\ owner' = owner /\ data' = data
      /\ dataTypes' = dataTypes /\ entryRef' = entryRef /\ dataIdentity' = dataIdentity
      /\ alive' = alive /\ objectRef' = objectRef
  BY Zenon DEF Return, cache, objects
<1>2. /\ ThreadTypes' /\ OthersSame(t) /\ at'[t] = "idle"
      /\ call'[t].op = "none" /\ call'[t].object = Null /\ call'[t].old = Null
  BY FinishEffect DEF Return, IInv
<1>3. /\ ThreadInv(t) /\ call[t].voice \in Voices /\ call[t].key \in Keys
      /\ lock[call[t].voice] = t /\ call[t].old = Null
      /\ call[t].object # Null => Slot(t) = call[t].object
  BY <1>1, CallType
  DEF IInv, ThreadInv, PointAt, LockAt, SlotAt, Holding, Unlinked, Operations
<1>4. TypeOK'
  BY <1>1, <1>2 DEF IInv, TypeOK, ThreadTypes
<1>5. LeavesThreads(t)
  BY <1>1, <1>2, <1>3 DEF IInv, TypeOK, LeavesThreads, OthersSame
<1>6. LockSteps(t)
  <2>1. \A v \in Voices : lock[v] = t => call[t].voice = v
    BY NullAssumption DEF IInv, LockHeld
  <2> QED BY <1>1, <1>3, <2>1, NullAssumption DEF IInv, TypeOK, LockSteps
<1>7. Quiet(t)
  <2>1. \A o \in Objects : o = call[t].object => \E h \in Voices \X Keys : Held(h) = o
    <3>1. PICK h \in Voices \X Keys : h = <<call[t].voice, call[t].key>>
      BY <1>3
    <3>2. Slot(t) = Held(h)
      BY <3>1 DEF Slot, Held
    <3> QED BY <1>3, <3>2, NullAssumption
  <2> QED BY <1>1, <1>2, <1>3, <2>1, NullAssumption DEF Quiet, Sets, Claims
<1>8. ThreadInv(t)'
  BY <1>1, <1>2
  DEF ThreadInv, PointAt, LockAt, StateAt, SlotAt, AliveAt, AnswerAt, LentAt, Unlinked,
      Holding
<1> QED BY <1>4, <1>5, <1>6, <1>7, <1>8, QuietStep

LEMMA GetDataKeeps ==
  ASSUME IInv, NEW t \in Threads, NEW k \in Keys, GetData(t, k)
  PROVE  IInv'
<1>1. /\ at[t] = "use" /\ call[t].object = Null /\ data[call[t].voice][k] # Null
      /\ call' = [call EXCEPT ![t].key = k, ![t].object = data[call[t].voice][k]]
      /\ at' = at /\ lock' = lock /\ state' = state /\ owner' = owner /\ data' = data
      /\ dataTypes' = dataTypes /\ entryRef' = entryRef /\ dataIdentity' = dataIdentity
      /\ alive' = alive /\ objectRef' = objectRef
  BY Zenon DEF GetData, cache, objects, voices
<1>2. ThreadInv(t) /\ call[t].voice \in Voices /\ call[t].op = "synth" /\ call[t].old = Null
  BY <1>1, CallType DEF IInv, ThreadInv, PointAt, Unlinked, Operations
<1>3. PICK o \in Objects : o = data[call[t].voice][k] /\ o \in alive
  <2>1. PICK h \in Voices \X Keys : h = <<call[t].voice, k>>
    BY <1>2
  <2>2. data[h[1]][h[2]] \in alive \cup {Null}
    BY DEF IInv, AliveInv
  <2> QED BY <1>1, <2>1, <2>2 DEF IInv, TypeOK
<1>4. /\ ThreadTypes' /\ OthersSame(t) /\ call'[t].op = "synth"
      /\ call'[t].voice = call[t].voice /\ call'[t].key = k
      /\ call'[t].object = o /\ call'[t].old = Null
  BY <1>1, <1>2, <1>3 DEF IInv, TypeOK, Call, ThreadTypes, OthersSame, Others
<1>5. TypeOK'
  BY <1>1, <1>4 DEF IInv, TypeOK, ThreadTypes
<1>6. LeavesThreads(t)
  BY <1>1, <1>4 DEF LeavesThreads, OthersSame
<1>7. LockSteps(t)
  BY <1>1, <1>4, NullAssumption DEF IInv, LockHeld, LockSteps
<1>8. Quiet(t)
  BY <1>1, <1>2, <1>4, NullAssumption DEF Quiet, Sets, Claims
<1>9. ThreadInv(t)'
  <2>1. PointAt(t)' /\ LockAt(t)' /\ StateAt(t)' /\ AliveAt(t)' /\ AnswerAt(t)'
    BY <1>1, <1>2, <1>3, <1>4
    DEF ThreadInv, PointAt, LockAt, StateAt, AliveAt, AnswerAt, Unlinked, Holding
  <2>2. SlotAt(t)' /\ LentAt(t)'
    BY <1>1, <1>3, <1>4 DEF SlotAt, LentAt, Slot, Unlinked
  <2> QED BY <2>1, <2>2 DEF ThreadInv
<1> QED BY <1>5, <1>6, <1>7, <1>8, <1>9, QuietStep

LEMMA DestroyedKeeps ==
  ASSUME IInv, NEW t \in Threads, Destroyed(t)
  PROVE  IInv'
<1>1. /\ at[t] = "next" /\ state' = [state EXCEPT ![call[t].voice] = "absent"]
      /\ owner' = [owner EXCEPT ![call[t].voice] = Null]
      /\ lock' = [lock EXCEPT ![call[t].voice] = Null] /\ data' = data
      /\ dataTypes' = dataTypes /\ entryRef' = entryRef /\ dataIdentity' = dataIdentity
      /\ alive' = alive /\ objectRef' = objectRef
  BY Zenon DEF Destroyed, cache, objects
<1>2. /\ ThreadTypes' /\ OthersSame(t) /\ at'[t] = "idle"
      /\ call'[t].op = "none" /\ call'[t].object = Null /\ call'[t].old = Null
  BY FinishEffect DEF Destroyed, IInv
<1>3. /\ ThreadInv(t) /\ call[t].voice \in Voices /\ lock[call[t].voice] = t
      /\ call[t].op = "destroy" /\ call[t].object = Null /\ call[t].old = Null
      /\ state[call[t].voice] = "leaving" /\ owner[call[t].voice] = t
  BY <1>1, CallType
  DEF IInv, ThreadInv, PointAt, LockAt, StateAt, Holding, Unlinked, Operations
<1>4. TypeOK'
  BY <1>1, <1>2 DEF IInv, TypeOK, ThreadTypes
<1>5. LeavesThreads(t)
  <2>1. \A u \in Others(t) : call[u].op # "none" => call[u].voice # call[t].voice
    BY <1>3, CallType DEF IInv, ThreadInv, StateAt, Others, Operations
  <2> QED BY <1>1, <1>2, <1>3, <2>1, CallType DEF IInv, TypeOK, LeavesThreads, OthersSame, Others
<1>6. LockSteps(t)
  <2>1. \A v \in Voices : lock[v] = t => call[t].voice = v
    BY NullAssumption DEF IInv, LockHeld
  <2> QED BY <1>1, <1>3, <2>1, NullAssumption DEF IInv, TypeOK, LockSteps
<1>7. Quiet(t)
  BY <1>1, <1>2, <1>3, NullAssumption DEF Quiet, Sets, Claims
<1>8. ThreadInv(t)'
  BY <1>1, <1>2
  DEF ThreadInv, PointAt, LockAt, StateAt, SlotAt, AliveAt, AnswerAt, LentAt, Unlinked,
      Holding
<1> QED BY <1>4, <1>5, <1>6, <1>7, <1>8, QuietStep

-----------------------------------------------------------------------------
(* The steps that change the data, the cache or the objects.                   *)

LEMMA StepKeeps ==
  ASSUME IInv, NEW t \in Threads, TypeOK', LeavesThreads(t), LockSteps(t),
         LeavesData(t), LeavesObjects(t), ThreadInv(t)',
         AliveInv', PlainInv', CacheAgrees', CountInv', NoLeak'
  PROVE  IInv'
<1>1. \A u \in Others(t) : ThreadInv(u)'
  BY OthersKeep
<1>2. \A u \in Threads : ThreadInv(u)'
  BY <1>1 DEF Others
<1> QED BY <1>2, LocksKeep DEF IInv

\* Nobody has a pointer to an address that holds no object.
LEMMA Unknown ==
  ASSUME IInv, NEW o \in Objects, o \notin alive
  PROVE  /\ \A h \in Voices \X Keys : Held(h) # o
         /\ \A u \in Threads : call[u].object # o /\ call[u].old # o
         /\ \A p \in Paths : dataTypes[p] # o
         /\ dataIdentity[o] = Null
         /\ HolderCount(o) = 0 /\ ClaimCount(o) = 0
<1>1. o # Null
  BY NullAssumption
<1>2. /\ \A h \in Voices \X Keys : Held(h) # o
      /\ \A p \in Paths : dataTypes[p] # o
  BY <1>1 DEF IInv, AliveInv, Held
<1>3. \A u \in Threads : call[u].object # o /\ call[u].old # o
  BY <1>1 DEF IInv, ThreadInv, AliveAt
<1>4. dataIdentity[o] = Null
  BY <1>2 DEF IInv, CacheAgrees, TypeOK
<1>5. Holders(o) = {} /\ Claimers(o) = {}
  BY <1>2, <1>3 DEF Holders, Held, Claimers, Claims
<1> QED BY <1>2, <1>3, <1>4, <1>5, Counted

\* The counts when neither the maps nor the claims on o change.
LEMMA SameHolders ==
  ASSUME NEW o, data' = data
  PROVE  HolderCount(o)' = HolderCount(o)
BY DEF HolderCount, Holders

LEMMA SameClaims ==
  ASSUME NEW o, NEW t \in Threads, OthersSame(t), Claims(t, o)' <=> Claims(t, o)
  PROVE  ClaimCount(o)' = ClaimCount(o)
<1>1. \A u \in Threads : Claims(u, o)' <=> Claims(u, o)
  BY DEF OthersSame, Others, Claims
<1>2. Claimers(o)' = Claimers(o)
  BY <1>1 DEF Claimers
<1> QED BY <1>2 DEF ClaimCount

\* The claims of t on o when it goes on, in numbers.
LEMMA ClaimStep ==
  ASSUME NEW o, NEW t \in Threads, OthersSame(t)
  PROVE  ClaimCount(o)' = ClaimCount(o) + One(Claims(t, o)') - One(Claims(t, o))
<1>1. \A u \in Others(t) : Claims(u, o)' <=> Claims(u, o)
  BY DEF OthersSame, Claims
<1> QED BY <1>1, ClaimCounts

LEMMA SetNewKeeps ==
  ASSUME IInv, NEW t \in Threads, NEW v \in Voices, NEW k \in Keys, NEW o \in Objects,
         SetNew(t, v, k, o)
  PROVE  IInv'
<1>1. /\ ThreadTypes' /\ OthersSame(t) /\ at[t] = "idle" /\ at'[t] = "lock"
      /\ call'[t].op = "set" /\ call'[t].voice = v /\ call'[t].key = k
      /\ call'[t].object = o /\ call'[t].old = Null
  BY StartEffect DEF SetNew, IInv, Operations, Points
<1>2. /\ o \notin alive /\ alive' = alive \cup {o} /\ objectRef' = [objectRef EXCEPT ![o] = 0]
      /\ lock' = lock /\ state' = state /\ owner' = owner /\ data' = data
      /\ dataTypes' = dataTypes /\ entryRef' = entryRef /\ dataIdentity' = dataIdentity
  BY Zenon DEF SetNew, New, cache, voices
<1>3. ThreadInv(t) /\ call[t].op = "none" /\ call[t].object = Null /\ call[t].old = Null
  BY <1>1 DEF IInv, ThreadInv, PointAt, Unlinked
<1>4. o # Null
  BY NullAssumption
<1>5. TypeOK'
  BY <1>1, <1>2 DEF IInv, TypeOK, ThreadTypes
<1>6. LeavesThreads(t)
  BY <1>1, <1>2 DEF LeavesThreads, OthersSame
<1>7. LockSteps(t)
  BY <1>1, <1>2, NullAssumption DEF IInv, LockHeld, LockSteps, Holding
<1>8. LeavesData(t) /\ LeavesObjects(t)
  BY <1>2 DEF LeavesData, Held, LeavesObjects, Kept, IInv, ThreadInv, AliveAt, Others
<1>9. ThreadInv(t)'
  <2>1. PointAt(t)' /\ LockAt(t)' /\ SlotAt(t)' /\ AliveAt(t)' /\ AnswerAt(t)'
    BY <1>1, <1>2, <1>4
    DEF PointAt, LockAt, SlotAt, AliveAt, AnswerAt, Unlinked, Holding
  <2>2. StateAt(t)'
    BY <1>1, <1>2 DEF SetNew, MayChange, StateAt
  <2>3. LentAt(t)'
    BY <1>1, <1>2, Unknown DEF LentAt
  <2> QED BY <2>1, <2>2, <2>3 DEF ThreadInv
<1>10. AliveInv' /\ CacheAgrees'
  BY <1>2 DEF IInv, AliveInv, CacheAgrees
<1>11. PlainInv'
  <2>1. \A u \in Threads : \A a \in Objects : Sets(u, a)' => Sets(u, a) \/ (u = t /\ a = o)
    BY <1>1 DEF OthersSame, Others, Sets
  <2>2. \A u \in Threads : \A a \in Objects : call'[u].old = a => call[u].old = a
    BY <1>1, <1>3 DEF OthersSame, Others
  <2>3. /\ \A h \in Voices \X Keys : data[h[1]][h[2]] # o
        /\ \A u \in Threads : call[u].object # o /\ call[u].old # o
    BY <1>2, Unknown DEF Held
  <2>4. \A u \in Threads : ~Sets(u, o)
    BY <2>3 DEF Sets
  <2> QED BY <1>2, <2>1, <2>2, <2>3, <2>4 DEF IInv, PlainInv
<1>12. \A a \in Objects : HolderCount(a)' = HolderCount(a) /\ ClaimCount(a)' = ClaimCount(a)
  <2>1. \A a \in Objects : Claims(t, a)' <=> Claims(t, a)
    BY <1>1 DEF Claims
  <2> QED BY <1>1, <1>2, <2>1, SameHolders, SameClaims
<1>13. CountInv'
  <2>1. alive \subseteq Objects /\ \A p \in Paths : dataTypes[p] # Null => dataTypes[p] \in Objects
    BY DEF IInv, TypeOK
  <2>2. \A a \in alive' : objectRef'[a] = HolderCount(a)
    BY <1>2, <2>1, Unknown DEF IInv, CountInv, TypeOK
  <2>3. CountInv
    BY DEF IInv
  <2> QED BY <1>2, <1>12, <2>1, <2>2, <2>3 DEF CountInv
<1>14. NoLeak'
  <2>1. \A a \in alive : Holders(a) # {} \/ \E u \in Others(t) : a \in {call[u].object, call[u].old}
    BY <1>3, NullAssumption DEF IInv, NoLeak, Others, TypeOK
  <2>2. \A a : Holders(a)' = Holders(a)
    BY <1>2 DEF Holders
  <2>3. \A u \in Others(t) : u \in Threads /\ call'[u] = call[u]
    BY <1>1 DEF Others, OthersSame
  <2> QED BY <1>1, <1>2, <2>1, <2>2, <2>3 DEF NoLeak
<1> QED BY <1>5, <1>6, <1>7, <1>8, <1>9, <1>10, <1>11, <1>13, <1>14, StepKeeps

\* load_data, up to the place in the map: the object is in the cache, and t has
\* counted itself.
LEMMA ToPlace ==
  ASSUME IInv, NEW t \in Threads, NEW k \in Missing(call[t].voice), NEW o \in Objects,
         at[t] = "load", Goto(t, "place"), UNCHANGED voices,
         call' = [call EXCEPT ![t].key = k, ![t].object = o],
         o \in alive', dataIdentity'[o] # Null
  PROVE  /\ ThreadTypes' /\ OthersSame(t) /\ at'[t] = "place"
         /\ call[t].object = Null /\ call[t].old = Null
         /\ call'[t].op = "load" /\ call'[t].object = o /\ call'[t].old = Null
         /\ LeavesThreads(t) /\ LockSteps(t) /\ LeavesData(t) /\ ThreadInv(t)'
<1>1. /\ at[t] = "load" /\ lock' = lock /\ state' = state /\ owner' = owner /\ data' = data
  BY Zenon DEF voices
<1>2. /\ ThreadInv(t) /\ call[t].op = "load" /\ call[t].object = Null /\ call[t].old = Null
      /\ call[t].voice \in Voices
  BY <1>1, CallType, NullAssumption DEF IInv, ThreadInv, PointAt, Unlinked, Operations
<1>3. k \in Keys /\ data[call[t].voice][k] = Null
  BY DEF Missing
<1>4. /\ ThreadTypes' /\ OthersSame(t) /\ at'[t] = "place" /\ call'[t].op = "load"
      /\ call'[t].voice = call[t].voice /\ call'[t].key = k
      /\ call'[t].object = o /\ call'[t].old = Null
  <2>1. /\ call' \in [Threads -> Call] /\ \A u \in Others(t) : call'[u] = call[u]
        /\ call'[t].op = "load" /\ call'[t].voice = call[t].voice /\ call'[t].key = k
        /\ call'[t].object = o /\ call'[t].old = Null
    BY <1>2, <1>3 DEF IInv, TypeOK, Call, Others
  <2> QED BY <2>1, GotoEffect DEF IInv, ThreadTypes, OthersSame, Points
<1>5. LeavesThreads(t) /\ LockSteps(t)
  BY <1>1, <1>4, NullAssumption
  DEF LeavesThreads, OthersSame, IInv, LockHeld, LockSteps, Holding
<1>6. LeavesData(t)
  BY <1>1 DEF LeavesData, Held
<1>7. ThreadInv(t)'
  <2>1. PointAt(t)' /\ LockAt(t)' /\ StateAt(t)' /\ AliveAt(t)' /\ AnswerAt(t)'
    BY <1>1, <1>2, <1>4, NullAssumption
    DEF ThreadInv, PointAt, LockAt, StateAt, AliveAt, AnswerAt, Unlinked, Holding
  <2>2. SlotAt(t)' /\ LentAt(t)'
    BY <1>1, <1>3, <1>4 DEF SlotAt, LentAt, Slot, Unlinked
  <2> QED BY <2>1, <2>2 DEF ThreadInv
<1> QED BY <1>2, <1>4, <1>5, <1>6, <1>7

\* Nobody takes an object that is not the cache's into its hands.
LEMMA PlainStep ==
  ASSUME IInv, NEW t \in Threads, OthersSame(t), data' = data,
         \A o \in Objects : dataIdentity'[o] = Null => dataIdentity[o] = Null,
         call'[t].op # "set", call'[t].old = Null
  PROVE  PlainInv'
<1> SUFFICES ASSUME NEW o \in Objects, dataIdentity[o] = Null
             PROVE
  /\ \A g, h \in Voices \X Keys : data[g[1]][g[2]] = o /\ data[h[1]][h[2]] = o => g = h
  /\ \A h \in Voices \X Keys, u \in Threads :
       data[h[1]][h[2]] = o => ~Sets(u, o)' /\ call'[u].old # o
  /\ \A r, u \in Threads : Sets(r, o)' => call'[u].old # o /\ (Sets(u, o)' => r = u)
  /\ \A r, u \in Threads : call'[r].old = o /\ call'[u].old = o => r = u
  BY DEF PlainInv
<1>1. \A u \in Threads : (Sets(u, o)' => Sets(u, o)) /\ (call'[u].old = o => call[u].old = o)
  BY NullAssumption DEF OthersSame, Others, Sets
<1>2. /\ \A g, h \in Voices \X Keys : data[g[1]][g[2]] = o /\ data[h[1]][h[2]] = o => g = h
      /\ \A h \in Voices \X Keys, u \in Threads :
           data[h[1]][h[2]] = o => ~Sets(u, o) /\ call[u].old # o
      /\ \A r, u \in Threads : Sets(r, o) => call[u].old # o /\ (Sets(u, o) => r = u)
      /\ \A r, u \in Threads : call[r].old = o /\ call[u].old = o => r = u
  BY DEF IInv, PlainInv
<1> QED BY <1>1, <1>2

LEMMA ShareDataKeeps ==
  ASSUME IInv, NEW t \in Threads, NEW k \in Keys, ShareData(t, k)
  PROVE  IInv'
<1>1. PICK p \in Paths : p = Config[call[t].voice][k]
  BY CallType, ConfigAssumption DEF ShareData, Missing, IInv
<1>2. PICK o \in Objects : o = dataTypes[p]
  BY <1>1 DEF ShareData, IInv, TypeOK
<1>3. /\ at[t] = "load" /\ k \in Missing(call[t].voice)
      /\ entryRef' = [entryRef EXCEPT ![p] = @ + 1]
      /\ call' = [call EXCEPT ![t].key = k, ![t].object = o]
      /\ Goto(t, "place") /\ UNCHANGED voices /\ data' = data
      /\ dataTypes' = dataTypes /\ dataIdentity' = dataIdentity
      /\ alive' = alive /\ objectRef' = objectRef
  BY <1>1, <1>2, Zenon DEF ShareData, objects, voices
<1>4. o \in alive /\ dataIdentity[o] = p /\ o # Null /\ p # Null
  BY <1>2, NullAssumption DEF IInv, AliveInv, CacheAgrees
<1>5. /\ ThreadTypes' /\ OthersSame(t) /\ at'[t] = "place"
      /\ call[t].object = Null /\ call[t].old = Null
      /\ call'[t].op = "load" /\ call'[t].object = o /\ call'[t].old = Null
      /\ LeavesThreads(t) /\ LockSteps(t) /\ LeavesData(t) /\ ThreadInv(t)'
  BY <1>3, <1>4, ToPlace
<1>6. TypeOK'
  <2>1. entryRef' \in [Paths -> Nat]
    BY <1>3 DEF IInv, TypeOK
  <2>2. UNCHANGED <<state, owner, data, lock>>
    BY <1>3 DEF voices
  <2> QED BY <1>3, <1>5, <2>1, <2>2, Zenon DEF IInv, TypeOK, ThreadTypes
<1>7. LeavesObjects(t)
  BY <1>3 DEF LeavesObjects, Kept, IInv, ThreadInv, AliveAt, Others
<1>8. AliveInv' /\ CacheAgrees'
  BY <1>3 DEF IInv, AliveInv, CacheAgrees
<1>9. PlainInv'
  BY <1>3, <1>5, PlainStep
<1>10. CountInv'
  <2>1. alive \subseteq Objects /\ CountInv
    BY DEF IInv, TypeOK
  <2>2. \A a \in Objects : HolderCount(a)' = HolderCount(a)
    BY <1>3, SameHolders
  <2>3. \A a \in Objects : ClaimCount(a)' = ClaimCount(a) + One(a = o)
    <3>1. \A a \in Objects : ~Claims(t, a) /\ (Claims(t, a)' <=> a = o)
      BY <1>3, <1>5 DEF Claims
    <3>2. \A a \in Objects : ClaimCount(a) \in Nat
      BY Counted
    <3> QED BY <1>5, <3>1, <3>2, ClaimStep DEF One
  <2>4. \A q \in Paths : dataTypes[q] = o <=> q = p
    BY <1>2, <1>4 DEF IInv, CacheAgrees
  <2>5. \A q \in Paths : dataTypes[q] \in Objects \cup {Null} /\ entryRef[q] \in Nat
                         /\ entryRef'[q] = entryRef[q] + One(q = p)
    BY <1>3 DEF IInv, TypeOK, One
  <2>6. \A a \in Objects : HolderCount(a) \in Nat /\ ClaimCount(a) \in Nat
    BY Counted
  <2> QED BY <1>3, <1>4, <2>1, <2>2, <2>3, <2>4, <2>5, <2>6 DEF CountInv, One
<1>11. NoLeak'
  <2>1. \A a \in alive : Holders(a) # {} \/ \E u \in Others(t) : a \in {call[u].object, call[u].old}
    BY <1>5, NullAssumption DEF IInv, NoLeak, Others, TypeOK
  <2>2. \A a : Holders(a)' = Holders(a)
    BY <1>3 DEF Holders
  <2>3. \A u \in Others(t) : u \in Threads /\ call'[u] = call[u]
    BY <1>5 DEF Others, OthersSame
  <2> QED BY <1>3, <2>1, <2>2, <2>3 DEF NoLeak
<1> QED BY <1>5, <1>6, <1>7, <1>8, <1>9, <1>10, <1>11, StepKeeps

\* What is to be shown of the counts after a step.
LEMMA CountStep ==
  ASSUME dataTypes' \in [Paths -> Objects \cup {Null}],
         \A o \in alive' : objectRef'[o] = HolderCount(o)',
         \A p \in Paths, o \in Objects : dataTypes'[p] = o =>
           entryRef'[p] > 0 /\ entryRef'[p] = HolderCount(o)' + ClaimCount(o)',
         \A p \in Paths : dataTypes'[p] = Null => entryRef'[p] = 0
  PROVE  CountInv'
<1> SUFFICES ASSUME NEW p \in Paths, dataTypes'[p] # Null
             PROVE  /\ entryRef'[p] > 0
                    /\ entryRef'[p] = HolderCount(dataTypes[p])' + ClaimCount(dataTypes[p])'
  BY DEF CountInv
<1>1. PICK o \in Objects : o = dataTypes'[p]
  OBVIOUS
<1>2. HolderCount(dataTypes[p])' = HolderCount(o)' /\ ClaimCount(dataTypes[p])' = ClaimCount(o)'
  BY <1>1 DEF HolderCount, ClaimCount, Holders, Claimers, Claims
<1> QED BY <1>1, <1>2

LEMMA ReadDataKeeps ==
  ASSUME IInv, NEW t \in Threads, NEW k \in Keys, NEW o \in Objects, ReadData(t, k, o)
  PROVE  IInv'
<1>1. PICK p \in Paths : p = Config[call[t].voice][k]
  <2>1. k \in Missing(call[t].voice)
    BY DEF ReadData
  <2> QED BY <2>1, CallType, ConfigAssumption DEF Missing, IInv
<1>2. /\ at[t] = "load" /\ k \in Missing(call[t].voice) /\ dataTypes[p] = Null
      /\ o \notin alive /\ alive' = alive \cup {o} /\ objectRef' = [objectRef EXCEPT ![o] = 0]
      /\ dataTypes' = [dataTypes EXCEPT ![p] = o]
      /\ entryRef' = [entryRef EXCEPT ![p] = 1]
      /\ dataIdentity' = [dataIdentity EXCEPT ![o] = p]
      /\ call' = [call EXCEPT ![t].key = k, ![t].object = o]
      /\ Goto(t, "place") /\ UNCHANGED voices /\ data' = data
  BY <1>1, Zenon DEF ReadData, New, voices
<1>3. /\ \A h \in Voices \X Keys : Held(h) # o
      /\ \A u \in Threads : call[u].object # o /\ call[u].old # o
      /\ \A q \in Paths : dataTypes[q] # o
      /\ dataIdentity[o] = Null /\ HolderCount(o) = 0 /\ ClaimCount(o) = 0
  BY <1>2, Unknown
<1>4. o # Null /\ p # Null /\ o \in alive' /\ dataIdentity'[o] = p
  BY <1>2, NullAssumption DEF IInv, TypeOK
<1>5. /\ ThreadTypes' /\ OthersSame(t) /\ at'[t] = "place"
      /\ call[t].object = Null /\ call[t].old = Null
      /\ call'[t].op = "load" /\ call'[t].object = o /\ call'[t].old = Null
      /\ LeavesThreads(t) /\ LockSteps(t) /\ LeavesData(t) /\ ThreadInv(t)'
  BY <1>2, <1>4, ToPlace
<1>6. TypeOK'
  <2>1. /\ entryRef' \in [Paths -> Nat] /\ dataTypes' \in [Paths -> Objects \cup {Null}]
        /\ dataIdentity' \in [Objects -> Paths \cup {Null}]
        /\ alive' \subseteq Objects /\ objectRef' \in [Objects -> Nat]
    BY <1>2 DEF IInv, TypeOK
  <2>2. UNCHANGED <<state, owner, data, lock>>
    BY <1>2 DEF voices
  <2> QED BY <1>5, <2>1, <2>2, Zenon DEF IInv, TypeOK, ThreadTypes
<1>7. LeavesObjects(t)
  <2>1. \A a \in alive : a \in Objects /\ a # o => Kept(a)
    BY <1>2 DEF IInv, TypeOK, Kept
  <2> QED BY <1>3, <2>1 DEF LeavesObjects, IInv, TypeOK, ThreadInv, AliveAt, Others
<1>8. AliveInv'
  BY <1>2 DEF IInv, TypeOK, AliveInv
<1>9. CacheAgrees'
  <2>1. \A q \in Paths : dataTypes'[q] = IF q = p THEN o ELSE dataTypes[q]
    BY <1>2 DEF IInv, TypeOK
  <2>2. \A a \in Objects : dataIdentity'[a] = IF a = o THEN p ELSE dataIdentity[a]
    BY <1>2 DEF IInv, TypeOK
  <2>3. CacheAgrees /\ \A q \in Paths : dataTypes[q] # Null => dataTypes[q] \in Objects
    BY DEF IInv, TypeOK
  <2>4. \A a \in Objects : dataIdentity[a] # Null => dataIdentity[a] \in Paths
    BY DEF IInv, TypeOK
  <2>5. dataTypes[p] = Null /\ \A a \in Objects : a # Null
    BY <1>2, NullAssumption
  <2> QED BY <1>3, <1>4, <2>1, <2>2, <2>3, <2>4, <2>5 DEF CacheAgrees
<1>10. PlainInv'
  <2>1. \A a \in Objects : dataIdentity'[a] = Null => dataIdentity[a] = Null
    BY <1>2, <1>4 DEF IInv, TypeOK
  <2> QED BY <1>2, <1>5, <2>1, PlainStep
<1>11. CountInv'
  <2>1. alive \subseteq Objects /\ CountInv
    BY DEF IInv, TypeOK
  <2>2. \A a \in Objects : HolderCount(a)' = HolderCount(a)
    BY <1>2, SameHolders
  <2>3. \A a \in Objects : ClaimCount(a)' = ClaimCount(a) + One(a = o)
    <3>1. \A a \in Objects : ~Claims(t, a) /\ (Claims(t, a)' <=> a = o)
      BY <1>2, <1>5 DEF Claims
    <3>2. \A a \in Objects : ClaimCount(a) \in Nat
      BY Counted
    <3> QED BY <1>5, <3>1, <3>2, ClaimStep DEF One
  <2>4. \A q \in Paths : /\ dataTypes'[q] = IF q = p THEN o ELSE dataTypes[q]
                         /\ entryRef'[q] = IF q = p THEN 1 ELSE entryRef[q]
                         /\ dataTypes[q] \in Objects \cup {Null} /\ entryRef[q] \in Nat
    BY <1>2 DEF IInv, TypeOK
  <2>5. \A a \in Objects : objectRef'[a] = IF a = o THEN 0 ELSE objectRef[a]
    BY <1>2 DEF IInv, TypeOK
  <2>6. \A a \in Objects : HolderCount(a) \in Nat /\ ClaimCount(a) \in Nat
    BY Counted
  <2>7. \A a \in alive' : objectRef'[a] = HolderCount(a)'
    BY <1>2, <1>3, <2>1, <2>2, <2>5 DEF CountInv
  <2>8. ASSUME NEW q \in Paths, NEW a \in Objects, dataTypes'[q] = a
        PROVE  entryRef'[q] > 0 /\ entryRef'[q] = HolderCount(a)' + ClaimCount(a)'
    <3>1. CASE q = p
      BY <1>3, <2>2, <2>3, <2>4, <2>8, <3>1 DEF One
    <3>2. CASE q # p
      <4>1. dataTypes[q] = a /\ entryRef'[q] = entryRef[q] /\ a # o
        BY <1>3, <2>4, <2>8, <3>2
      <4>2. entryRef[q] > 0 /\ entryRef[q] = HolderCount(a) + ClaimCount(a)
        BY <2>1, <4>1, NullAssumption DEF CountInv
      <4> QED BY <2>2, <2>3, <2>6, <4>1, <4>2 DEF One
    <3> QED BY <3>1, <3>2
  <2>9. \A q \in Paths : dataTypes'[q] = Null => entryRef'[q] = 0
    BY <1>4, <2>1, <2>4 DEF CountInv
  <2> QED BY <1>6, <2>7, <2>8, <2>9, CountStep DEF TypeOK
<1>12. NoLeak'
  <2>1. \A a \in alive : Holders(a) # {} \/ \E u \in Others(t) : a \in {call[u].object, call[u].old}
    BY <1>5, NullAssumption DEF IInv, NoLeak, Others, TypeOK
  <2>2. \A a : Holders(a)' = Holders(a)
    BY <1>2 DEF Holders
  <2>3. \A u \in Others(t) : u \in Threads /\ call'[u] = call[u]
    BY <1>5 DEF Others, OthersSame
  <2> QED BY <1>2, <1>5, <2>1, <2>2, <2>3 DEF NoLeak
<1> QED BY <1>5, <1>6, <1>7, <1>8, <1>9, <1>10, <1>11, <1>12, StepKeeps

\* A place of a map gets another content.
LEMMA MapEffect ==
  ASSUME TypeOK, NEW h \in Voices \X Keys, NEW o \in Objects \cup {Null},
         data' = [data EXCEPT ![h[1]][h[2]] = o]
  PROVE  /\ data' \in [Voices -> [Keys -> Objects \cup {Null}]] /\ Held(h)' = o
         /\ \A g \in Voices \X Keys : g # h => Held(g)' = Held(g)
<1>1. PICK v \in Voices, k \in Keys : h = <<v, k>>
  OBVIOUS
<1>2. data' = [data EXCEPT ![v] = [data[v] EXCEPT ![k] = o]]
  BY <1>1
<1>3. data \in [Voices -> [Keys -> Objects \cup {Null}]]
  BY DEF TypeOK
<1>4. [data[v] EXCEPT ![k] = o] \in [Keys -> Objects \cup {Null}]
  BY <1>3
<1>5. \A w \in Voices, j \in Keys :
        data'[w][j] = IF w = v /\ j = k THEN o ELSE data[w][j]
  BY <1>2, <1>3
<1>6. \A g \in Voices \X Keys : g = <<g[1], g[2]>> /\ g[1] \in Voices /\ g[2] \in Keys
  OBVIOUS
<1> QED BY <1>1, <1>2, <1>3, <1>4, <1>5, <1>6 DEF Held

\* PlaceData and Put: the object goes from the hand of the thread into the map.
Placing(t, p) ==
  /\ data' = [data EXCEPT ![call[t].voice][call[t].key] = call[t].object]
  /\ objectRef' = [objectRef EXCEPT ![call[t].object] = @ + 1]
  /\ call' = [call EXCEPT ![t].object = Null]
  /\ Goto(t, p)
  /\ UNCHANGED <<cache, alive, state, owner, lock>>

LEMMA PlacingKeeps ==
  ASSUME IInv, NEW t \in Threads, NEW p \in {"load", "return"}, Placing(t, p),
         \/ at[t] = "place" /\ p = "load"
         \/ at[t] = "put" /\ p = "return"
  PROVE  IInv'
<1>1. /\ ThreadInv(t) /\ call[t].object \in Objects /\ call[t].object \in alive
      /\ call[t].old = Null
      /\ at[t] = "place" => call[t].op = "load"
      /\ at[t] = "put" => call[t].op = "set"
  BY CallType DEF IInv, ThreadInv, PointAt, AliveAt, Unlinked, Operations
<1>2. PICK o \in Objects : o = call[t].object
  BY <1>1
<1>3. PICK h \in Voices \X Keys : h = <<call[t].voice, call[t].key>>
  BY CallType DEF IInv
<1>4. o \in alive /\ o # Null /\ Held(h) = Null
  BY <1>1, <1>2, <1>3, NullAssumption DEF ThreadInv, SlotAt, Slot, Held
<1>5. /\ lock' = lock /\ state' = state /\ owner' = owner /\ alive' = alive
      /\ dataTypes' = dataTypes /\ entryRef' = entryRef /\ dataIdentity' = dataIdentity
      /\ objectRef' = [objectRef EXCEPT ![o] = @ + 1]
      /\ data' = [data EXCEPT ![h[1]][h[2]] = o]
      /\ call' = [call EXCEPT ![t].object = Null] /\ Goto(t, p)
  BY <1>2, <1>3 DEF Placing, cache
<1>6. /\ ThreadTypes' /\ OthersSame(t) /\ at'[t] = p
      /\ call'[t].op = call[t].op /\ call'[t].voice = call[t].voice
      /\ call'[t].key = call[t].key /\ call'[t].object = Null /\ call'[t].old = Null
  <2>1. /\ call' \in [Threads -> Call] /\ \A u \in Others(t) : call'[u] = call[u]
        /\ call'[t].op = call[t].op /\ call'[t].voice = call[t].voice
        /\ call'[t].key = call[t].key /\ call'[t].object = Null /\ call'[t].old = Null
    BY <1>1, <1>5 DEF IInv, TypeOK, Call, Others
  <2> QED BY <1>5, <2>1, GotoEffect DEF IInv, ThreadTypes, OthersSame, Points
<1>7. /\ data' \in [Voices -> [Keys -> Objects \cup {Null}]] /\ Held(h)' = o
      /\ \A g \in Voices \X Keys : g # h => Held(g)' = Held(g)
  BY <1>5, MapEffect DEF IInv, TypeOK
<1>8. TypeOK'
  <2>1. objectRef' \in [Objects -> Nat]
    BY <1>5 DEF IInv, TypeOK
  <2> QED BY <1>5, <1>6, <1>7, <2>1, Zenon DEF IInv, TypeOK, ThreadTypes
<1>9. LeavesThreads(t)
  BY <1>5, <1>6 DEF LeavesThreads, OthersSame
<1>10. LockSteps(t)
  <2>1. \A v \in Voices : lock[v] = t => at[t] \in Holding /\ call[t].voice = v
    BY NullAssumption DEF IInv, LockHeld
  <2> QED BY <1>5, <1>6, <2>1 DEF LockSteps, Holding
<1>11. LeavesData(t)
  BY <1>1, <1>3, <1>7 DEF LeavesData, InVoice, Holding
<1>12. LeavesObjects(t)
  BY <1>5 DEF LeavesObjects, Kept, IInv, ThreadInv, AliveAt, Others
<1>13. ThreadInv(t)'
  BY <1>1, <1>5, <1>6
  DEF ThreadInv, PointAt, LockAt, StateAt, SlotAt, AliveAt, AnswerAt, LentAt, Unlinked,
      Uncounted, Holding
<1>14. AliveInv' /\ CacheAgrees'
  <2>1. \A g \in Voices \X Keys : Held(g)' \in alive \cup {Null}
    BY <1>4, <1>7 DEF IInv, AliveInv, Held
  <2> QED BY <1>5, <2>1 DEF IInv, AliveInv, CacheAgrees, Held
<1>15. PlainInv'
  <2>1. \A g \in Voices \X Keys : Held(g)' = IF g = h THEN o ELSE Held(g)
    BY <1>7
  <2>2. /\ \A u \in Threads : \A a \in Objects : Sets(u, a)' => Sets(u, a) /\ u # t
        /\ \A u \in Threads : \A a \in Objects : call'[u].old = a => call[u].old = a
    BY <1>6, NullAssumption DEF OthersSame, Others, Sets
  <2>3. dataIdentity[o] = Null => Sets(t, o)
    BY <1>1, <1>2 DEF ThreadInv, AnswerAt, Sets
  <2> SUFFICES ASSUME NEW a \in Objects, dataIdentity[a] = Null
               PROVE
    /\ \A f, g \in Voices \X Keys : Held(f)' = a /\ Held(g)' = a => f = g
    /\ \A g \in Voices \X Keys, u \in Threads : Held(g)' = a => ~Sets(u, a)' /\ call'[u].old # a
    /\ \A r, u \in Threads : Sets(r, a)' => call'[u].old # a /\ (Sets(u, a)' => r = u)
    /\ \A r, u \in Threads : call'[r].old = a /\ call'[u].old = a => r = u
    BY <1>5 DEF PlainInv, Held
  <2>4. /\ \A f, g \in Voices \X Keys : Held(f) = a /\ Held(g) = a => f = g
        /\ \A g \in Voices \X Keys, u \in Threads : Held(g) = a => ~Sets(u, a) /\ call[u].old # a
        /\ \A r, u \in Threads : Sets(r, a) => call[u].old # a /\ (Sets(u, a) => r = u)
        /\ \A r, u \in Threads : call[r].old = a /\ call[u].old = a => r = u
    BY DEF IInv, PlainInv, Held
  <2> QED BY <2>1, <2>2, <2>3, <2>4
<1>16. CountInv'
  <2>1. \A a \in Objects : HolderCount(a)' = HolderCount(a) + One(a = o)
    <3>1. \A a \in Objects : Held(h) # a
      BY <1>4, NullAssumption
    <3>2. \A a \in Objects : HolderCount(a) \in Nat
      BY Counted
    <3> QED BY <1>7, <3>1, <3>2, HolderCounts DEF One
  <2>2. \A a \in Objects : ClaimCount(a)' = ClaimCount(a) - One(a = o)
    <3>1. \A a \in Objects : ~Claims(t, a)' /\ (Claims(t, a) <=> a = o)
      BY <1>2, <1>6 DEF Claims
    <3>2. \A a \in Objects : ClaimCount(a) \in Nat
      BY Counted
    <3> QED BY <1>6, <3>1, <3>2, ClaimStep DEF One
  <2>3. \A a \in Objects : HolderCount(a) \in Nat /\ ClaimCount(a) \in Nat
    BY Counted
  <2>4. CountInv /\ alive \subseteq Objects
    BY DEF IInv, TypeOK
  <2>5. \A a \in alive : objectRef'[a] = objectRef[a] + One(a = o) /\ objectRef[a] \in Nat
    BY <1>5, <2>4 DEF IInv, TypeOK, One
  <2>6. \A a \in alive : objectRef'[a] = HolderCount(a)'
    BY <2>1, <2>4, <2>5 DEF CountInv
  <2>7. \A a \in Objects : HolderCount(a)' + ClaimCount(a)' = HolderCount(a) + ClaimCount(a)
    BY <2>1, <2>2, <2>3 DEF One
  <2>8. \A q \in Paths, a \in Objects : dataTypes[q] = a =>
          entryRef[q] > 0 /\ entryRef[q] = HolderCount(a) + ClaimCount(a)
    BY <2>4, NullAssumption DEF CountInv
  <2> QED BY <1>5, <1>8, <2>4, <2>6, <2>7, <2>8, CountStep DEF TypeOK, CountInv
<1>17. NoLeak'
  <2> SUFFICES ASSUME NEW a \in alive
               PROVE  \/ \E g \in Voices \X Keys : Held(g)' = a
                      \/ \E u \in Threads : a \in {call'[u].object, call'[u].old}
    BY <1>5 DEF NoLeak, Holders, Held
  <2>1. \/ \E g \in Voices \X Keys : Held(g) = a
        \/ \E u \in Others(t) : a \in {call[u].object, call[u].old}
        \/ a = o
    BY <1>1, <1>2, NullAssumption DEF IInv, NoLeak, Holders, Held, Others, TypeOK
  <2>2. \A u \in Others(t) : u \in Threads /\ call'[u] = call[u]
    BY <1>6 DEF Others, OthersSame
  <2>3. a # Null
    BY NullAssumption DEF IInv, TypeOK
  <2> QED BY <1>4, <1>7, <2>1, <2>2, <2>3
<1> QED BY <1>8, <1>9, <1>10, <1>11, <1>12, <1>13, <1>14, <1>15, <1>16, <1>17, StepKeeps

\* unload_data_entry takes an object out of the map: from now on the thread counts.
LEMMA UnlinkKeeps ==
  ASSUME IInv, NEW t \in Threads, NEW k \in Keys, Unlink(t, k),
         \/ at[t] = "replace" /\ k = call[t].key
         \/ at[t] = "next"
  PROVE  IInv'
<1>1. /\ ThreadInv(t) /\ call[t].old = Null
      /\ at[t] = "replace" => call[t].op \in {"set", "delete"}
      /\ at[t] = "next" => call[t].op = "destroy" /\ call[t].object = Null
  BY CallType DEF IInv, ThreadInv, PointAt, Unlinked, Operations
<1>2. PICK h \in Voices \X Keys : h = <<call[t].voice, k>>
  BY CallType DEF IInv
<1>3. PICK o \in Objects : o = Held(h) /\ o \in alive /\ o # Null
  <2>1. Held(h) # Null
    BY <1>2 DEF Unlink, Held
  <2> QED BY <2>1 DEF IInv, TypeOK, AliveInv, Held
<1>4. /\ lock' = lock /\ state' = state /\ owner' = owner /\ alive' = alive
      /\ dataTypes' = dataTypes /\ entryRef' = entryRef /\ dataIdentity' = dataIdentity
      /\ objectRef' = [objectRef EXCEPT ![o] = @ - 1]
      /\ data' = [data EXCEPT ![h[1]][h[2]] = Null]
      /\ call' = [call EXCEPT ![t].key = k, ![t].old = o] /\ Goto(t, "query")
  BY <1>2, <1>3 DEF Unlink, cache, Held
<1>5. /\ ThreadTypes' /\ OthersSame(t) /\ at'[t] = "query"
      /\ call'[t].op = call[t].op /\ call'[t].voice = call[t].voice /\ call'[t].key = k
      /\ call'[t].object = call[t].object /\ call'[t].old = o
  <2>1. /\ call' \in [Threads -> Call] /\ \A u \in Others(t) : call'[u] = call[u]
        /\ call'[t].op = call[t].op /\ call'[t].voice = call[t].voice /\ call'[t].key = k
        /\ call'[t].object = call[t].object /\ call'[t].old = o
    BY <1>4 DEF IInv, TypeOK, Call, Others
  <2> QED BY <1>4, <2>1, GotoEffect DEF IInv, ThreadTypes, OthersSame, Points
<1>6. /\ data' \in [Voices -> [Keys -> Objects \cup {Null}]] /\ Held(h)' = Null
      /\ \A g \in Voices \X Keys : g # h => Held(g)' = Held(g)
  BY <1>4, MapEffect DEF IInv
<1>7. objectRef[o] \in Nat /\ objectRef[o] > 0
  <2>1. h \in Holders(o) /\ objectRef[o] = HolderCount(o)
    BY <1>3 DEF IInv, CountInv, Holders, Held
  <2> QED BY <2>1, Counted
<1>8. TypeOK'
  <2>1. objectRef' \in [Objects -> Nat]
    BY <1>4, <1>7 DEF IInv, TypeOK
  <2> QED BY <1>4, <1>5, <1>6, <2>1, Zenon DEF IInv, TypeOK, ThreadTypes
<1>9. LeavesThreads(t)
  BY <1>4, <1>5 DEF LeavesThreads, OthersSame
<1>10. LockSteps(t)
  <2>1. \A v \in Voices : lock[v] = t => call[t].voice = v
    BY NullAssumption DEF IInv, LockHeld
  <2> QED BY <1>4, <1>5, <2>1 DEF LockSteps, Holding
<1>11. LeavesData(t)
  BY <1>1, <1>2, <1>6 DEF LeavesData, InVoice, Holding
<1>12. LeavesObjects(t)
  BY <1>4 DEF LeavesObjects, Kept, IInv, ThreadInv, AliveAt, Others
<1>13. ThreadInv(t)'
  <2>1. PointAt(t)' /\ LockAt(t)' /\ StateAt(t)' /\ AliveAt(t)' /\ AnswerAt(t)'
    BY <1>1, <1>3, <1>4, <1>5
    DEF ThreadInv, PointAt, LockAt, StateAt, AliveAt, AnswerAt, Unlinked, Holding
  <2>2. SlotAt(t)'
    <3>1. Slot(t)' = Null
      BY <1>2, <1>5, <1>6 DEF Slot, Held
    <3> QED BY <1>1, <1>5, <3>1 DEF SlotAt, Unlinked
  <2>3. LentAt(t)'
    <3> SUFFICES ASSUME call[t].op = "set", dataIdentity[call[t].object] # Null
                 PROVE  "borrow" \in Uses /\ \E g \in Voices \X Keys : Lends(g, t)'
      BY <1>4, <1>5 DEF LentAt
    <3>1. at[t] = "replace" /\ k = call[t].key
      BY <1>1
    <3>2. "borrow" \in Uses /\ \E g \in Voices \X Keys : Lends(g, t)
      BY <1>1, <3>1 DEF ThreadInv, LentAt, Uncounted
    <3>3. PICK g \in Voices \X Keys : Lends(g, t)
      BY <3>2
    <3>4. g # h /\ Held(g)' = Held(g)
      BY <1>2, <1>6, <3>1, <3>3 DEF Lends
    <3>5. Lends(g, t)'
      BY <1>4, <1>5, <3>1, <3>3, <3>4 DEF Lends, Held
    <3> QED BY <3>2, <3>5
  <2> QED BY <2>1, <2>2, <2>3 DEF ThreadInv
<1>14. AliveInv' /\ CacheAgrees'
  <2>1. \A g \in Voices \X Keys : Held(g)' \in alive \cup {Null}
    BY <1>6 DEF IInv, AliveInv, Held
  <2> QED BY <1>4, <2>1 DEF IInv, AliveInv, CacheAgrees, Held
<1>15. PlainInv'
  <2>1. \A g \in Voices \X Keys : \A a \in Objects : Held(g)' = a => Held(g) = a /\ g # h
    BY <1>6, NullAssumption
  <2>2. /\ \A u \in Threads : \A a \in Objects : Sets(u, a)' => Sets(u, a)
        /\ \A u \in Threads : \A a \in Objects :
             call'[u].old = a => call[u].old = a \/ (u = t /\ a = o)
    <3>1. \A u \in Threads : u # t => call'[u] = call[u]
      BY <1>5 DEF OthersSame, Others
    <3> QED BY <1>5, <3>1 DEF Sets
  <2> SUFFICES ASSUME NEW a \in Objects, dataIdentity[a] = Null
               PROVE
    /\ \A f, g \in Voices \X Keys : Held(f)' = a /\ Held(g)' = a => f = g
    /\ \A g \in Voices \X Keys, u \in Threads : Held(g)' = a => ~Sets(u, a)' /\ call'[u].old # a
    /\ \A r, u \in Threads : Sets(r, a)' => call'[u].old # a /\ (Sets(u, a)' => r = u)
    /\ \A r, u \in Threads : call'[r].old = a /\ call'[u].old = a => r = u
    BY <1>4 DEF PlainInv, Held
  <2>3. /\ \A f, g \in Voices \X Keys : Held(f) = a /\ Held(g) = a => f = g
        /\ \A g \in Voices \X Keys, u \in Threads : Held(g) = a => ~Sets(u, a) /\ call[u].old # a
        /\ \A r, u \in Threads : Sets(r, a) => call[u].old # a /\ (Sets(u, a) => r = u)
        /\ \A r, u \in Threads : call[r].old = a /\ call[u].old = a => r = u
    BY DEF IInv, PlainInv, Held
  <2> QED BY <1>3, <2>1, <2>2, <2>3
<1>16. CountInv'
  <2>1. \A a \in Objects : HolderCount(a)' = HolderCount(a) - One(a = o)
    <3>1. \A a \in Objects : Held(h)' # a
      BY <1>6, NullAssumption
    <3>2. \A a \in Objects : HolderCount(a) \in Nat
      BY Counted
    <3> QED BY <1>3, <1>6, <3>1, <3>2, HolderCounts DEF One
  <2>2. \A a \in Objects : ClaimCount(a)' = ClaimCount(a) + One(a = o)
    <3>1. \A a \in Objects : ~Claims(t, a) /\ (Claims(t, a)' <=> a = o)
      BY <1>5 DEF Claims
    <3>2. \A a \in Objects : ClaimCount(a) \in Nat
      BY Counted
    <3> QED BY <1>5, <3>1, <3>2, ClaimStep DEF One
  <2>3. \A a \in Objects : HolderCount(a) \in Nat /\ ClaimCount(a) \in Nat
    BY Counted
  <2>4. CountInv /\ alive \subseteq Objects
    BY DEF IInv, TypeOK
  <2>5. \A a \in alive : objectRef'[a] = objectRef[a] - One(a = o) /\ objectRef[a] \in Nat
    BY <1>4, <2>4 DEF IInv, TypeOK, One
  <2>6. \A a \in alive : objectRef'[a] = HolderCount(a)'
    BY <2>1, <2>4, <2>5 DEF CountInv
  <2>7. \A a \in Objects : HolderCount(a)' + ClaimCount(a)' = HolderCount(a) + ClaimCount(a)
    BY <2>1, <2>2, <2>3 DEF One
  <2>8. \A q \in Paths, a \in Objects : dataTypes[q] = a =>
          entryRef[q] > 0 /\ entryRef[q] = HolderCount(a) + ClaimCount(a)
    BY <2>4, NullAssumption DEF CountInv
  <2> QED BY <1>4, <1>8, <2>4, <2>6, <2>7, <2>8, CountStep DEF TypeOK, CountInv
<1>17. NoLeak'
  <2> SUFFICES ASSUME NEW a \in alive
               PROVE  \/ \E g \in Voices \X Keys : Held(g)' = a
                      \/ \E u \in Threads : a \in {call'[u].object, call'[u].old}
    BY <1>4 DEF NoLeak, Holders, Held
  <2>1. \/ \E g \in Voices \X Keys : Held(g) = a
        \/ \E u \in Threads : a \in {call[u].object, call[u].old}
    BY DEF IInv, NoLeak, Holders, Held
  <2>2. \A u \in Others(t) : u \in Threads /\ call'[u] = call[u]
    BY <1>5 DEF Others, OthersSame
  <2>3. a # Null
    BY NullAssumption DEF IInv, TypeOK
  <2> QED BY <1>1, <1>3, <1>5, <1>6, <2>1, <2>2, <2>3 DEF Others
<1> QED BY <1>8, <1>9, <1>10, <1>11, <1>12, <1>13, <1>14, <1>15, <1>16, <1>17, StepKeeps

\* SVoiceSetData counts the voice: somebody else has the object, so it is still the
\* cache's.
LEMMA CountKeeps ==
  ASSUME IInv, NEW t \in Threads, Count(t)
  PROVE  IInv'
<1>1. /\ ThreadInv(t) /\ at[t] = "count" /\ call[t].op = "set" /\ call[t].old = Null
      /\ call[t].object \in Objects
  BY CallType DEF Count, IInv, ThreadInv, PointAt, Unlinked, Operations
<1>2. PICK o \in Objects : o = call[t].object
  BY <1>1
<1>3. /\ Goto(t, "put") /\ call' = call /\ lock' = lock /\ state' = state /\ owner' = owner
      /\ data' = data /\ alive' = alive /\ objectRef' = objectRef
      /\ dataTypes' = dataTypes /\ dataIdentity' = dataIdentity
      /\ entryRef' = IF dataIdentity[o] = Null THEN entryRef
                     ELSE [entryRef EXCEPT ![dataIdentity[o]] = @ + 1]
  BY <1>2, Zenon DEF Count, objects, voices
<1>4. ThreadTypes' /\ OthersSame(t) /\ at'[t] = "put"
  BY <1>3, GotoEffect DEF IInv, ThreadTypes, OthersSame, Points, TypeOK
<1>5. \A q \in Paths : /\ entryRef'[q] = entryRef[q] + One(q = dataIdentity[o])
                       /\ entryRef[q] \in Nat /\ q # Null
  BY <1>3, NullAssumption DEF IInv, TypeOK, One
<1>6. TypeOK'
  <2>1. entryRef' \in [Paths -> Nat]
    BY <1>3 DEF IInv, TypeOK
  <2> QED BY <1>3, <1>4, <2>1, Zenon DEF IInv, TypeOK, ThreadTypes
<1>7. LeavesThreads(t)
  BY <1>3, <1>4 DEF LeavesThreads, OthersSame
<1>8. LockSteps(t)
  <2>1. \A v \in Voices : lock[v] = t => call[t].voice = v
    BY NullAssumption DEF IInv, LockHeld
  <2> QED BY <1>3, <1>4, <2>1 DEF LockSteps, Holding
<1>9. LeavesData(t) /\ LeavesObjects(t)
  BY <1>3 DEF LeavesData, Held, LeavesObjects, Kept, IInv, ThreadInv, AliveAt, Others
<1>10. ThreadInv(t)'
  BY <1>1, <1>3, <1>4
  DEF ThreadInv, PointAt, LockAt, StateAt, SlotAt, AliveAt, AnswerAt, LentAt, Unlinked,
      Uncounted, Holding, Slot
<1>11. AliveInv' /\ CacheAgrees'
  BY <1>3 DEF IInv, AliveInv, CacheAgrees
<1>12. PlainInv'
  BY <1>3 DEF IInv, PlainInv, Sets
<1>13. NoLeak'
  BY <1>3 DEF IInv, NoLeak, Holders
<1>14. CountInv'
  <2>1. \A a \in Objects : HolderCount(a)' = HolderCount(a)
    BY <1>3, SameHolders
  <2>2. \A a \in Objects : ClaimCount(a)' = ClaimCount(a) + One(a = o)
    <3>1. \A a \in Objects : ~Claims(t, a) /\ (Claims(t, a)' <=> a = o)
      BY <1>1, <1>2, <1>3, <1>4 DEF Claims
    <3>2. \A a \in Objects : ClaimCount(a) \in Nat
      BY Counted
    <3> QED BY <1>4, <3>1, <3>2, ClaimStep DEF One
  <2>3. \A a \in Objects : HolderCount(a) \in Nat /\ ClaimCount(a) \in Nat
    BY Counted
  <2>4. CountInv /\ alive \subseteq Objects
    BY DEF IInv, TypeOK
  <2>5. \A q \in Paths, a \in Objects : dataTypes[q] = a => (a = o <=> q = dataIdentity[o])
    BY NullAssumption DEF IInv, CacheAgrees
  <2>6. \A q \in Paths, a \in Objects : dataTypes[q] = a =>
          entryRef[q] > 0 /\ entryRef[q] = HolderCount(a) + ClaimCount(a)
    BY <2>4, NullAssumption DEF CountInv
  <2>7. \A q \in Paths, a \in Objects : dataTypes[q] = a =>
          entryRef'[q] > 0 /\ entryRef'[q] = HolderCount(a)' + ClaimCount(a)'
    BY <1>5, <2>1, <2>2, <2>3, <2>5, <2>6 DEF One
  <2>8. \A q \in Paths : dataTypes[q] = Null => entryRef'[q] = 0
    BY <1>5, <2>4, NullAssumption DEF CountInv, One, IInv, CacheAgrees
  <2> QED BY <1>3, <1>6, <2>1, <2>4, <2>7, <2>8, CountStep DEF TypeOK, CountInv
<1> QED BY <1>6, <1>7, <1>8, <1>9, <1>10, <1>11, <1>12, <1>13, <1>14, StepKeeps

\* The step after unload_data or S_DELETE: the thread forgets the object, which is
\* still there for the others that have it.
Forgetting(t) ==
  /\ call' = [call EXCEPT ![t].old = Null] /\ Goto(t, AfterUnload(t)) /\ UNCHANGED voices

LEMMA ForgettingKeeps ==
  ASSUME IInv, NEW t \in Threads, Forgetting(t), at[t] \in {"unload", "dispose"},
         call[t].object # Null => Kept(call[t].object)
  PROVE  /\ ThreadTypes' /\ OthersSame(t) /\ at'[t] \in {"count", "return", "next"}
         /\ call'[t].op = call[t].op /\ call'[t].object = call[t].object /\ call'[t].old = Null
         /\ call[t].op \in {"set", "delete", "destroy"}
         /\ call[t].old \in Objects /\ call[t].old \in alive
         /\ LeavesThreads(t) /\ LockSteps(t) /\ LeavesData(t) /\ ThreadInv(t)'
<1>1. /\ ThreadInv(t) /\ call[t].op \in {"set", "delete", "destroy"}
      /\ call[t].old \in Objects /\ call[t].old \in alive
  BY CallType, NullAssumption
  DEF IInv, ThreadInv, PointAt, AliveAt, Unlinked, Operations
<1>2. lock' = lock /\ state' = state /\ owner' = owner /\ data' = data
  BY Zenon DEF Forgetting, voices
<1>3. PICK p \in {"count", "return", "next"} :
        /\ p = AfterUnload(t)
        /\ p = "count" <=> call[t].op = "set"
        /\ p = "return" <=> call[t].op = "delete"
  BY <1>1, AfterUnloadPoint
<1>4. /\ ThreadTypes' /\ OthersSame(t) /\ at'[t] = p
      /\ call'[t].op = call[t].op /\ call'[t].voice = call[t].voice
      /\ call'[t].key = call[t].key /\ call'[t].object = call[t].object /\ call'[t].old = Null
  <2>1. /\ call' \in [Threads -> Call] /\ \A u \in Others(t) : call'[u] = call[u]
        /\ call'[t].op = call[t].op /\ call'[t].voice = call[t].voice
        /\ call'[t].key = call[t].key /\ call'[t].object = call[t].object /\ call'[t].old = Null
    BY DEF Forgetting, IInv, TypeOK, Call, Others
  <2> QED BY <1>3, <2>1, GotoEffect DEF Forgetting, IInv, ThreadTypes, OthersSame, Points
<1>5. LeavesThreads(t)
  BY <1>2, <1>4 DEF LeavesThreads, OthersSame
<1>6. LockSteps(t)
  <2>1. \A v \in Voices : lock[v] = t => call[t].voice = v
    BY NullAssumption DEF IInv, LockHeld
  <2> QED BY <1>2, <1>3, <1>4, <2>1 DEF LockSteps, Holding
<1>7. LeavesData(t)
  BY <1>2 DEF LeavesData, Held
<1>8. PointAt(t)' /\ LockAt(t)' /\ StateAt(t)' /\ AliveAt(t)' /\ AnswerAt(t)'
  BY <1>1, <1>2, <1>3, <1>4
  DEF ThreadInv, PointAt, LockAt, StateAt, AliveAt, AnswerAt, Unlinked, Holding, Kept
<1>9. SlotAt(t)'
  BY <1>1, <1>2, <1>3, <1>4 DEF ThreadInv, SlotAt, Slot, Unlinked
<1>10. LentAt(t)'
  BY <1>1, <1>2, <1>3, <1>4
  DEF ThreadInv, PointAt, LentAt, Lends, Uncounted, Unlinked, Kept
<1> QED BY <1>1, <1>3, <1>4, <1>5, <1>6, <1>7, <1>8, <1>9, <1>10 DEF ThreadInv

\* An object that t has unlinked and that no other voice or call counts: nobody has
\* a pointer to it but t.
LEMMA Alone ==
  ASSUME IInv, NEW t \in Threads, NEW o \in Objects, call[t].old = o,
         \A h \in Voices \X Keys : Held(h) # o,
         \/ dataIdentity[o] = Null
         \/ \A u \in Others(t) : ~Claims(u, o)
  PROVE  /\ \A u \in Threads : call[u].object # o
         /\ \A u \in Others(t) : call[u].old # o
<1>1. /\ o # Null /\ PointAt(t) /\ \A u \in Others(t) : u \in Threads /\ u # t
      /\ at[t] \in Unlinked
  BY NullAssumption DEF IInv, ThreadInv, Others, PointAt
<1>2. \A u \in Others(t) : call[u].old # o
  <2>1. CASE dataIdentity[o] = Null
    BY <1>1, <2>1 DEF IInv, PlainInv
  <2>2. CASE \A u \in Others(t) : ~Claims(u, o)
    BY <1>1, <2>2 DEF IInv, ThreadInv, PointAt, Claims, Unlinked
  <2> QED BY <2>1, <2>2
<1>3. ASSUME NEW u \in Threads, call[u].object = o PROVE FALSE
  <2>1. ThreadInv(u) /\ call[u].op \in {"load", "synth", "set"}
    BY <1>1, <1>3, CallType DEF IInv, ThreadInv, PointAt, Operations
  <2>2. CASE call[u].op = "synth"
    <3>1. PICK h \in Voices \X Keys : h = <<call[u].voice, call[u].key>>
      BY CallType DEF IInv
    <3>2. Held(h) = o
      BY <1>1, <1>3, <2>1, <2>2, <3>1 DEF ThreadInv, SlotAt, Slot, Held
    <3> QED BY <3>2
  <2>3. CASE call[u].op = "load"
    <3>1. at[u] = "place" /\ dataIdentity[o] # Null
      BY <1>1, <1>3, <2>1, <2>3 DEF ThreadInv, PointAt, AnswerAt
    <3>2. u # t /\ Claims(u, o)
      BY <1>1, <1>3, <3>1 DEF Claims, Unlinked
    <3> QED BY <3>1, <3>2 DEF Others
  <2>4. CASE call[u].op = "set" /\ dataIdentity[o] = Null
    BY <1>3, <2>4 DEF IInv, PlainInv, Sets
  <2>5. CASE call[u].op = "set" /\ dataIdentity[o] # Null
    <3>1. at[u] \notin Uncounted
      BY <1>3, <2>1, <2>5 DEF ThreadInv, LentAt, Lends, Held
    <3>2. at[u] = "put"
      BY <1>1, <1>3, <2>1, <2>5, <3>1 DEF ThreadInv, PointAt, Uncounted
    <3>3. u # t /\ Claims(u, o)
      BY <1>1, <1>3, <3>2 DEF Claims, Unlinked
    <3> QED BY <2>5, <3>3 DEF Others
  <2> QED BY <2>1, <2>2, <2>3, <2>4, <2>5
<1> QED BY <1>2, <1>3

\* Such an object is freed, and the cache forgets it.
LEMMA FreeKeeps ==
  ASSUME IInv, NEW t \in Threads, NEW o \in Objects, call[t].old = o, TypeOK',
         Forgetting(t), at[t] \in {"unload", "dispose"},
         \A h \in Voices \X Keys : Held(h) # o,
         \/ dataIdentity[o] = Null
         \/ \A u \in Others(t) : ~Claims(u, o),
         alive' = alive \ {o},
         \A a \in Objects : a # o => objectRef'[a] = objectRef[a],
         \A a \in Objects : dataIdentity'[a] = IF a = o THEN Null ELSE dataIdentity[a],
         \A q \in Paths : /\ dataTypes'[q] = IF dataTypes[q] = o THEN Null ELSE dataTypes[q]
                          /\ entryRef'[q] = IF dataTypes[q] = o THEN 0 ELSE entryRef[q]
  PROVE  IInv'
<1>1. /\ \A u \in Threads : call[u].object # o
      /\ \A u \in Others(t) : call[u].old # o
  BY Alone
<1>2. o # Null /\ \A a \in Objects : a # Null
  BY NullAssumption
<1>3. \A a \in Objects : a \in alive /\ a # o => Kept(a)
  BY DEF Kept
<1>4. call[t].object # Null => Kept(call[t].object)
  BY <1>1, <1>3 DEF IInv, ThreadInv, AliveAt, TypeOK
<1>5. /\ ThreadTypes' /\ OthersSame(t) /\ at'[t] \in {"count", "return", "next"}
      /\ call'[t].op = call[t].op /\ call'[t].object = call[t].object /\ call'[t].old = Null
      /\ call[t].op \in {"set", "delete", "destroy"}
      /\ LeavesThreads(t) /\ LockSteps(t) /\ LeavesData(t) /\ ThreadInv(t)'
  BY <1>4, ForgettingKeeps
<1>6. LeavesObjects(t)
  BY <1>1, <1>3 DEF LeavesObjects, IInv, TypeOK, ThreadInv, AliveAt, Others
<1>7. data' = data
  BY Zenon DEF Forgetting, voices
<1>8. AliveInv'
  BY <1>2, <1>7 DEF IInv, AliveInv, Held
<1>9. CacheAgrees'
  <2>1. CacheAgrees
    BY DEF IInv
  <2>2. /\ \A q \in Paths : dataTypes[q] # Null => dataTypes[q] \in Objects
        /\ \A a \in Objects : dataIdentity[a] # Null => dataIdentity[a] \in Paths
    BY DEF IInv, TypeOK
  <2> QED BY <1>2, <2>1, <2>2 DEF CacheAgrees
<1>10. PlainInv'
  <2>1. /\ \A u \in Threads : \A a \in Objects : Sets(u, a)' => Sets(u, a)
        /\ \A u \in Threads : \A a \in Objects : call'[u].old = a => call[u].old = a
    BY <1>2, <1>5 DEF OthersSame, Others, Sets
  <2>2. /\ \A u \in Threads : ~Sets(u, o)
        /\ \A u \in Threads : call'[u].old # o
    BY <1>1, <1>2, <1>5 DEF Sets, OthersSame, Others
  <2> SUFFICES ASSUME NEW a \in Objects, dataIdentity'[a] = Null
               PROVE
    /\ \A f, g \in Voices \X Keys : Held(f) = a /\ Held(g) = a => f = g
    /\ \A g \in Voices \X Keys, u \in Threads : Held(g) = a => ~Sets(u, a)' /\ call'[u].old # a
    /\ \A r, u \in Threads : Sets(r, a)' => call'[u].old # a /\ (Sets(u, a)' => r = u)
    /\ \A r, u \in Threads : call'[r].old = a /\ call'[u].old = a => r = u
    BY <1>7 DEF PlainInv, Held
  <2>3. CASE a = o
    BY <2>1, <2>2, <2>3
  <2>4. CASE a # o
    <3>1. dataIdentity[a] = Null
      BY <2>4
    <3>2. /\ \A f, g \in Voices \X Keys : Held(f) = a /\ Held(g) = a => f = g
          /\ \A g \in Voices \X Keys, u \in Threads : Held(g) = a => ~Sets(u, a) /\ call[u].old # a
          /\ \A r, u \in Threads : Sets(r, a) => call[u].old # a /\ (Sets(u, a) => r = u)
          /\ \A r, u \in Threads : call[r].old = a /\ call[u].old = a => r = u
      BY <3>1 DEF IInv, PlainInv, Held
    <3> QED BY <2>1, <3>2
  <2> QED BY <2>3, <2>4
<1>11. CountInv'
  <2>1. \A a \in Objects : HolderCount(a)' = HolderCount(a)
    BY <1>7, SameHolders
  <2>2. \A a \in Objects : a # o => ClaimCount(a)' = ClaimCount(a)
    <3>1. \A a \in Objects : a # o => (Claims(t, a)' <=> Claims(t, a))
      BY <1>5 DEF Claims
    <3> QED BY <1>5, <3>1, SameClaims
  <2>3. CountInv /\ alive \subseteq Objects
    BY DEF IInv, TypeOK
  <2>4. \A a \in alive' : objectRef'[a] = HolderCount(a)'
    BY <2>1, <2>3 DEF CountInv
  <2>5. ASSUME NEW q \in Paths, NEW a \in Objects, dataTypes'[q] = a
        PROVE  entryRef'[q] > 0 /\ entryRef'[q] = HolderCount(a)' + ClaimCount(a)'
    <3>1. dataTypes[q] = a /\ a # o /\ entryRef'[q] = entryRef[q]
      BY <1>2, <2>5
    <3> QED BY <1>2, <2>1, <2>2, <2>3, <3>1 DEF CountInv
  <2>6. \A q \in Paths : dataTypes'[q] = Null => entryRef'[q] = 0
    BY <1>2, <2>3 DEF CountInv
  <2> QED BY <2>4, <2>5, <2>6, CountStep DEF TypeOK
<1>12. NoLeak'
  <2>1. \A a : Holders(a)' = Holders(a)
    BY <1>7 DEF Holders
  <2>2. \A u \in Others(t) : call'[u] = call[u]
    BY <1>5 DEF OthersSame
  <2>3. \A a \in alive' : Holders(a) # {} \/ \E u \in Threads : a \in {call[u].object, call[u].old}
    BY DEF IInv, NoLeak
  <2> QED BY <1>5, <2>1, <2>2, <2>3 DEF NoLeak, Others
<1> QED BY <1>5, <1>6, <1>8, <1>9, <1>10, <1>11, <1>12, StepKeeps

LEMMA UnloadKeeps ==
  ASSUME IInv, NEW t \in Threads, Unload(t)
  PROVE  IInv'
<1>1. /\ ThreadInv(t) /\ at[t] = "unload" /\ call[t].old \in Objects /\ call[t].old # Null
  BY CallType DEF Unload, IInv, ThreadInv, PointAt, Unlinked
<1>2. PICK o \in Objects : o = call[t].old /\ o # Null
  BY <1>1
<1>3. PICK p \in Paths : p = dataIdentity[o] /\ p # Null
  BY <1>2 DEF Unload, IInv, TypeOK
<1>4. dataTypes[p] = o /\ o \in alive /\ \A q \in Paths : dataTypes[q] = o => q = p
  BY <1>1, <1>2, <1>3 DEF IInv, CacheAgrees, ThreadInv, AliveAt
<1>5. /\ entryRef[p] \in Nat /\ entryRef[p] > 0
      /\ entryRef[p] = HolderCount(o) + ClaimCount(o)
  BY <1>2, <1>4 DEF IInv, CountInv, TypeOK
<1>6. Claims(t, o)
  BY <1>1, <1>2 DEF Claims
<1>7. /\ entryRef' = [entryRef EXCEPT ![p] = @ - 1]
      /\ dataTypes' = IF entryRef[p] = 1 THEN [dataTypes EXCEPT ![p] = Null] ELSE dataTypes
      /\ dataIdentity' = IF entryRef[p] = 1 THEN [dataIdentity EXCEPT ![o] = Null] ELSE dataIdentity
      /\ alive' = IF entryRef[p] = 1 THEN alive \ {o} ELSE alive
      /\ objectRef' = objectRef /\ Forgetting(t) /\ UNCHANGED voices
  BY <1>2, <1>3, <1>4 DEF Unload, Forgetting
<1>8. /\ \A q \in Paths : /\ entryRef'[q] = IF q = p THEN entryRef[p] - 1 ELSE entryRef[q]
                          /\ entryRef[q] \in Nat
      /\ entryRef' \in [Paths -> Nat]
  BY <1>5, <1>7 DEF IInv, TypeOK
<1>9. ThreadTypes'
  <2>1. call' \in [Threads -> Call]
    BY <1>7 DEF Forgetting, IInv, TypeOK, Call
  <2>2. AfterUnload(t) \in Points
    BY <1>1, AfterUnloadPoint, CallType DEF ThreadInv, PointAt, Operations, Points, IInv
  <2> QED BY <1>7, <2>1, <2>2, GotoEffect DEF Forgetting, IInv, ThreadTypes
<1>10. TypeOK'
  <2>1. /\ dataTypes' \in [Paths -> Objects \cup {Null}] /\ alive' \subseteq Objects
        /\ dataIdentity' \in [Objects -> Paths \cup {Null}]
    BY <1>7 DEF IInv, TypeOK
  <2>2. UNCHANGED <<state, owner, data, lock>>
    BY <1>7 DEF voices
  <2> QED BY <1>7, <1>8, <1>9, <2>1, <2>2, Zenon DEF IInv, TypeOK, ThreadTypes
<1>11. CASE entryRef[p] = 1
  <2>1. /\ \A h \in Voices \X Keys : Held(h) # o
        /\ \A u \in Others(t) : ~Claims(u, o)
    BY <1>5, <1>6, <1>11, OnlyClaim
  <2>2. \A q \in Paths : /\ dataTypes'[q] = IF dataTypes[q] = o THEN Null ELSE dataTypes[q]
                         /\ entryRef'[q] = IF dataTypes[q] = o THEN 0 ELSE entryRef[q]
    BY <1>4, <1>7, <1>8, <1>11 DEF IInv, TypeOK
  <2>3. \A a \in Objects : dataIdentity'[a] = IF a = o THEN Null ELSE dataIdentity[a]
    BY <1>7, <1>11 DEF IInv, TypeOK
  <2> QED BY <1>1, <1>2, <1>7, <1>10, <1>11, <2>1, <2>2, <2>3, FreeKeeps
<1>12. CASE entryRef[p] # 1
  <2>1. /\ dataTypes' = dataTypes /\ dataIdentity' = dataIdentity /\ alive' = alive
        /\ objectRef' = objectRef /\ data' = data
    BY <1>7, <1>12 DEF voices
  <2>2. \A a \in alive : Kept(a)
    BY <2>1 DEF Kept
  <2>3. /\ OthersSame(t) /\ at'[t] \in {"count", "return", "next"}
        /\ call'[t].op = call[t].op /\ call'[t].object = call[t].object /\ call'[t].old = Null
        /\ LeavesThreads(t) /\ LockSteps(t) /\ LeavesData(t) /\ ThreadInv(t)'
    BY <1>1, <1>7, <2>2, ForgettingKeeps DEF ThreadInv, AliveAt
  <2>4. LeavesObjects(t)
    BY <2>2 DEF LeavesObjects, IInv, ThreadInv, AliveAt, Others
  <2>5. AliveInv' /\ CacheAgrees'
    BY <2>1 DEF IInv, AliveInv, CacheAgrees
  <2>6. PlainInv'
    <3>1. /\ \A u \in Threads : \A a \in Objects : Sets(u, a)' => Sets(u, a)
          /\ \A u \in Threads : \A a \in Objects : call'[u].old = a => call[u].old = a
      BY <2>3, NullAssumption DEF OthersSame, Others, Sets
    <3>2. PlainInv
      BY DEF IInv
    <3> QED BY <2>1, <3>1, <3>2 DEF PlainInv
  <2>7. \A a \in Objects : ClaimCount(a)' = ClaimCount(a) - One(a = o)
    <3>1. \A a \in Objects : ~Claims(t, a)' /\ (Claims(t, a) <=> a = o)
      BY <1>1, <1>2, <2>3 DEF Claims
    <3>2. \A a \in Objects : ClaimCount(a) \in Nat
      BY Counted
    <3> QED BY <2>3, <3>1, <3>2, ClaimStep DEF One
  <2>8. CountInv'
    <3>1. \A a \in Objects : HolderCount(a)' = HolderCount(a) /\ HolderCount(a) \in Nat
                             /\ ClaimCount(a) \in Nat
      BY <2>1, SameHolders, Counted
    <3>2. CountInv /\ alive \subseteq Objects
      BY DEF IInv, TypeOK
    <3>3. \A a \in alive' : objectRef'[a] = HolderCount(a)'
      BY <2>1, <3>1, <3>2 DEF CountInv
    <3>4. \A q \in Paths, a \in Objects : dataTypes[q] = a =>
            /\ entryRef[q] > 0 /\ entryRef[q] = HolderCount(a) + ClaimCount(a)
            /\ a = o <=> q = p
      BY <1>4, <3>2, NullAssumption DEF CountInv
    <3>5. \A q \in Paths, a \in Objects : dataTypes'[q] = a =>
            entryRef'[q] > 0 /\ entryRef'[q] = HolderCount(a)' + ClaimCount(a)'
      BY <1>8, <1>12, <2>1, <2>7, <3>1, <3>4 DEF One
    <3>6. \A q \in Paths : dataTypes'[q] = Null => entryRef'[q] = 0
      BY <1>2, <1>4, <1>8, <2>1, <3>2 DEF CountInv
    <3> QED BY <1>10, <3>3, <3>5, <3>6, CountStep DEF TypeOK
  <2>9. NoLeak'
    <3>1. \A a : Holders(a)' = Holders(a)
      BY <2>1 DEF Holders
    <3>2. Holders(o) # {} \/ \E u \in Others(t) : o \in {call[u].object, call[u].old}
      <4> SUFFICES ASSUME Holders(o) = {}
                   PROVE  \E u \in Others(t) : Claims(u, o)
        BY DEF Claims
      <4>1. ClaimCount(o) # 1
        BY <1>5, <1>12, Counted
      <4>2. Claimers(o) # {t}
        BY <4>1, FS_Singleton DEF ClaimCount
      <4> QED BY <1>6, <4>2 DEF Claimers, Others
    <3>3. \A a \in alive : a # o =>
            Holders(a) # {} \/ \E u \in Threads : a \in {call'[u].object, call'[u].old}
      <4>1. \A u \in Threads : call'[u].object = call[u].object
                               /\ (u # t => call'[u].old = call[u].old)
        BY <2>3 DEF OthersSame, Others
      <4> QED BY <1>2, <4>1 DEF IInv, NoLeak
    <3>4. \A u \in Others(t) : u \in Threads /\ call'[u] = call[u]
      BY <2>3 DEF OthersSame, Others
    <3> QED BY <2>1, <3>1, <3>2, <3>3, <3>4 DEF NoLeak
  <2> QED BY <1>10, <2>3, <2>4, <2>5, <2>6, <2>8, <2>9, StepKeeps
<1> QED BY <1>11, <1>12

LEMMA DisposeKeeps ==
  ASSUME IInv, NEW t \in Threads, Dispose(t)
  PROVE  IInv'
<1>1. /\ ThreadInv(t) /\ at[t] = "dispose" /\ call[t].old \in Objects /\ call[t].old # Null
  BY CallType DEF Dispose, IInv, ThreadInv, PointAt, Unlinked
<1>2. PICK o \in Objects : o = call[t].old /\ o # Null
  BY <1>1
<1>3. dataIdentity[o] = Null /\ o \in alive
  BY <1>1, <1>2 DEF ThreadInv, AnswerAt, AliveAt
<1>4. \A h \in Voices \X Keys : Held(h) # o
  BY <1>2, <1>3 DEF IInv, PlainInv, Held
<1>5. objectRef[o] = 0
  <2>1. Holders(o) = {}
    BY <1>4 DEF Holders, Held
  <2> QED BY <1>3, <2>1, Counted DEF IInv, CountInv
<1>6. /\ objectRef' = [objectRef EXCEPT ![o] = 0] /\ alive' = alive \ {o}
      /\ Forgetting(t) /\ UNCHANGED cache /\ UNCHANGED voices
  BY <1>2, <1>5 DEF Dispose, Forgetting
<1>7. dataTypes' = dataTypes /\ entryRef' = entryRef /\ dataIdentity' = dataIdentity
  BY <1>6 DEF cache
<1>8. ThreadTypes'
  <2>1. call' \in [Threads -> Call]
    BY <1>6 DEF Forgetting, IInv, TypeOK, Call
  <2>2. AfterUnload(t) \in Points
    BY <1>1, AfterUnloadPoint, CallType DEF ThreadInv, PointAt, Operations, Points, IInv
  <2> QED BY <1>6, <2>1, <2>2, GotoEffect DEF Forgetting, IInv, ThreadTypes
<1>9. TypeOK'
  <2>1. objectRef' \in [Objects -> Nat] /\ alive' \subseteq Objects
    BY <1>6 DEF IInv, TypeOK
  <2>2. UNCHANGED <<state, owner, data, lock>>
    BY <1>6 DEF voices
  <2> QED BY <1>7, <1>8, <2>1, <2>2, Zenon DEF IInv, TypeOK, ThreadTypes
<1>10. \A q \in Paths : dataTypes[q] # o
  BY <1>2, <1>3, NullAssumption DEF IInv, CacheAgrees
<1>11. /\ \A a \in Objects : a # o => objectRef'[a] = objectRef[a]
       /\ \A a \in Objects : dataIdentity'[a] = IF a = o THEN Null ELSE dataIdentity[a]
       /\ \A q \in Paths : /\ dataTypes'[q] = IF dataTypes[q] = o THEN Null ELSE dataTypes[q]
                           /\ entryRef'[q] = IF dataTypes[q] = o THEN 0 ELSE entryRef[q]
  BY <1>3, <1>6, <1>7, <1>10 DEF IInv, TypeOK
<1> QED BY <1>1, <1>2, <1>3, <1>4, <1>6, <1>9, <1>11, FreeKeeps

-----------------------------------------------------------------------------
(* The invariant, and what it shows.                                           *)

LEMMA InitInv == Init => IInv
<1> SUFFICES ASSUME Init PROVE IInv
  OBVIOUS
<1>1. NoCall \in Call /\ NoCall.op = "none" /\ NoCall.object = Null /\ NoCall.old = Null
  BY SomeAssumption DEF NoCall, Call, SomeKey, Operations
<1>2. \A t \in Threads : call[t] = NoCall /\ at[t] = "idle"
  BY DEF Init
<1>3. \A h \in Voices \X Keys : Held(h) = Null
  BY DEF Init, Held
<1>4. TypeOK
  BY <1>1 DEF Init, TypeOK, Points
<1>5. \A t \in Threads : ThreadInv(t)
  BY <1>1, <1>2
  DEF ThreadInv, PointAt, LockAt, StateAt, SlotAt, AliveAt, AnswerAt, LentAt, Unlinked, Holding
<1>6. LockHeld /\ AliveInv /\ CacheAgrees /\ NoLeak
  BY <1>3 DEF Init, LockHeld, AliveInv, CacheAgrees, NoLeak, Held
<1>7. PlainInv
  BY <1>1, <1>2, <1>3, NullAssumption DEF PlainInv, Sets, Held
<1>8. CountInv
  BY NullAssumption DEF Init, CountInv
<1> QED BY <1>4, <1>5, <1>6, <1>7, <1>8 DEF IInv

LEMMA NextInv ==
  ASSUME Careful, IInv, [Next]_vars
  PROVE  IInv'
<1>1. CASE UNCHANGED vars
  <2>1. /\ dataTypes' = dataTypes /\ entryRef' = entryRef /\ dataIdentity' = dataIdentity
        /\ alive' = alive /\ objectRef' = objectRef /\ state' = state /\ owner' = owner
        /\ data' = data /\ lock' = lock /\ call' = call /\ at' = at
    BY <1>1, Zenon DEF vars, cache, objects, voices, threads
  <2> USE DEF IInv
  <2>2. TypeOK' /\ LockHeld' /\ AliveInv' /\ CacheAgrees'
    BY <2>1 DEF TypeOK, LockHeld, AliveInv, CacheAgrees
  <2>3. PlainInv' /\ NoLeak'
    BY <2>1 DEF PlainInv, Sets, NoLeak, Holders
  <2>4. CountInv'
    BY <2>1 DEF CountInv, HolderCount, ClaimCount, Holders, Claimers, Claims
  <2>5. \A t \in Threads : ThreadInv(t)'
    BY <2>1
    DEF ThreadInv, PointAt, LockAt, StateAt, SlotAt, AliveAt, AnswerAt, LentAt, Lends, Slot
  <2> QED BY <2>2, <2>3, <2>4, <2>5
<1>2. ASSUME NEW t \in Threads, Ask(t) PROVE IInv'
  BY <1>2, LoadVoiceKeeps, SynthUttKeeps, DeleteVoiceKeeps, DelDataKeeps, SetNewKeeps,
     SetHeldKeeps DEF Ask
<1>3. ASSUME NEW t \in Threads, Step(t) PROVE IInv'
  <2>1. CASE Replace(t)
    <3>1. CASE Unlink(t, call[t].key)
      BY <2>1, <3>1, CallType, UnlinkKeeps DEF Replace, IInv
    <3>2. CASE ReplaceNone(t)
      BY <3>2, ReplaceNoneKeeps
    <3> QED BY <2>1, <3>1, <3>2 DEF Replace, ReplaceNone
  <2>2. CASE PlaceData(t)
    BY <2>2, PlacingKeeps DEF PlaceData, Placing
  <2>3. CASE Put(t)
    BY <2>3, PlacingKeeps DEF Put, Placing
  <2>4. ASSUME NEW k \in Keys, UnloadNext(t, k) PROVE IInv'
    BY <2>4, UnlinkKeeps DEF UnloadNext
  <2> QED BY <1>3, <2>1, <2>2, <2>3, <2>4, VoiceLoadedKeeps, LoadFailsKeeps, LockKeeps,
             ReturnKeeps, SynthesisedKeeps, QueryKeeps, UnloadKeeps, DisposeKeeps, CountKeeps,
             DestroyedKeeps, ShareDataKeeps, GetDataKeeps, ReadDataKeeps DEF Step
<1> QED BY <1>1, <1>2, <1>3 DEF Next

\* IInv holds of every step of a program that uses SVoiceSetData with care.
THEOREM Invariance ==
  ASSUME Careful PROVE Spec => []IInv
<1>1. Init => IInv
  BY InitInv
<1>2. IInv /\ [Next]_vars => IInv'
  BY NextInv
<1> QED BY <1>1, <1>2, PTL DEF Spec

\* The state of the cache, the voices and the calls keeps its type.
THEOREM TypeCorrect ==
  ASSUME Careful PROVE Spec => []TypeOK
<1>1. IInv => TypeOK
  BY DEF IInv
<1> QED BY <1>1, Invariance, PTL

\* The count of a cache entry is exactly its users (load_data,
\* data_loaded_inc_ref, unload_data): no voice or call is left out, however the
\* calls of any number of threads on any number of voices interleave.
THEOREM CountsCorrect ==
  ASSUME Careful PROVE Spec => []RefExact
<1>1. IInv => RefExact
  <2> SUFFICES ASSUME IInv, NEW p \in Paths
               PROVE  entryRef[p] = IF dataTypes[p] = Null THEN 0
                        ELSE Cardinality(Holders(dataTypes[p]))
                             + Cardinality({t \in Threads : Claims(t, dataTypes[p])})
    BY DEF RefExact
  <2> QED BY DEF IInv, CountInv, HolderCount, ClaimCount, Claimers
<1> QED BY <1>1, Invariance, PTL

\* The two maps of the voice manager are inverse to each other.
THEOREM CacheCorrect ==
  ASSUME Careful PROVE Spec => []CacheAgrees
<1>1. IInv => CacheAgrees
  BY DEF IInv
<1> QED BY <1>1, Invariance, PTL

\* No voice and no running call has a pointer to an object that was freed, and an
\* object that synthesis uses stays the voice's while it does.
THEOREM PointersCorrect ==
  ASSUME Careful PROVE Spec => []NoDangling
<1>1. IInv => NoDangling
  <2> SUFFICES ASSUME IInv PROVE NoDangling
    OBVIOUS
  <2>1. ASSUME NEW v \in Voices, NEW k \in Keys PROVE data[v][k] \in alive \cup {Null}
    <3>1. PICK h \in Voices \X Keys : h = <<v, k>>
      OBVIOUS
    <3>2. data[h[1]][h[2]] \in alive \cup {Null}
      BY DEF IInv, AliveInv
    <3> QED BY <3>1, <3>2
  <2>2. ASSUME NEW t \in Threads
        PROVE  /\ {call[t].object, call[t].old} \subseteq alive \cup {Null}
               /\ at[t] = "use" /\ call[t].object # Null
                    => data[call[t].voice][call[t].key] = call[t].object
    <3>1. AliveAt(t) /\ SlotAt(t) /\ PointAt(t) /\ call[t].op \in Operations
      BY CallType DEF IInv, ThreadInv
    <3>2. at[t] = "use" => call[t].op = "synth"
      BY <3>1 DEF PointAt, Operations, Unlinked
    <3> QED BY <3>1, <3>2 DEF AliveAt, SlotAt, Slot
  <2> QED BY <2>1, <2>2 DEF NoDangling
<1> QED BY <1>1, Invariance, PTL

\* An object that nobody can reach any more has been freed.
THEOREM LeaksCorrect ==
  ASSUME Careful PROVE Spec => []NoLeak
<1>1. IInv => NoLeak
  BY DEF IInv
<1> QED BY <1>1, Invariance, PTL

\* unload_data_entry acts on an answer of the manager that is still right, though
\* other threads may have had vm_mutex in between.
THEOREM AnswersCorrect ==
  ASSUME Careful PROVE Spec => []AnswerStands
<1>1. IInv => AnswerStands
  <2> SUFFICES ASSUME IInv, NEW t \in Threads
               PROVE  /\ at[t] = "unload" => /\ dataIdentity[call[t].old] # Null
                                             /\ dataTypes[dataIdentity[call[t].old]] = call[t].old
                      /\ at[t] = "dispose" => dataIdentity[call[t].old] = Null
    BY DEF AnswerStands
  <2>1. AnswerAt(t) /\ PointAt(t) /\ call[t].old \in Objects \cup {Null}
    BY CallType DEF IInv, ThreadInv
  <2>2. at[t] = "unload" => call[t].old \in Objects
    BY <2>1 DEF PointAt, Unlinked
  <2> QED BY <2>1, <2>2 DEF IInv, AnswerAt, CacheAgrees
<1> QED BY <1>1, Invariance, PTL

=============================================================================
