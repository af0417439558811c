------------------------ MODULE PluginManagerProofs ------------------------
(***************************************************************************)
(* Proofs about PluginManager, for any threads, plug-ins, requirement      *)
(* graph, faults and call discipline.                                      *)
(***************************************************************************)
EXTENDS PluginManager, TLAPS, Counts

Loops == {"register", "unregister", "at_exit"}
NoLibraryYet == {"lock", "lookup", "create"}

\* A frame past the lookup has a library; a loop's index is in range.
FrameOK(f) ==
  /\ f \in Frame
  /\ f.at \notin NoLibraryYet => f.lib \in Libs
  /\ f.at \in Loops => f.next >= 1 /\ f.last <= Len(Requires[f.path])

\* A frame that waits for a nested call is at an element of its loop.
Calling(f) == f.at \in Loops /\ f.next <= f.last

StackOK(s) ==
  /\ s \in Seq(Frame)
  /\ \A i \in 1..Len(s) : FrameOK(s[i])
  /\ \A i \in 1..Len(s) - 1 : Calling(s[i])

LEMMA ReplaceTop ==
  ASSUME NEW s, StackOK(s), s # <<>>, NEW f, FrameOK(f)
  PROVE  StackOK([s EXCEPT ![Len(s)] = f])
BY DEF StackOK, FrameOK, Calling

LEMMA PushFrame ==
  ASSUME NEW s, StackOK(s), NEW f, FrameOK(f),
         s # <<>> => Calling(s[Len(s)])
  PROVE  StackOK(Append(s, f))
<1> DEFINE r == Append(s, f)
<1>1. r \in Seq(Frame) /\ Len(r) = Len(s) + 1
  BY DEF StackOK, FrameOK
<1>2. \A i \in 1..Len(s) : r[i] = s[i]
  BY DEF StackOK
<1>3. r[Len(s) + 1] = f
  BY DEF StackOK
<1>4. Len(s) \in Nat
  BY DEF StackOK
<1> HIDE DEF r
<1>5. \A i \in 1..Len(r) : FrameOK(r[i])
  BY <1>1, <1>2, <1>3, <1>4 DEF StackOK
<1>6. \A i \in 1..Len(r) - 1 : Calling(r[i])
  <2> SUFFICES ASSUME NEW i \in 1..Len(s) PROVE Calling(s[i])
    BY <1>1, <1>2, <1>4
  <2>1. CASE i = Len(s)
    BY <2>1, <1>4 DEF StackOK
  <2>2. CASE i < Len(s)
    BY <2>2, <1>4 DEF StackOK
  <2> QED BY <2>1, <2>2, <1>4
<1> QED BY <1>1, <1>5, <1>6 DEF StackOK, r

LEMMA PopFrame ==
  ASSUME NEW s, StackOK(s), Len(s) > 1, NEW f, FrameOK(f)
  PROVE  StackOK([Pop(s) EXCEPT ![Len(s) - 1] = f])
<1> DEFINE r == [Pop(s) EXCEPT ![Len(s) - 1] = f]
<1>1. Len(s) \in Nat /\ s \in Seq(Frame) /\ f \in Frame
  BY DEF StackOK, FrameOK
<1>2. Pop(s) \in Seq(Frame) /\ Len(Pop(s)) = Len(s) - 1
  BY <1>1 DEF Pop
<1>3. \A i \in 1..Len(s) - 1 : Pop(s)[i] = s[i]
  BY <1>1 DEF Pop
<1>4. r \in Seq(Frame) /\ Len(r) = Len(s) - 1
  BY <1>1, <1>2
<1>5. \A i \in 1..Len(s) - 1 : r[i] = IF i = Len(s) - 1 THEN f ELSE s[i]
  BY <1>1, <1>2, <1>3
<1> HIDE DEF r
<1>6. \A i \in 1..Len(r) : FrameOK(r[i])
  BY <1>1, <1>4, <1>5 DEF StackOK
<1>7. \A i \in 1..Len(r) - 1 : Calling(r[i])
  BY <1>1, <1>4, <1>5 DEF StackOK
<1> QED BY <1>4, <1>6, <1>7 DEF StackOK, r

-----------------------------------------------------------------------------
(***************************************************************************)
(* Every frame is well formed, and a plug-in somebody holds has a library  *)
(* that is ready (or has been freed under its holder, which only happens   *)
(* when callers overlap: see NoDangling).                                  *)
(***************************************************************************)
UsableIn(lib, l) == lib[l].ready \/ lib[l].state = "freed"

HandlesUsable ==
  /\ \A t \in Threads, l \in Libs : held[t][l] > 0 => UsableIn(library, l)
  /\ \A p \in Paths : \A i \in DOMAIN Requires[p] :
       statics[p][i] # NoLib => UsableIn(library, statics[p][i])

IInv ==
  /\ TypeOK
  /\ \A t \in Threads : StackOK(stack[t])
  /\ HandlesUsable

LEMMA TopOK ==
  ASSUME NEW t \in Threads, StackOK(stack[t]), ~Idle(t)
  PROVE  /\ FrameOK(Top(t))
         /\ Len(stack[t]) \in Nat \ {0}
         /\ Len(stack[t]) > 1 => FrameOK(Caller(t)) /\ Calling(Caller(t))
BY DEF StackOK, Top, Caller, Idle

\* Resuming a caller keeps its frame well formed.
LEMMA ResumedOK ==
  ASSUME NEW f, FrameOK(f), Calling(f), NEW l \in Libs \cup {NoLib}
  PROVE  FrameOK(Resumed(f, l))
<1>1. f \in Frame /\ f.at \in Loops /\ f.next >= 1 /\ f.next <= f.last
      /\ f.last <= Len(Requires[f.path]) /\ f.lib \in Libs
  BY DEF FrameOK, Calling, Loops, NoLibraryYet
<1>2. f.next \in Nat /\ f.last \in Nat /\ f.path \in Paths
  BY <1>1 DEF Frame
<1>3. Len(Requires[f.path]) \in Nat
  BY <1>2, RequiresAssumption
<1>4. CASE f.at = "register" /\ l = NoLib
  <2> DEFINE g == [f EXCEPT !.at = "unregister", !.next = 1, !.last = f.next - 1]
  <2>0. f.next - 1 \in Nat /\ "unregister" \in Points
    BY <1>1, <1>2 DEF Points
  <2>1. /\ g \in Frame /\ g.at = "unregister" /\ g.next = 1
        /\ g.last = f.next - 1 /\ g.path = f.path /\ g.lib = f.lib
    BY <1>1, <1>2, <2>0 DEF Frame
  <2>2. FrameOK(g)
    BY <2>1, <1>1, <1>2, <1>3 DEF FrameOK, Loops, NoLibraryYet
  <2> QED BY <2>2, <1>4 DEF Resumed
<1>5. CASE ~(f.at = "register" /\ l = NoLib)
  <2> DEFINE g == [f EXCEPT !.next = @ + 1]
  <2>1. /\ g \in Frame /\ g.at = f.at /\ g.next = f.next + 1
        /\ g.last = f.last /\ g.path = f.path /\ g.lib = f.lib
    BY <1>1, <1>2 DEF Frame
  <2>2. FrameOK(g)
    BY <2>1, <1>1, <1>2, <1>3 DEF FrameOK, Loops, NoLibraryYet
  <2> QED BY <2>2, <1>5 DEF Resumed
<1> QED BY <1>4, <1>5

\* What a return changes: the stack stays well formed, and the one handle it
\* may create is on the library it returns.
LEMMA ReturnOK ==
  ASSUME TypeOK, NEW t \in Threads, StackOK(stack[t]), ~Idle(t),
         NEW l \in Libs \cup {NoLib}, Return(t, l)
  PROVE  /\ \E s : StackOK(s) /\ stack' = [stack EXCEPT ![t] = s]
         /\ held' \in [Threads -> [Libs -> Nat]]
         /\ \A u \in Threads, k \in Libs :
              held'[u][k] > 0 => held[u][k] > 0 \/ k = l
         /\ DOMAIN statics' = Paths
         /\ \A p \in Paths :
              /\ statics'[p] \in [DOMAIN Requires[p] -> Libs \cup {NoLib}]
              /\ \A i \in DOMAIN Requires[p] :
                   statics'[p][i] = statics[p][i] \/ statics'[p][i] = l
<1>1. CASE Len(stack[t]) = 1
  <2>1. stack' = [stack EXCEPT ![t] = <<>>] /\ UNCHANGED statics
        /\ held' = IF l = NoLib THEN held ELSE [held EXCEPT ![t][l] = @ + 1]
    BY <1>1 DEF Return
  <2>2. StackOK(<<>>)
    BY DEF StackOK
  <2>3. held \in [Threads -> [Libs -> Nat]]
    BY DEF TypeOK
  <2>4. /\ held' \in [Threads -> [Libs -> Nat]]
        /\ \A u \in Threads, k \in Libs :
             held'[u][k] > 0 => held[u][k] > 0 \/ k = l
    BY <2>1, <2>3
  <2> QED BY <2>1, <2>2, <2>4 DEF TypeOK
<1>2. CASE Len(stack[t]) # 1
  <2>0. Len(stack[t]) \in Nat \ {0}
    BY TopOK
  <2>1. Len(stack[t]) > 1
    <3> DEFINE n == Len(stack[t])
    <3>1. n \in Nat /\ n # 0 /\ n # 1
      BY <1>2, <2>0
    <3> HIDE DEF n
    <3>2. n > 1
      BY <3>1
    <3> QED BY <3>2 DEF n
  <2>a. FrameOK(Caller(t)) /\ Calling(Caller(t))
    BY <2>1, TopOK
  <2>2. /\ stack' = [stack EXCEPT ![t] =
              [Pop(@) EXCEPT ![Len(stack[t]) - 1] = Resumed(Caller(t), l)]]
        /\ statics' = [statics EXCEPT ![Caller(t).path][Caller(t).next] = l]
        /\ UNCHANGED held
    BY <1>2 DEF Return
  <2>3. FrameOK(Resumed(Caller(t), l))
    BY <2>a, ResumedOK
  <2>4. StackOK([Pop(stack[t]) EXCEPT ![Len(stack[t]) - 1] = Resumed(Caller(t), l)])
    BY <2>1, <2>3, PopFrame
  <2>5. \A p \in Paths :
          /\ statics'[p] \in [DOMAIN Requires[p] -> Libs \cup {NoLib}]
          /\ \A i \in DOMAIN Requires[p] :
               statics'[p][i] = statics[p][i] \/ statics'[p][i] = l
    <3> SUFFICES ASSUME NEW p \in Paths
                 PROVE  /\ statics'[p] \in [DOMAIN Requires[p] -> Libs \cup {NoLib}]
                        /\ \A i \in DOMAIN Requires[p] :
                             statics'[p][i] = statics[p][i] \/ statics'[p][i] = l
      OBVIOUS
    <3>1. statics[p] \in [DOMAIN Requires[p] -> Libs \cup {NoLib}]
      BY DEF TypeOK
    <3>2. statics'[p] = statics[p] \/ statics'[p] = [statics[p] EXCEPT ![Caller(t).next] = l]
      BY <2>2
    <3> QED BY <3>1, <3>2
  <2> QED BY <2>2, <2>4, <2>5 DEF TypeOK
<1> QED BY <1>1, <1>2

LEMMA ChangedStack ==
  ASSUME IInv, NEW t \in Threads, NEW s, StackOK(s),
         stack' = [stack EXCEPT ![t] = s]
  PROVE  /\ stack' \in [Threads -> Seq(Frame)]
         /\ \A u \in Threads : StackOK(stack'[u])
BY DEF IInv, TypeOK, StackOK

\* The steps of a thread that stay in the innermost call.
LEMMA BecomeStep ==
  ASSUME IInv, NEW t \in Threads, ~Idle(t), NEW f, FrameOK(f), Become(t, f)
  PROVE  /\ stack' \in [Threads -> Seq(Frame)]
         /\ \A u \in Threads : StackOK(stack'[u])
<1>1. StackOK(stack[t]) /\ stack[t] # <<>>
  BY DEF IInv, Idle
<1> DEFINE s == [stack[t] EXCEPT ![Len(stack[t])] = f]
<1>2. StackOK(s)
  BY <1>1, ReplaceTop
<1>3. stack' = [stack EXCEPT ![t] = s]
  BY DEF Become
<1> HIDE DEF s
<1> QED BY <1>2, <1>3, ChangedStack

LEMMA GotoStep ==
  ASSUME IInv, NEW t \in Threads, ~Idle(t), NEW point \in Points \ Loops,
         Top(t).at \notin NoLibraryYet \/ point \in NoLibraryYet,
         Goto(t, point)
  PROVE  /\ stack' \in [Threads -> Seq(Frame)]
         /\ \A u \in Threads : StackOK(stack'[u])
<1> DEFINE f == Top(t)
           g == [f EXCEPT !.at = point]
<1>1. FrameOK(f)
  BY TopOK DEF IInv
<1>2. f \in Frame
  BY <1>1 DEF FrameOK
<1>3. g \in Frame /\ g.at = point /\ g.lib = f.lib
  BY <1>2 DEF Frame
<1>4. FrameOK(g)
  BY <1>1, <1>3 DEF FrameOK
<1>5. Become(t, g)
  BY DEF Goto
<1> HIDE DEF g
<1> QED BY <1>4, <1>5, BecomeStep

LEMMA GotoLoopStep ==
  ASSUME IInv, NEW t \in Threads, ~Idle(t), NEW point \in Loops,
         Top(t).at \notin NoLibraryYet,
         GotoLoop(t, point, Len(Requires[Top(t).path]))
  PROVE  /\ stack' \in [Threads -> Seq(Frame)]
         /\ \A u \in Threads : StackOK(stack'[u])
<1> DEFINE f == Top(t)
           n == Len(Requires[f.path])
           g == [f EXCEPT !.at = point, !.next = 1, !.last = n]
<1>1. FrameOK(f)
  BY TopOK DEF IInv
<1>2. f \in Frame
  BY <1>1 DEF FrameOK
<1>3. n \in Nat
  BY <1>2, RequiresAssumption DEF Frame
<1>4. point \in Points
  BY DEF Loops, Points
<1>5. /\ g \in Frame /\ g.at = point /\ g.lib = f.lib
      /\ g.next = 1 /\ g.last = n /\ g.path = f.path
  BY <1>2, <1>3, <1>4 DEF Frame
<1>6. FrameOK(g)
  BY <1>1, <1>3, <1>5 DEF FrameOK
<1>7. Become(t, g)
  BY DEF GotoLoop
<1> HIDE DEF g
<1> QED BY <1>6, <1>7, BecomeStep

\* Calls: by the application, or from a loop of the innermost call.
LEMMA CallStep ==
  ASSUME IInv, NEW t \in Threads, Idle(t) \/ Calling(Top(t)),
         NEW point \in {"lock", "dispose"}, NEW p \in Paths,
         NEW l \in Libs \cup {NoLib}, point = "dispose" => l \in Libs,
         Call(t, NewCall(point, p, l))
  PROVE  /\ stack' \in [Threads -> Seq(Frame)]
         /\ \A u \in Threads : StackOK(stack'[u])
<1> DEFINE f == NewCall(point, p, l)
           s == Append(stack[t], f)
<1>1. FrameOK(f)
  BY DEF FrameOK, NewCall, Frame, Points, NoLibraryYet, Loops
<1>2. StackOK(stack[t])
  BY DEF IInv
<1>3. stack[t] # <<>> => Calling(stack[t][Len(stack[t])])
  BY DEF Idle, Top
<1> HIDE DEF f
<1>4. StackOK(s)
  BY <1>1, <1>2, <1>3, PushFrame
<1>5. stack' = [stack EXCEPT ![t] = s]
  BY DEF Call, f
<1> HIDE DEF s
<1> QED BY <1>4, <1>5, ChangedStack

\* A return that hands out nothing, or a library that is ready.
LEMMA ReturnStep ==
  ASSUME IInv, NEW t \in Threads, ~Idle(t), NEW l \in Libs \cup {NoLib},
         Return(t, l), library' \in [Libs -> Library],
         \A k \in Libs : UsableIn(library, k) => UsableIn(library', k),
         l \in Libs => UsableIn(library', l)
  PROVE  /\ stack' \in [Threads -> Seq(Frame)]
         /\ \A u \in Threads : StackOK(stack'[u])
         /\ held' \in [Threads -> [Libs -> Nat]]
         /\ DOMAIN statics' = Paths
         /\ \A p \in Paths : statics'[p] \in [DOMAIN Requires[p] -> Libs \cup {NoLib}]
         /\ HandlesUsable'
<1>1. TypeOK /\ StackOK(stack[t]) /\ HandlesUsable
  BY DEF IInv
<1>2. PICK s : StackOK(s) /\ stack' = [stack EXCEPT ![t] = s]
  BY <1>1, ReturnOK
<1>3. /\ stack' \in [Threads -> Seq(Frame)]
      /\ \A u \in Threads : StackOK(stack'[u])
  BY <1>2, ChangedStack
<1>4. /\ held' \in [Threads -> [Libs -> Nat]]
      /\ \A u \in Threads, k \in Libs :
           held'[u][k] > 0 => held[u][k] > 0 \/ k = l
      /\ DOMAIN statics' = Paths
      /\ \A p \in Paths :
           /\ statics'[p] \in [DOMAIN Requires[p] -> Libs \cup {NoLib}]
           /\ \A i \in DOMAIN Requires[p] :
                statics'[p][i] = statics[p][i] \/ statics'[p][i] = l
  BY <1>1, ReturnOK
<1>5. \A p \in Paths : statics[p] \in [DOMAIN Requires[p] -> Libs \cup {NoLib}]
  BY <1>1 DEF TypeOK
<1>6. \A u \in Threads, k \in Libs : held'[u][k] > 0 => UsableIn(library', k)
  BY <1>1, <1>4 DEF HandlesUsable
<1>7. \A p \in Paths : \A i \in DOMAIN Requires[p] :
        statics'[p][i] # NoLib => UsableIn(library', statics'[p][i])
  <2> SUFFICES ASSUME NEW p \in Paths, NEW i \in DOMAIN Requires[p],
                      statics'[p][i] # NoLib
               PROVE  UsableIn(library', statics'[p][i])
    OBVIOUS
  <2>1. CASE statics'[p][i] = l
    BY <2>1
  <2>2. CASE statics'[p][i] = statics[p][i]
    <3>1. statics[p][i] \in Libs /\ UsableIn(library, statics[p][i])
      BY <2>2, <1>1, <1>5 DEF HandlesUsable
    <3>2. UsableIn(library', statics[p][i])
      BY <3>1
    <3> QED BY <3>2, <2>2
  <2> QED BY <2>1, <2>2, <1>4
<1> QED BY <1>3, <1>4, <1>6, <1>7 DEF HandlesUsable

LEMMA Initially == Init => IInv
<1> SUFFICES ASSUME Init PROVE IInv
  OBVIOUS
<1>1. (CHOOSE p \in Paths : TRUE) \in Paths
  BY PathsAssumption
<1>2. TypeOK
  <2>1. library \in [Libs -> Library]
    BY <1>1 DEF Init, Library
  <2>2. calls \in [Threads -> 0..MaxCalls] /\ ref \in [Libs -> Nat]
        /\ held \in [Threads -> [Libs -> Nat]]
    BY BoundsAssumption DEF Init
  <2>3. stack \in [Threads -> Seq(Frame)] /\ cache \in [Paths -> Libs \cup {NoLib}]
    BY DEF Init
  <2>4. /\ DOMAIN statics = Paths
        /\ \A p \in Paths : statics[p] \in [DOMAIN Requires[p] -> Libs \cup {NoLib}]
    BY DEF Init
  <2> QED BY <2>1, <2>2, <2>3, <2>4 DEF Init, TypeOK
<1>3. \A t \in Threads : StackOK(stack[t])
  BY DEF Init, StackOK
<1>4. HandlesUsable
  BY DEF Init, HandlesUsable
<1> QED BY <1>2, <1>3, <1>4 DEF IInv

\* Steps that hand out nothing and leave the usable libraries usable.
LEMMA SameHandles ==
  ASSUME IInv, UNCHANGED <<statics, held>>,
         \A l \in Libs : UsableIn(library, l) => UsableIn(library', l)
  PROVE  HandlesUsable'
BY DEF IInv, HandlesUsable, TypeOK

LEMMA CacheRemoveTyped ==
  ASSUME IInv, NEW l \in Libs, CacheRemove(l)
  PROVE  cache' \in [Paths -> Libs \cup {NoLib}] /\ ref' \in [Libs -> Nat]
<1> DEFINE p == library[l].path
<1>1. cache \in [Paths -> Libs \cup {NoLib}] /\ ref \in [Libs -> Nat]
  BY DEF IInv, TypeOK
<1>2. cache' = [cache EXCEPT ![p] = NoLib]
  BY DEF CacheRemove
<1>3. ref' = [k \in Libs |-> IF k = cache[p] /\ ref[k] > 0 THEN ref[k] - 1 ELSE ref[k]]
  BY DEF CacheRemove
<1> HIDE DEF p
<1>4. cache' \in [Paths -> Libs \cup {NoLib}]
  BY <1>1, <1>2
<1>5. \A k \in Libs : (IF k = cache[p] /\ ref[k] > 0 THEN ref[k] - 1 ELSE ref[k]) \in Nat
  BY <1>1
<1>6. ref' \in [Libs -> Nat]
  BY <1>3, <1>5
<1> QED BY <1>4, <1>6

\* Replacing one library by one that is no less usable.
LEMMA ChangedLibrary ==
  ASSUME TypeOK, NEW l \in Libs, NEW r \in Library,
         library' = [library EXCEPT ![l] = r],
         library[l].ready \/ library[l].state = "freed"
           => r.ready \/ r.state = "freed"
  PROVE  /\ library' \in [Libs -> Library]
         /\ library'[l] = r
         /\ \A k \in Libs : UsableIn(library, k) => UsableIn(library', k)
BY DEF TypeOK, UsableIn

LEMMA StepPreserves ==
  ASSUME IInv, NEW t \in Threads, Step(t)
  PROVE  IInv'
<1> DEFINE f == Top(t)
<1>0. TypeOK /\ HandlesUsable /\ \A u \in Threads : StackOK(stack[u])
  BY DEF IInv
<1>s. ~Idle(t)
  BY DEF Step, At, LockManager, ResolveFails, LookupHit, ShareLibrary, SpinEnds,
         LookupMiss, CreateLibrary, LoadLibrary, RegisterRequired, RegisterClasses,
         PublishLibrary, SetReady, DiscardLibrary, DecRef, CheckLastReference,
         UncacheLibrary, ZeroRef, TestUnreferenced, DestroyLibrary, DeleteRequired,
         RequiredDeleted, FreeLibrary
<1>f. FrameOK(f) /\ f \in Frame
  BY <1>0, <1>s, TopOK DEF FrameOK
<1>l. f.at \notin NoLibraryYet => f.lib \in Libs
  BY <1>f DEF FrameOK
<1>p. f.path \in Paths
  BY <1>f DEF Frame
<1> HIDE DEF f
<1> USE DEF At
<1>1. CASE LockManager(t)
  <2>1. f.at \notin NoLibraryYet \/ "lookup" \in NoLibraryYet
    BY <1>1 DEF LockManager, NoLibraryYet, f
  <2>2. Goto(t, "lookup") /\ "lookup" \in Points \ Loops
    BY <1>1 DEF LockManager, Points, Loops
  <2>3. stack' \in [Threads -> Seq(Frame)] /\ \A u \in Threads : StackOK(stack'[u])
    BY <1>s, <2>1, <2>2, GotoStep DEF f
  <2>4. TypeOK' /\ HandlesUsable'
    BY <1>1, <1>0, <1>l, <2>3, SameHandles DEF LockManager, TypeOK, Library, NoLibraryYet, f, UsableIn
  <2> QED BY <2>3, <2>4 DEF IInv
<1>2. CASE ResolveFails(t)
  <2>1. Return(t, NoLib) /\ UNCHANGED <<initialized, owner, cache, library, ref, calls>>
    BY <1>2 DEF ResolveFails
  <2>2. NoLib \notin Libs
    BY LibsAssumption
  <2> QED BY <1>0, <1>s, <2>1, <2>2, ReturnStep DEF IInv, TypeOK, UsableIn
<1>3. CASE LookupHit(t)
  <2> DEFINE g == [f EXCEPT !.at = "share", !.lib = cache[f.path]]
  <2>1. Become(t, g) /\ cache[f.path] # NoLib
    BY <1>3 DEF LookupHit, f
  <2>2. cache[f.path] \in Libs
    BY <1>0, <1>p, <2>1 DEF TypeOK
  <2>3. g \in Frame /\ g.at = "share" /\ g.lib = cache[f.path]
    BY <1>f, <2>2 DEF Frame, Points
  <2>4. FrameOK(g)
    BY <2>2, <2>3 DEF FrameOK, Loops
  <2> HIDE DEF g
  <2>5. stack' \in [Threads -> Seq(Frame)] /\ \A u \in Threads : StackOK(stack'[u])
    BY <1>s, <2>1, <2>4, BecomeStep
  <2>6. TypeOK' /\ HandlesUsable'
    BY <1>3, <1>0, <2>5, SameHandles DEF LookupHit, TypeOK, UsableIn
  <2> QED BY <2>5, <2>6 DEF IInv
<1>4. CASE ShareLibrary(t)
  <2>1. f.at \notin NoLibraryYet \/ "spin" \in NoLibraryYet
    BY <1>4 DEF ShareLibrary, NoLibraryYet, f
  <2>2. Goto(t, "spin") /\ "spin" \in Points \ Loops
    BY <1>4 DEF ShareLibrary, Points, Loops
  <2>3. stack' \in [Threads -> Seq(Frame)] /\ \A u \in Threads : StackOK(stack'[u])
    BY <1>s, <2>1, <2>2, GotoStep DEF f
  <2>4. TypeOK'
    BY <1>4, <1>0, <1>l, <2>3 DEF ShareLibrary, TypeOK, NoLibraryYet, f
  <2>5. HandlesUsable'
    BY <1>4, <1>0, SameHandles DEF ShareLibrary, UsableIn
  <2> QED BY <2>3, <2>4, <2>5 DEF IInv
<1>5. CASE SpinEnds(t)
  <2>1. Return(t, f.lib) /\ UNCHANGED <<initialized, owner, cache, library, ref, calls>>
        /\ f.lib \in Libs /\ library[f.lib].ready
    BY <1>5, <1>l DEF SpinEnds, f, NoLibraryYet
  <2> QED BY <1>0, <1>s, <2>1, ReturnStep DEF IInv, TypeOK, UsableIn
<1>6. CASE LookupMiss(t)
  <2>1. f.at \notin NoLibraryYet \/ "create" \in NoLibraryYet
    BY <1>6 DEF LookupMiss, NoLibraryYet, f
  <2>2. Goto(t, "create") /\ "create" \in Points \ Loops
    BY <1>6 DEF LookupMiss, Points, Loops
  <2>3. stack' \in [Threads -> Seq(Frame)] /\ \A u \in Threads : StackOK(stack'[u])
    BY <1>s, <2>1, <2>2, GotoStep DEF f
  <2>4. TypeOK' /\ HandlesUsable'
    BY <1>6, <1>0, <1>l, <2>3, SameHandles DEF LookupMiss, TypeOK, Library, NoLibraryYet, f, UsableIn
  <2> QED BY <2>3, <2>4 DEF IInv
<1>7. CASE CreateLibrary(t)
  <2> DEFINE new == [state |-> "live", path |-> f.path, ready |-> FALSE,
                     inManager |-> FALSE, dso |-> FALSE]
  <2>1. PICK l \in Libs :
          /\ Fresh(l)
          /\ library' = [library EXCEPT ![l] = new]
          /\ ref' = [ref EXCEPT ![l] = 1]
          /\ cache' = [cache EXCEPT ![f.path] = l]
          /\ Become(t, [f EXCEPT !.at = "load", !.lib = l])
    BY <1>7 DEF CreateLibrary, f
  <2> DEFINE g == [f EXCEPT !.at = "load", !.lib = l]
  <2>2. g \in Frame /\ g.at = "load" /\ g.lib = l
    BY <1>f DEF Frame, Points
  <2>3. FrameOK(g)
    BY <2>2 DEF FrameOK, Loops
  <2>4. stack' \in [Threads -> Seq(Frame)] /\ \A u \in Threads : StackOK(stack'[u])
    BY <1>s, <2>1, <2>3, BecomeStep
  <2>5. new \in Library
    BY <1>p DEF Library
  <2>6. owner' = NoThread /\ UNCHANGED <<initialized, statics, held, calls>>
    BY <1>7 DEF CreateLibrary
  <2> HIDE DEF new, g
  <2>7. TypeOK'
    BY <1>0, <1>p, <2>1, <2>4, <2>5, <2>6 DEF TypeOK
  <2>8. /\ \A u \in Threads : held[u][l] = 0
        /\ \A p \in Paths : \A i \in DOMAIN Requires[p] : statics[p][i] # l
    BY <1>0, <2>1 DEF Fresh, TypeOK
  <2>9. \A k \in Libs : k # l /\ UsableIn(library, k) => UsableIn(library', k)
    BY <1>0, <2>1 DEF UsableIn, TypeOK
  <2>10. HandlesUsable'
    BY <1>0, <2>6, <2>8, <2>9 DEF HandlesUsable, TypeOK
  <2> QED BY <2>4, <2>7, <2>10 DEF IInv
<1>8. CASE LoadLibrary(t)
  <2>1. f.at \notin NoLibraryYet
    BY <1>8 DEF LoadLibrary, NoLibraryYet, f
  <2>2. \/ Goto(t, "discard")
        \/ GotoLoop(t, "register", Len(Requires[f.path]))
    BY <1>8 DEF LoadLibrary, f
  <2>3. "discard" \in Points \ Loops /\ "register" \in Loops
    BY DEF Points, Loops
  <2>4. stack' \in [Threads -> Seq(Frame)] /\ \A u \in Threads : StackOK(stack'[u])
    BY <1>s, <2>1, <2>2, <2>3, GotoStep, GotoLoopStep DEF f
  <2>5. TypeOK' /\ HandlesUsable'
    BY <1>8, <1>0, <2>4, SameHandles DEF LoadLibrary, TypeOK, UsableIn
  <2> QED BY <2>4, <2>5 DEF IInv
<1>9. CASE RegisterRequired(t)
  <2> DEFINE q == Requires[f.path][f.next]
  <2>1. f.at = "register" /\ f.next <= f.last /\ Call(t, NewCall("lock", q, NoLib))
    BY <1>9 DEF RegisterRequired, f
  <2>2. f.next \in 1..Len(Requires[f.path]) /\ Requires[f.path] \in Seq(Paths)
    BY <1>f, <1>p, <2>1, RequiresAssumption DEF FrameOK, Frame, Loops
  <2>3. q \in Paths /\ Calling(f)
    BY <2>1, <2>2 DEF Calling, Loops
  <2> HIDE DEF q
  <2>4. stack' \in [Threads -> Seq(Frame)] /\ \A u \in Threads : StackOK(stack'[u])
    BY <2>1, <2>3, CallStep DEF f
  <2>5. TypeOK' /\ HandlesUsable'
    BY <1>9, <1>0, <2>4, SameHandles DEF RegisterRequired, TypeOK, UsableIn
  <2> QED BY <2>4, <2>5 DEF IInv
<1>10. CASE RegisterClasses(t)
  <2>1. f.at \notin NoLibraryYet /\ f.lib \in Libs
    BY <1>10, <1>l DEF RegisterClasses, NoLibraryYet, f
  <2>2. \/ GotoLoop(t, "unregister", Len(Requires[f.path])) /\ UNCHANGED library
        \/ Goto(t, "publish") /\ library' = [library EXCEPT ![f.lib].dso = TRUE]
    BY <1>10 DEF RegisterClasses, f
  <2>3. "publish" \in Points \ Loops /\ "unregister" \in Loops
    BY DEF Points, Loops
  <2>4. stack' \in [Threads -> Seq(Frame)] /\ \A u \in Threads : StackOK(stack'[u])
    BY <1>s, <2>1, <2>2, <2>3, GotoStep, GotoLoopStep DEF f
  <2>5. /\ library' \in [Libs -> Library]
        /\ \A l \in Libs : UsableIn(library, l) => UsableIn(library', l)
    <3>1. CASE UNCHANGED library
      BY <1>0, <3>1 DEF TypeOK
    <3>2. CASE library' = [library EXCEPT ![f.lib].dso = TRUE]
      <4> DEFINE r == [library[f.lib] EXCEPT !.dso = TRUE]
      <4>1. library[f.lib] \in Library
        BY <1>0, <2>1 DEF TypeOK
      <4>2. r \in Library /\ r.ready = library[f.lib].ready /\ r.state = library[f.lib].state
        BY <4>1 DEF Library
      <4>3. library' = [library EXCEPT ![f.lib] = r]
        BY <3>2
      <4> HIDE DEF r
      <4> QED BY <1>0, <2>1, <4>2, <4>3, ChangedLibrary
    <3> QED BY <2>2, <3>1, <3>2
  <2>6. TypeOK' /\ HandlesUsable'
    BY <1>10, <1>0, <2>4, <2>5, SameHandles DEF RegisterClasses, TypeOK
  <2> QED BY <2>4, <2>6 DEF IInv
<1>11. CASE PublishLibrary(t)
  <2>1. f.at \notin NoLibraryYet /\ f.lib \in Libs
    BY <1>11, <1>l DEF PublishLibrary, NoLibraryYet, f
  <2>2. Goto(t, "set_ready") /\ "set_ready" \in Points \ Loops
    BY <1>11 DEF PublishLibrary, Points, Loops
  <2>3. stack' \in [Threads -> Seq(Frame)] /\ \A u \in Threads : StackOK(stack'[u])
    BY <1>s, <2>1, <2>2, GotoStep DEF f
  <2> DEFINE r == [library[f.lib] EXCEPT !.inManager = TRUE]
  <2>4. library[f.lib] \in Library
    BY <1>0, <2>1 DEF TypeOK
  <2>5. r \in Library /\ r.ready = library[f.lib].ready /\ r.state = library[f.lib].state
    BY <2>4 DEF Library
  <2>6. library' = [library EXCEPT ![f.lib] = r]
    BY <1>11 DEF PublishLibrary, f
  <2> HIDE DEF r
  <2>7. /\ library' \in [Libs -> Library]
        /\ \A k \in Libs : UsableIn(library, k) => UsableIn(library', k)
    BY <1>0, <2>1, <2>5, <2>6, ChangedLibrary
  <2>8. ref' = [ref EXCEPT ![f.lib] = @ + 1]
        /\ UNCHANGED <<initialized, owner, cache, statics, held, calls>>
    BY <1>11 DEF PublishLibrary, f
  <2>9. ref' \in [Libs -> Nat]
    BY <1>0, <2>1, <2>8 DEF TypeOK
  <2>10. TypeOK' /\ HandlesUsable'
    BY <1>0, <2>3, <2>7, <2>8, <2>9, SameHandles DEF TypeOK
  <2> QED BY <2>3, <2>10 DEF IInv
<1>12. CASE SetReady(t)
  <2>1. f.lib \in Libs /\ Return(t, f.lib)
        /\ library' = [library EXCEPT ![f.lib].ready = TRUE]
        /\ UNCHANGED <<initialized, owner, cache, ref, calls>>
    BY <1>12, <1>l DEF SetReady, f, NoLibraryYet
  <2>2. library' \in [Libs -> Library] /\ UsableIn(library', f.lib)
        /\ \A l \in Libs : UsableIn(library, l) => UsableIn(library', l)
    <3> DEFINE r == [library[f.lib] EXCEPT !.ready = TRUE]
    <3>1. library[f.lib] \in Library
      BY <1>0, <2>1 DEF TypeOK
    <3>2. r \in Library /\ r.ready = TRUE
      BY <3>1 DEF Library
    <3>3. library' = [library EXCEPT ![f.lib] = r]
      BY <2>1
    <3> HIDE DEF r
    <3> QED BY <1>0, <2>1, <3>2, <3>3, ChangedLibrary DEF UsableIn
  <2> QED BY <1>0, <1>s, <2>1, <2>2, ReturnStep DEF IInv, TypeOK
<1>13. CASE DiscardLibrary(t)
  <2>1. f.lib \in Libs /\ f.at \notin NoLibraryYet
    BY <1>13, <1>l DEF DiscardLibrary, NoLibraryYet, f
  <2>2. Goto(t, "dispose") /\ "dispose" \in Points \ Loops /\ CacheRemove(f.lib)
        /\ UNCHANGED <<initialized, owner, library, statics, held, calls>>
    BY <1>13 DEF DiscardLibrary, Points, Loops, f
  <2>3. stack' \in [Threads -> Seq(Frame)] /\ \A u \in Threads : StackOK(stack'[u])
    BY <1>s, <2>1, <2>2, GotoStep DEF f
  <2>4. cache' \in [Paths -> Libs \cup {NoLib}] /\ ref' \in [Libs -> Nat]
    BY <2>1, <2>2, CacheRemoveTyped
  <2>5. TypeOK' /\ HandlesUsable'
    BY <1>0, <2>2, <2>3, <2>4, SameHandles DEF TypeOK, UsableIn
  <2> QED BY <2>3, <2>5 DEF IInv
<1>14. CASE DecRef(t)
  <2>1. f.at \notin NoLibraryYet \/ "check" \in NoLibraryYet
    BY <1>14 DEF DecRef, NoLibraryYet, f
  <2>2. Goto(t, "check") /\ "check" \in Points \ Loops
    BY <1>14 DEF DecRef, Points, Loops
  <2>3. stack' \in [Threads -> Seq(Frame)] /\ \A u \in Threads : StackOK(stack'[u])
    BY <1>s, <2>1, <2>2, GotoStep DEF f
  <2>4. TypeOK'
    <3>1. \A m \in Nat : (IF m > 0 THEN m - 1 ELSE 0) \in Nat
      OBVIOUS
    <3>2. /\ ref' = [ref EXCEPT ![f.lib] = IF @ > 0 THEN @ - 1 ELSE 0]
          /\ ref \in [Libs -> Nat]
      BY <1>14, <1>0 DEF DecRef, TypeOK, f
    <3>3. ref' \in [Libs -> Nat]
      BY <3>1, <3>2
    <3> QED BY <1>14, <1>0, <2>3, <3>3 DEF DecRef, TypeOK
  <2>5. HandlesUsable'
    BY <1>14, <1>0, SameHandles DEF DecRef, UsableIn
  <2> QED BY <2>3, <2>4, <2>5 DEF IInv
<1>15. CASE CheckLastReference(t)
  <2>1. f.at \notin NoLibraryYet
    BY <1>15 DEF CheckLastReference, NoLibraryYet, f
  <2>2. Goto(t, "uncache") \/ Goto(t, "test")
    BY <1>15 DEF CheckLastReference
  <2>3. "uncache" \in Points \ Loops /\ "test" \in Points \ Loops
    BY DEF Points, Loops
  <2>4. stack' \in [Threads -> Seq(Frame)] /\ \A u \in Threads : StackOK(stack'[u])
    BY <1>s, <2>1, <2>2, <2>3, GotoStep DEF f
  <2>5. TypeOK' /\ HandlesUsable'
    BY <1>15, <1>0, <2>4, SameHandles DEF CheckLastReference, TypeOK, UsableIn
  <2> QED BY <2>4, <2>5 DEF IInv
<1>16. CASE UncacheLibrary(t)
  <2>1. f.lib \in Libs /\ f.at \notin NoLibraryYet
    BY <1>16, <1>l DEF UncacheLibrary, NoLibraryYet, f
  <2>2. Goto(t, "zero") /\ "zero" \in Points \ Loops /\ CacheRemove(f.lib)
        /\ UNCHANGED <<initialized, owner, library, statics, held, calls>>
    BY <1>16 DEF UncacheLibrary, Points, Loops, f
  <2>3. stack' \in [Threads -> Seq(Frame)] /\ \A u \in Threads : StackOK(stack'[u])
    BY <1>s, <2>1, <2>2, GotoStep DEF f
  <2>4. cache' \in [Paths -> Libs \cup {NoLib}] /\ ref' \in [Libs -> Nat]
    BY <2>1, <2>2, CacheRemoveTyped
  <2>5. TypeOK' /\ HandlesUsable'
    BY <1>0, <2>2, <2>3, <2>4, SameHandles DEF TypeOK, UsableIn
  <2> QED BY <2>3, <2>5 DEF IInv
<1>17. CASE ZeroRef(t)
  <2>1. f.at \notin NoLibraryYet \/ "test" \in NoLibraryYet
    BY <1>17 DEF ZeroRef, NoLibraryYet, f
  <2>2. Goto(t, "test") /\ "test" \in Points \ Loops
    BY <1>17 DEF ZeroRef, Points, Loops
  <2>3. stack' \in [Threads -> Seq(Frame)] /\ \A u \in Threads : StackOK(stack'[u])
    BY <1>s, <2>1, <2>2, GotoStep DEF f
  <2>4. TypeOK' /\ HandlesUsable'
    BY <1>17, <1>0, <1>l, <2>3, SameHandles DEF ZeroRef, TypeOK, Library, NoLibraryYet, f, UsableIn
  <2> QED BY <2>3, <2>4 DEF IInv
<1>18. CASE TestUnreferenced(t)
  <2>1. UNCHANGED <<initialized, owner, cache, library, ref, calls>>
    BY <1>18 DEF TestUnreferenced
  <2>2. CASE Goto(t, "destroy") /\ UNCHANGED <<statics, held>>
    <3>1. f.at \notin NoLibraryYet /\ "destroy" \in Points \ Loops
      BY <1>18 DEF TestUnreferenced, NoLibraryYet, f, Points, Loops
    <3>2. stack' \in [Threads -> Seq(Frame)] /\ \A u \in Threads : StackOK(stack'[u])
      BY <1>s, <2>2, <3>1, GotoStep DEF f
    <3>3. TypeOK' /\ HandlesUsable'
      BY <1>0, <2>1, <2>2, <3>2, SameHandles DEF TypeOK, UsableIn
    <3> QED BY <3>2, <3>3 DEF IInv
  <2>3. CASE Return(t, NoLib)
    <3>1. NoLib \notin Libs
      BY LibsAssumption
    <3> QED BY <1>0, <1>s, <2>1, <2>3, <3>1, ReturnStep DEF IInv, TypeOK, UsableIn
  <2> QED BY <1>18, <2>2, <2>3 DEF TestUnreferenced
<1>19. CASE DestroyLibrary(t)
  <2>1. f.at \notin NoLibraryYet
    BY <1>19 DEF DestroyLibrary, NoLibraryYet, f
  <2>2. \/ GotoLoop(t, "at_exit", Len(Requires[f.path]))
        \/ Goto(t, "free")
    BY <1>19 DEF DestroyLibrary, f
  <2>3. "free" \in Points \ Loops /\ "at_exit" \in Loops
    BY DEF Points, Loops
  <2>4. stack' \in [Threads -> Seq(Frame)] /\ \A u \in Threads : StackOK(stack'[u])
    BY <1>s, <2>1, <2>2, <2>3, GotoStep, GotoLoopStep DEF f
  <2>5. TypeOK' /\ HandlesUsable'
    BY <1>19, <1>0, <2>4, SameHandles DEF DestroyLibrary, TypeOK, UsableIn
  <2> QED BY <2>4, <2>5 DEF IInv
<1>20. CASE DeleteRequired(t)
  <2> DEFINE l == statics[f.path][f.next]
  <2>1. /\ f.at \in Loops /\ f.next <= f.last
        /\ IF l = NoLib THEN Become(t, [f EXCEPT !.next = @ + 1])
                        ELSE Call(t, NewCall("dispose", library[l].path, l))
    BY <1>20 DEF DeleteRequired, Loops, f
  <2>2. f.next \in 1..Len(Requires[f.path]) /\ Requires[f.path] \in Seq(Paths)
        /\ f.last <= Len(Requires[f.path]) /\ f.last \in Nat
    BY <1>f, <1>p, <2>1, RequiresAssumption DEF FrameOK, Frame
  <2>3. l \in Libs \cup {NoLib}
    BY <1>0, <1>p, <2>2 DEF TypeOK
  <2>4. ASSUME l = NoLib
        PROVE  stack' \in [Threads -> Seq(Frame)] /\ \A u \in Threads : StackOK(stack'[u])
    <3> DEFINE g == [f EXCEPT !.next = @ + 1]
    <3>1. g \in Frame /\ g.at = f.at /\ g.next = f.next + 1 /\ g.last = f.last
          /\ g.lib = f.lib /\ g.path = f.path
      BY <1>f, <2>2 DEF Frame
    <3>2. FrameOK(g)
      BY <1>f, <3>1, <2>2 DEF FrameOK
    <3> HIDE DEF g
    <3> QED BY <1>s, <2>1, <2>4, <3>2, BecomeStep DEF g
  <2>5. ASSUME l # NoLib
        PROVE  stack' \in [Threads -> Seq(Frame)] /\ \A u \in Threads : StackOK(stack'[u])
    <3>1. l \in Libs /\ library[l].path \in Paths /\ Calling(f)
      BY <1>0, <2>1, <2>3, <2>5 DEF TypeOK, Library, Calling
    <3>2. Call(t, NewCall("dispose", library[l].path, l))
      BY <2>1, <2>5
    <3> HIDE DEF l
    <3> QED BY <3>1, <3>2, CallStep DEF f
  <2>6. stack' \in [Threads -> Seq(Frame)] /\ \A u \in Threads : StackOK(stack'[u])
    BY <2>4, <2>5
  <2>7. TypeOK' /\ HandlesUsable'
    BY <1>20, <1>0, <2>6, SameHandles DEF DeleteRequired, TypeOK, UsableIn
  <2> QED BY <2>6, <2>7 DEF IInv
<1>21. CASE RequiredDeleted(t)
  <2>1. f.at \notin NoLibraryYet
    BY <1>21 DEF RequiredDeleted, NoLibraryYet, f
  <2>2. Goto(t, "free") \/ Goto(t, "discard")
    BY <1>21 DEF RequiredDeleted
  <2>3. "free" \in Points \ Loops /\ "discard" \in Points \ Loops
    BY DEF Points, Loops
  <2>4. stack' \in [Threads -> Seq(Frame)] /\ \A u \in Threads : StackOK(stack'[u])
    BY <1>s, <2>1, <2>2, <2>3, GotoStep DEF f
  <2>5. TypeOK' /\ HandlesUsable'
    BY <1>21, <1>0, <2>4, SameHandles DEF RequiredDeleted, TypeOK, UsableIn
  <2> QED BY <2>4, <2>5 DEF IInv
<1>22. CASE FreeLibrary(t)
  <2>1. f.lib \in Libs /\ Return(t, NoLib)
        /\ library' = [library EXCEPT ![f.lib].state = "freed", ![f.lib].ready = FALSE,
                          ![f.lib].inManager = FALSE, ![f.lib].dso = FALSE]
        /\ UNCHANGED <<initialized, owner, cache, ref, calls>>
    BY <1>22, <1>l DEF FreeLibrary, f, NoLibraryYet
  <2>2. library' \in [Libs -> Library] /\ NoLib \notin Libs
        /\ \A l \in Libs : UsableIn(library, l) => UsableIn(library', l)
    <3> DEFINE r == [library[f.lib] EXCEPT !.state = "freed", !.ready = FALSE,
                                          !.inManager = FALSE, !.dso = FALSE]
    <3>1. library[f.lib] \in Library
      BY <1>0, <2>1 DEF TypeOK
    <3>2. r \in Library /\ r.state = "freed"
      BY <3>1 DEF Library
    <3>3. library' = [library EXCEPT ![f.lib] = r]
      BY <2>1
    <3> HIDE DEF r
    <3> QED BY <1>0, <2>1, <3>2, <3>3, ChangedLibrary, LibsAssumption
  <2> QED BY <1>0, <1>s, <2>1, <2>2, ReturnStep DEF IInv, TypeOK
<1> QED
  BY <1>1, <1>2, <1>3, <1>4, <1>5, <1>6, <1>7, <1>8, <1>9, <1>10, <1>11, <1>12,
     <1>13, <1>14, <1>15, <1>16, <1>17,
     <1>18, <1>19, <1>20, <1>21, <1>22 DEF Step

LEMMA NextPreserves == IInv /\ [Next]_vars => IInv'
<1> SUFFICES ASSUME IInv, [Next]_vars PROVE IInv'
  OBVIOUS
<1>0. TypeOK /\ HandlesUsable /\ \A u \in Threads : StackOK(stack[u])
  BY DEF IInv
<1>1. CASE InitManager
  <2>1. TypeOK'
    BY <1>0, <1>1 DEF InitManager, TypeOK
  <2>2. HandlesUsable' /\ \A u \in Threads : StackOK(stack'[u])
    BY <1>0, <1>1 DEF InitManager, HandlesUsable, UsableIn
  <2> QED BY <2>1, <2>2 DEF IInv
<1>2. CASE QuitManager
  <2>1. library' = [l \in Libs |->
          IF \E p \in Paths : cache[p] = l
            THEN [library[l] EXCEPT !.state = "freed"] ELSE library[l]]
        /\ cache' = [p \in Paths |-> NoLib] /\ initialized' = FALSE
        /\ UNCHANGED <<owner, ref, statics, held, stack, calls>>
    BY <1>2 DEF QuitManager
  <2>2. ASSUME NEW l \in Libs
        PROVE  library'[l] \in Library /\ (UsableIn(library, l) => UsableIn(library', l))
    <3>1. library[l] \in Library
      BY <1>0 DEF TypeOK
    <3> DEFINE r == [library[l] EXCEPT !.state = "freed"]
    <3>2. r \in Library /\ r.state = "freed"
      BY <3>1 DEF Library
    <3>3. library'[l] = r \/ library'[l] = library[l]
      BY <2>1
    <3> HIDE DEF r
    <3> QED BY <3>1, <3>2, <3>3 DEF UsableIn
  <2>3. TypeOK'
    BY <1>0, <2>1, <2>2 DEF TypeOK
  <2>4. HandlesUsable'
    BY <2>1, <2>2, SameHandles
  <2> QED BY <1>0, <2>1, <2>3, <2>4 DEF IInv
<1>3. ASSUME NEW t \in Threads, NEW p \in Paths, CallLoad(t, p)
      PROVE  IInv'
  <2>1. stack' \in [Threads -> Seq(Frame)] /\ \A u \in Threads : StackOK(stack'[u])
    BY <1>3, CallStep DEF CallLoad
  <2>2. calls' \in [Threads -> 0..MaxCalls]
    BY <1>0, <1>3, BoundsAssumption DEF CallLoad, TypeOK
  <2>3. TypeOK' /\ HandlesUsable'
    BY <1>0, <1>3, <2>1, <2>2, SameHandles DEF CallLoad, TypeOK, UsableIn
  <2> QED BY <2>1, <2>3 DEF IInv
<1>4. ASSUME NEW t \in Threads, NEW l \in Libs, CallDelete(t, l)
      PROVE  IInv'
  <2>1. library[l].path \in Paths
    BY <1>0 DEF TypeOK, Library
  <2>2. stack' \in [Threads -> Seq(Frame)] /\ \A u \in Threads : StackOK(stack'[u])
    BY <1>4, <2>1, CallStep DEF CallDelete
  <2>3. held' = [held EXCEPT ![t][l] = @ - 1] /\ held[t][l] > 0
        /\ UNCHANGED <<initialized, owner, cache, library, ref, statics, calls>>
    BY <1>4 DEF CallDelete
  <2>4. held \in [Threads -> [Libs -> Nat]]
    BY <1>0 DEF TypeOK
  <2>5. held' \in [Threads -> [Libs -> Nat]]
        /\ \A u \in Threads, k \in Libs : held'[u][k] > 0 => held[u][k] > 0
    BY <2>3, <2>4
  <2>6. TypeOK'
    BY <1>0, <2>2, <2>3, <2>5 DEF TypeOK
  <2>7. HandlesUsable'
    BY <1>0, <2>3, <2>5 DEF HandlesUsable, UsableIn
  <2> QED BY <2>2, <2>6, <2>7 DEF IInv
<1>5. ASSUME NEW t \in Threads, Step(t)
      PROVE  IInv'
  BY <1>5, StepPreserves
<1>6. CASE UNCHANGED vars
  BY <1>0, <1>6 DEF vars, IInv, TypeOK, HandlesUsable, UsableIn
<1> QED BY <1>1, <1>2, <1>3, <1>4, <1>5, <1>6 DEF Next

\* Type correctness.
THEOREM TypeCorrect == Spec => []TypeOK
<1>1. IInv => TypeOK
  BY DEF IInv
<1> QED BY Initially, NextPreserves, <1>1, PTL DEF Spec

LEMMA UsableHandedOut == IInv => HandedOutReady
<1> SUFFICES ASSUME IInv, NEW l \in Libs,
                    StaticHandles(l) # {} \/ \E t \in Threads : held[t][l] > 0
             PROVE  library[l].ready \/ library[l].state = "freed"
  BY DEF HandedOutReady
<1>1. CASE \E t \in Threads : held[t][l] > 0
  BY <1>1 DEF IInv, HandlesUsable, UsableIn
<1>2. CASE StaticHandles(l) # {}
  <2>1. PICK h \in UNION {{<<p, i>> : i \in DOMAIN statics[p]} : p \in Paths} :
          statics[h[1]][h[2]] = l
    BY <1>2 DEF StaticHandles
  <2>2. PICK p \in Paths : \E i \in DOMAIN statics[p] : statics[p][i] = l
    BY <2>1
  <2>3. DOMAIN statics[p] = DOMAIN Requires[p] /\ l # NoLib
    BY LibsAssumption DEF IInv, TypeOK
  <2>4. PICK i \in DOMAIN statics[p] : statics[p][i] = l
    BY <2>2
  <2> QED BY <2>3, <2>4 DEF IInv, HandlesUsable, UsableIn
<1> QED BY <1>1, <1>2

\* No plug-in is handed out before its library has finished loading, however
\* many threads load it and however they overlap with deletes.
THEOREM NeverHandedOutEarly == Spec => []HandedOutReady
BY Initially, NextPreserves, UsableHandedOut, PTL DEF Spec

-----------------------------------------------------------------------------
(***************************************************************************)
(* pm_mutex.  Its owner is the one thread that is in the critical section. *)
(***************************************************************************)
Critical == {"lookup", "share", "create"}
InCritical(s) == s # <<>> /\ s[Len(s)].at \in Critical

LockInv ==
  /\ \A t \in Threads : InCritical(stack[t]) <=> owner = t
  /\ ~initialized => \A t \in Threads : Idle(t) /\ \A l \in Libs : held[t][l] = 0

\* What a step of t leaves on top of its stack decides who is critical.
LEMMA CriticalAfterBecome ==
  ASSUME IInv, NEW t \in Threads, ~Idle(t), NEW f, Become(t, f)
  PROVE  /\ InCritical(stack'[t]) <=> f.at \in Critical
         /\ stack'[t] # <<>>
         /\ \A u \in Threads \ {t} : stack'[u] = stack[u]
<1>1. stack \in [Threads -> Seq(Frame)] /\ stack[t] # <<>>
  BY DEF IInv, TypeOK, Idle
<1>2. Len(stack[t]) \in Nat \ {0}
  BY <1>1
<1> DEFINE s == [stack[t] EXCEPT ![Len(stack[t])] = f]
<1>3. s[Len(stack[t])] = f /\ DOMAIN s = 1..Len(stack[t])
  BY <1>1, <1>2
<1>4. Len(s) = Len(stack[t]) /\ s # <<>>
  BY <1>1, <1>2, <1>3
<1>5. stack' = [stack EXCEPT ![t] = s]
  BY DEF Become
<1> HIDE DEF s
<1> QED BY <1>1, <1>3, <1>4, <1>5 DEF InCritical

LEMMA CriticalAfterGoto ==
  ASSUME IInv, NEW t \in Threads, ~Idle(t), NEW point, Goto(t, point)
  PROVE  /\ InCritical(stack'[t]) <=> point \in Critical
         /\ stack'[t] # <<>>
         /\ \A u \in Threads \ {t} : stack'[u] = stack[u]
<1> DEFINE g == [Top(t) EXCEPT !.at = point]
<1>1. Top(t) \in Frame
  BY TopOK DEF IInv, FrameOK
<1>2. g.at = point
  BY <1>1 DEF Frame
<1>3. Become(t, g)
  BY DEF Goto
<1> HIDE DEF g
<1> QED BY <1>2, <1>3, CriticalAfterBecome

LEMMA CriticalAfterLoop ==
  ASSUME IInv, NEW t \in Threads, ~Idle(t), NEW point, NEW n, GotoLoop(t, point, n)
  PROVE  /\ InCritical(stack'[t]) <=> point \in Critical
         /\ \A u \in Threads \ {t} : stack'[u] = stack[u]
<1> DEFINE g == [Top(t) EXCEPT !.at = point, !.next = 1, !.last = n]
<1>1. Top(t) \in Frame
  BY TopOK DEF IInv, FrameOK
<1>2. g.at = point
  BY <1>1 DEF Frame
<1>3. Become(t, g)
  BY DEF GotoLoop
<1> HIDE DEF g
<1> QED BY <1>2, <1>3, CriticalAfterBecome

LEMMA CriticalAfterCall ==
  ASSUME IInv, NEW t \in Threads, NEW f, f \in Frame, f.at \notin Critical, Call(t, f)
  PROVE  /\ ~InCritical(stack'[t])
         /\ stack'[t] # <<>>
         /\ \A u \in Threads \ {t} : stack'[u] = stack[u]
<1>1. stack \in [Threads -> Seq(Frame)]
  BY DEF IInv, TypeOK
<1>2. stack'[t] = Append(stack[t], f)
  BY <1>1 DEF Call
<1>3. Len(stack'[t]) = Len(stack[t]) + 1 /\ stack'[t][Len(stack[t]) + 1] = f
  BY <1>1, <1>2
<1> QED BY <1>1, <1>2, <1>3 DEF Call, InCritical

LEMMA CriticalAfterReturn ==
  ASSUME IInv, NEW t \in Threads, ~Idle(t), NEW l \in Libs \cup {NoLib}, Return(t, l)
  PROVE  /\ ~InCritical(stack'[t])
         /\ \A u \in Threads \ {t} : stack'[u] = stack[u]
<1>1. stack \in [Threads -> Seq(Frame)] /\ Len(stack[t]) \in Nat \ {0}
  BY TopOK DEF IInv, TypeOK
<1>2. CASE Len(stack[t]) = 1
  BY <1>1, <1>2 DEF Return, InCritical
<1>3. CASE Len(stack[t]) # 1
  <2> DEFINE n == Len(stack[t])
  <2>1. n \in Nat /\ n # 0 /\ n # 1
    BY <1>1, <1>3
  <2> HIDE DEF n
  <2>2. n > 1
    BY <2>1
  <2>3. FrameOK(Caller(t)) /\ Calling(Caller(t))
    BY <2>2, TopOK DEF IInv, n
  <2> DEFINE g == Resumed(Caller(t), l)
             s == [Pop(stack[t]) EXCEPT ![n - 1] = g]
  <2>4. Caller(t) \in Frame /\ Caller(t).at \in Loops
    BY <2>3 DEF FrameOK, Calling
  <2>5. g.at \in Loops
    BY <2>4 DEF Resumed, Frame, Loops
  <2>6. stack' = [stack EXCEPT ![t] = s]
    BY <1>3 DEF Return, n
  <2>7. Pop(stack[t]) \in Seq(Frame) /\ Len(Pop(stack[t])) = n - 1
    BY <1>1, <2>2 DEF Pop, n
  <2> HIDE DEF g
  <2>8. s[n - 1] = g /\ DOMAIN s = 1..n - 1
    BY <2>1, <2>2, <2>7
  <2>9. Len(s) = n - 1
    BY <2>1, <2>2, <2>7, <2>8
  <2> HIDE DEF s
  <2>10. stack'[t] = s
    BY <1>1, <2>6
  <2>11. ~InCritical(s)
    BY <2>5, <2>8, <2>9 DEF InCritical, Loops, Critical
  <2> QED BY <1>1, <2>6, <2>10, <2>11
<1> QED BY <1>2, <1>3

LEMMA LockStep ==
  ASSUME IInv, LockInv, \A p \in Paths : Fault[p] # "resolve",
         NEW t \in Threads, Step(t)
  PROVE  LockInv'
<1>0. ~Idle(t) /\ initialized /\ initialized' = initialized /\ owner \in Threads \cup {NoThread}
  <2>1. ~Idle(t) /\ initialized' = initialized
    BY DEF Step, At, LockManager, ResolveFails, LookupHit, ShareLibrary, SpinEnds,
           LookupMiss, CreateLibrary, LoadLibrary, RegisterRequired, RegisterClasses,
           PublishLibrary, SetReady, DiscardLibrary, DecRef, CheckLastReference,
           UncacheLibrary, ZeroRef, TestUnreferenced, DestroyLibrary, DeleteRequired,
           RequiredDeleted, FreeLibrary
  <2> QED BY <2>1 DEF LockInv, IInv, TypeOK
<1>1. InCritical(stack[t]) <=> Top(t).at \in Critical
  BY <1>0 DEF InCritical, Top, Idle
<1>2. Top(t) \in Frame /\ NoLib \in Libs \cup {NoLib}
  BY <1>0, TopOK DEF IInv, FrameOK
<1>3. Top(t).at \notin NoLibraryYet => Top(t).lib \in Libs \cup {NoLib}
  BY <1>2 DEF Frame
\* A step outside the critical section leaves the mutex alone ...
<1>4. ASSUME Top(t).at \notin Critical, owner' = owner, ~InCritical(stack'[t]),
             \A u \in Threads \ {t} : stack'[u] = stack[u]
      PROVE  LockInv'
  BY <1>0, <1>1, <1>4 DEF LockInv
\* ... and one inside keeps it or gives it back.
<1>5. ASSUME Top(t).at \in Critical, owner' = owner, InCritical(stack'[t]),
             \A u \in Threads \ {t} : stack'[u] = stack[u]
      PROVE  LockInv'
  BY <1>0, <1>1, <1>5 DEF LockInv
<1>6. ASSUME Top(t).at \in Critical, owner' = NoThread, ~InCritical(stack'[t]),
             \A u \in Threads \ {t} : stack'[u] = stack[u]
      PROVE  LockInv'
  BY <1>0, <1>1, <1>6, ThreadsAssumption DEF LockInv
<1> USE DEF At
<1>7. CASE LockManager(t)
  <2>1. Goto(t, "lookup") /\ owner = NoThread /\ owner' = t /\ Top(t).at \notin Critical
    BY <1>7 DEF LockManager, Critical
  <2>2. InCritical(stack'[t]) /\ \A u \in Threads \ {t} : stack'[u] = stack[u]
    BY <1>0, <2>1, CriticalAfterGoto DEF Critical
  <2> QED BY <1>0, <2>1, <2>2, ThreadsAssumption DEF LockInv
<1>8. CASE ResolveFails(t)
  <2> QED BY <1>8, <1>2 DEF ResolveFails, Frame
<1>9. CASE LookupHit(t)
  <2> DEFINE g == [Top(t) EXCEPT !.at = "share", !.lib = cache[Top(t).path]]
  <2>1. Become(t, g) /\ owner' = owner /\ Top(t).at \in Critical
    BY <1>9 DEF LookupHit, Critical
  <2>2. g.at = "share"
    BY <1>2 DEF Frame
  <2> HIDE DEF g
  <2> QED BY <1>0, <2>1, <2>2, CriticalAfterBecome, <1>5 DEF Critical
<1>10. CASE ShareLibrary(t)
  <2>1. Goto(t, "spin")
    BY <1>10 DEF ShareLibrary
  <2> QED BY <1>0, <1>10, <2>1, CriticalAfterGoto, <1>6 DEF ShareLibrary, Critical
<1>11. CASE SpinEnds(t)
  <2>1. Return(t, Top(t).lib) /\ owner' = owner /\ Top(t).at \notin Critical \cup NoLibraryYet
    BY <1>11 DEF SpinEnds, Critical, NoLibraryYet
  <2> QED BY <1>0, <1>2, <1>3, <2>1, CriticalAfterReturn, <1>4
<1>12. CASE LookupMiss(t)
  <2>1. Goto(t, "create")
    BY <1>12 DEF LookupMiss
  <2> QED BY <1>0, <1>12, <2>1, CriticalAfterGoto, <1>5 DEF LookupMiss, Critical
<1>13. CASE CreateLibrary(t)
  <2>1. PICK l \in Libs : Become(t, [Top(t) EXCEPT !.at = "load", !.lib = l])
    BY <1>13 DEF CreateLibrary
  <2> DEFINE g == [Top(t) EXCEPT !.at = "load", !.lib = l]
  <2>2. g.at = "load"
    BY <1>2 DEF Frame
  <2>3. Become(t, g) /\ owner' = NoThread /\ Top(t).at \in Critical
    BY <1>13, <2>1 DEF CreateLibrary, Critical
  <2> HIDE DEF g
  <2> QED BY <1>0, <2>2, <2>3, CriticalAfterBecome, <1>6 DEF Critical
<1>14. CASE LoadLibrary(t)
  <2>1. (\E k : GotoLoop(t, "register", k)) \/ Goto(t, "discard")
    BY <1>14 DEF LoadLibrary
  <2>2. owner' = owner /\ Top(t).at \notin Critical
    BY <1>14 DEF LoadLibrary, Critical
  <2>3. CASE \E k : GotoLoop(t, "register", k)
    <3>1. PICK k : GotoLoop(t, "register", k)
      BY <2>3
    <3> QED BY <1>0, <2>2, <3>1, CriticalAfterLoop, <1>4 DEF Critical
  <2>4. CASE Goto(t, "discard")
    BY <1>0, <2>2, <2>4, CriticalAfterGoto, <1>4 DEF Critical
  <2> QED BY <2>1, <2>3, <2>4
<1>15. CASE RegisterRequired(t)
  <2> DEFINE g == NewCall("lock", Requires[Top(t).path][Top(t).next], NoLib)
  <2>1. FrameOK(Top(t)) /\ Top(t).at = "register" /\ Top(t).next <= Top(t).last
    BY <1>0, <1>15, TopOK DEF RegisterRequired, IInv
  <2>2. Top(t).next \in 1..Len(Requires[Top(t).path]) /\ Requires[Top(t).path] \in Seq(Paths)
    BY <1>2, <2>1, RequiresAssumption DEF FrameOK, Frame, Loops
  <2>3. g \in Frame /\ g.at \notin Critical
    BY <2>2 DEF NewCall, Frame, Points, Critical
  <2>4. Call(t, g) /\ owner' = owner /\ Top(t).at \notin Critical
    BY <1>15 DEF RegisterRequired, Critical
  <2> HIDE DEF g
  <2> QED BY <2>3, <2>4, CriticalAfterCall, <1>4
<1>16. CASE RegisterClasses(t)
  <2>1. (\E k : GotoLoop(t, "unregister", k)) \/ Goto(t, "publish")
    BY <1>16 DEF RegisterClasses
  <2>2. owner' = owner /\ Top(t).at \notin Critical
    BY <1>16 DEF RegisterClasses, Critical
  <2>3. CASE \E k : GotoLoop(t, "unregister", k)
    <3>1. PICK k : GotoLoop(t, "unregister", k)
      BY <2>3
    <3> QED BY <1>0, <2>2, <3>1, CriticalAfterLoop, <1>4 DEF Critical
  <2>4. CASE Goto(t, "publish")
    BY <1>0, <2>2, <2>4, CriticalAfterGoto, <1>4 DEF Critical
  <2> QED BY <2>1, <2>3, <2>4
<1>17. CASE PublishLibrary(t)
  <2>1. Goto(t, "set_ready")
    BY <1>17 DEF PublishLibrary
  <2> QED BY <1>0, <1>17, <2>1, CriticalAfterGoto, <1>4 DEF PublishLibrary, Critical
<1>18. CASE SetReady(t)
  <2>1. Return(t, Top(t).lib) /\ owner' = owner /\ Top(t).at \notin Critical \cup NoLibraryYet
    BY <1>18 DEF SetReady, Critical, NoLibraryYet
  <2> QED BY <1>0, <1>2, <1>3, <2>1, CriticalAfterReturn, <1>4
<1>19. CASE DiscardLibrary(t)
  <2>1. Goto(t, "dispose")
    BY <1>19 DEF DiscardLibrary
  <2> QED BY <1>0, <1>19, <2>1, CriticalAfterGoto, <1>4 DEF DiscardLibrary, Critical
<1>20. CASE DecRef(t)
  <2>1. Goto(t, "check")
    BY <1>20 DEF DecRef
  <2> QED BY <1>0, <1>20, <2>1, CriticalAfterGoto, <1>4 DEF DecRef, Critical
<1>21. CASE CheckLastReference(t)
  <2>1. Goto(t, "uncache") \/ Goto(t, "test")
    BY <1>21 DEF CheckLastReference
  <2> QED BY <1>0, <1>21, <2>1, CriticalAfterGoto, <1>4 DEF CheckLastReference, Critical
<1>22. CASE UncacheLibrary(t)
  <2>1. Goto(t, "zero")
    BY <1>22 DEF UncacheLibrary
  <2> QED BY <1>0, <1>22, <2>1, CriticalAfterGoto, <1>4 DEF UncacheLibrary, Critical
<1>23. CASE ZeroRef(t)
  <2>1. Goto(t, "test")
    BY <1>23 DEF ZeroRef
  <2> QED BY <1>0, <1>23, <2>1, CriticalAfterGoto, <1>4 DEF ZeroRef, Critical
<1>24. CASE TestUnreferenced(t)
  <2>1. owner' = owner /\ Top(t).at \notin Critical
    BY <1>24 DEF TestUnreferenced, Critical
  <2>2. Goto(t, "destroy") \/ Return(t, NoLib)
    BY <1>24 DEF TestUnreferenced
  <2> QED BY <1>0, <1>2, <2>1, <2>2, CriticalAfterGoto, CriticalAfterReturn, <1>4 DEF Critical
<1>25. CASE DestroyLibrary(t)
  <2>1. (\E k : GotoLoop(t, "at_exit", k)) \/ Goto(t, "free")
    BY <1>25 DEF DestroyLibrary
  <2>2. owner' = owner /\ Top(t).at \notin Critical
    BY <1>25 DEF DestroyLibrary, Critical
  <2>3. CASE \E k : GotoLoop(t, "at_exit", k)
    <3>1. PICK k : GotoLoop(t, "at_exit", k)
      BY <2>3
    <3> QED BY <1>0, <2>2, <3>1, CriticalAfterLoop, <1>4 DEF Critical
  <2>4. CASE Goto(t, "free")
    BY <1>0, <2>2, <2>4, CriticalAfterGoto, <1>4 DEF Critical
  <2> QED BY <2>1, <2>3, <2>4
<1>26. CASE DeleteRequired(t)
  <2> DEFINE l == statics[Top(t).path][Top(t).next]
  <2>1. FrameOK(Top(t)) /\ Top(t).at \in Loops /\ Top(t).next <= Top(t).last
    BY <1>0, <1>26, TopOK DEF DeleteRequired, IInv, Loops
  <2>2. owner' = owner /\ Top(t).at \notin Critical
        /\ IF l = NoLib THEN Become(t, [Top(t) EXCEPT !.next = @ + 1])
                        ELSE Call(t, NewCall("dispose", library[l].path, l))
    BY <1>26 DEF DeleteRequired, Critical
  <2>3. Top(t).next \in 1..Len(Requires[Top(t).path]) /\ Top(t).path \in Paths
    BY <1>2, <2>1, RequiresAssumption DEF FrameOK, Frame
  <2>4. l \in Libs \cup {NoLib}
    BY <2>3, RequiresAssumption DEF IInv, TypeOK
  <2>5. ASSUME l = NoLib
        PROVE  ~InCritical(stack'[t]) /\ \A u \in Threads \ {t} : stack'[u] = stack[u]
    <3> DEFINE g == [Top(t) EXCEPT !.next = @ + 1]
    <3>1. g.at = Top(t).at
      BY <1>2 DEF Frame
    <3>2. Become(t, g)
      BY <2>2, <2>5
    <3> HIDE DEF g
    <3> QED BY <1>0, <2>2, <3>1, <3>2, CriticalAfterBecome
  <2>6. ASSUME l # NoLib
        PROVE  ~InCritical(stack'[t]) /\ \A u \in Threads \ {t} : stack'[u] = stack[u]
    <3> DEFINE g == NewCall("dispose", library[l].path, l)
    <3>1. l \in Libs /\ library[l].path \in Paths
      BY <2>4, <2>6 DEF IInv, TypeOK, Library
    <3>2. Call(t, g)
      BY <2>2, <2>6
    <3> HIDE DEF l
    <3>3. g \in Frame /\ g.at \notin Critical
      BY <3>1 DEF NewCall, Frame, Points, Critical
    <3> HIDE DEF g
    <3> QED BY <3>2, <3>3, CriticalAfterCall
  <2> QED BY <2>2, <2>5, <2>6, <1>4
<1>27. CASE RequiredDeleted(t)
  <2>1. Goto(t, "free") \/ Goto(t, "discard")
    BY <1>27 DEF RequiredDeleted
  <2> QED BY <1>0, <1>27, <2>1, CriticalAfterGoto, <1>4 DEF RequiredDeleted, Critical
<1>28. CASE FreeLibrary(t)
  <2>1. Return(t, NoLib) /\ owner' = owner /\ Top(t).at \notin Critical \cup NoLibraryYet
    BY <1>28 DEF FreeLibrary, Critical, NoLibraryYet
  <2> QED BY <1>0, <1>2, <1>3, <2>1, CriticalAfterReturn, <1>4
<1> QED
  BY <1>7, <1>8, <1>9, <1>10, <1>11, <1>12, <1>13, <1>14, <1>15, <1>16, <1>17,
     <1>18, <1>19, <1>20, <1>21, <1>22, <1>23, <1>24, <1>25, <1>26, <1>27, <1>28 DEF Step

\* pm_mutex is held only inside the critical section of s_pm_load_plugin, by
\* one thread, as long as no path has to be built without memory.
THEOREM MutexReleased ==
  ASSUME \A p \in Paths : Fault[p] # "resolve"
  PROVE  Spec => []LockReleased
<1>1. Init => LockInv
  BY ThreadsAssumption DEF Init, LockInv, InCritical, Idle
<1>2. IInv /\ LockInv /\ [Next]_vars => LockInv'
  <2> SUFFICES ASSUME IInv, LockInv, [Next]_vars PROVE LockInv'
    OBVIOUS
  <2>0. owner \in Threads \cup {NoThread} /\ NoThread \notin Threads
        /\ held \in [Threads -> [Libs -> Nat]]
    BY ThreadsAssumption DEF IInv, TypeOK
  <2>1. CASE InitManager
    BY <2>0, <2>1 DEF InitManager, LockInv, InCritical, Idle
  <2>2. CASE QuitManager
    BY <2>0, <2>2 DEF QuitManager, LockInv, InCritical, Idle
  <2>3. ASSUME NEW t \in Threads, NEW p \in Paths, CallLoad(t, p)
        PROVE  LockInv'
    <3> DEFINE g == NewCall("lock", p, NoLib)
    <3>1. g \in Frame /\ g.at \notin Critical
      BY DEF NewCall, Frame, Points, Critical
    <3>2. Call(t, g) /\ initialized /\ initialized' = initialized /\ owner' = owner /\ Idle(t)
      BY <2>3 DEF CallLoad
    <3> HIDE DEF g
    <3>3. /\ ~InCritical(stack'[t]) /\ ~InCritical(stack[t])
          /\ \A u \in Threads \ {t} : stack'[u] = stack[u]
      BY <3>1, <3>2, CriticalAfterCall DEF InCritical, Idle
    <3> QED BY <2>0, <3>2, <3>3 DEF LockInv
  <2>4. ASSUME NEW t \in Threads, NEW l \in Libs, CallDelete(t, l)
        PROVE  LockInv'
    <3> DEFINE g == NewCall("dispose", library[l].path, l)
    <3>1. library[l].path \in Paths
      BY DEF IInv, TypeOK, Library
    <3>2. g \in Frame /\ g.at \notin Critical
      BY <3>1 DEF NewCall, Frame, Points, Critical
    <3>3. Call(t, g) /\ initialized' = initialized /\ owner' = owner /\ Idle(t) /\ held[t][l] > 0
      BY <2>4 DEF CallDelete
    <3>4. initialized
      BY <2>0, <3>3 DEF LockInv
    <3> HIDE DEF g
    <3>5. /\ ~InCritical(stack'[t]) /\ ~InCritical(stack[t])
          /\ \A u \in Threads \ {t} : stack'[u] = stack[u]
      BY <3>2, <3>3, CriticalAfterCall DEF InCritical, Idle
    <3> QED BY <2>0, <3>3, <3>4, <3>5 DEF LockInv
  <2>5. ASSUME NEW t \in Threads, Step(t)
        PROVE  LockInv'
    BY <2>5, LockStep
  <2>6. CASE UNCHANGED vars
    BY <2>6 DEF vars, LockInv, InCritical, Idle
  <2> QED BY <2>1, <2>2, <2>3, <2>4, <2>5, <2>6 DEF Next
<1>3. IInv /\ LockInv => LockReleased
  <2> SUFFICES ASSUME IInv, LockInv, owner # NoThread
               PROVE  \E at \in {"lookup", "share", "create"} : At(owner, at)
    BY DEF LockReleased
  <2>1. owner \in Threads /\ InCritical(stack[owner])
    BY DEF IInv, TypeOK, LockInv
  <2> QED BY <2>1 DEF InCritical, Critical, At, Idle, Top
<1> QED BY Initially, NextPreserves, <1>1, <1>2, <1>3, PTL DEF Spec

-----------------------------------------------------------------------------
(***************************************************************************)
(* Counting.  The application orders its calls: one at a time, or, when no *)
(* plug-in fails to load, it deletes nothing before the end but what the   *)
(* keeper holds as well, or nothing at all.                                *)
(***************************************************************************)
Orderly ==
  \/ Discipline = "serial"
  \/ Discipline \in {"kept", "load_only"} /\ \A p \in Paths : Fault[p] = "none"

Deletions == {"dispose", "check", "uncache", "zero", "test", "destroy", "at_exit", "free"}
Loading == {"load", "register", "publish", "set_ready", "unregister", "discard"}
Failing == {"unregister", "discard"}

\* A frame that deletes a library the cache has let go will free it; of the frames
\* that work on a library, to load it or to free it, there is one per path.
Doomed(f) == f.at \in Deletions /\ cache[f.path] # f.lib
Works(f) == f.at \in Loading \cup {"uncache"} \/ Doomed(f)

\* What a call knows of its library at each point ...
LiveAt(f) == f.lib # NoLib => Live(f.lib) /\ library[f.lib].path = f.path

CachedAt(f) ==
  /\ f.at \in Loading \cup {"share", "spin", "uncache"} => cache[f.path] = f.lib
  /\ f.at \in {"zero", "destroy", "at_exit", "free"} => cache[f.path] # f.lib
  /\ f.at = "create" => cache[f.path] = NoLib

FlagsAt(f) ==
  LET b == library[f.lib]
  IN  /\ f.at \in {"load", "register", "unregister", "discard"} => ~b.dso
      /\ f.at \in Loading \ {"set_ready"} => ~b.inManager
      /\ f.at \in Loading => ~b.ready
      /\ f.at \in {"publish", "set_ready"} => b.dso
      /\ f.at = "set_ready" => b.inManager
      /\ f.at \in {"dispose", "check", "uncache", "test"} /\ ~Doomed(f) => b.ready
      /\ f.at \in {"dispose", "check"} /\ Doomed(f) => ~b.inManager /\ ~b.dso

RefAt(f) ==
  /\ Doomed(f) => ref[f.lib] = 0
  /\ f.at = "uncache" => ref[f.lib] = 1

\* ... and which of its plug-in's static pointers are not set.
Elements(p) == 1 .. Len(Requires[p])
Unset(p, i) == statics[p][i] = NoLib

StaticsAt(f) ==
  /\ f.at \in {"load", "discard", "free"} \/ (Doomed(f) /\ ~library[f.lib].dso)
       => \A i \in Elements(f.path) : Unset(f.path, i)
  /\ f.at = "register" => \A i \in Elements(f.path) : i >= f.next => Unset(f.path, i)
  /\ f.at = "at_exit" => \A i \in Elements(f.path) : i < f.next => Unset(f.path, i)
  /\ f.at = "unregister" =>
       \A i \in Elements(f.path) : i < f.next \/ i > f.last => Unset(f.path, i)
  /\ f.at \in {"register", "at_exit"} => f.last = Len(Requires[f.path])

Good(f) == LiveAt(f) /\ CachedAt(f) /\ FlagsAt(f) /\ RefAt(f) /\ StaticsAt(f)

FramesGood == \A f \in Frames : Good(FrameOf(f))

OwnerAt == \A f \in Frames : FrameOf(f).at \in Critical => owner = f[1]

\* Above a loop that deletes are only deletions, first that of its element.
Above(f) == <<f[1], f[2] + 1>>

Shape ==
  \A f \in Frames : FrameOf(f).at \in {"unregister", "at_exit"} =>
    /\ \A g \in Frames : g[1] = f[1] /\ g[2] > f[2] => FrameOf(g).at \in Deletions
    /\ Above(f) \in Frames =>
         FrameOf(Above(f)).lib = statics[FrameOf(f).path][FrameOf(f).next]

Distinct ==
  \A f, g \in Frames :
    f # g /\ Works(FrameOf(f)) /\ Works(FrameOf(g)) => FrameOf(f).path # FrameOf(g).path

\* Deletions that may free a library have all threads to themselves; the others
\* delete what the keeper holds.
Final ==
  /\ Deleting(Keeper)
  /\ \A u \in Threads \ {Keeper} : Idle(u) /\ \A l \in Libs : held[u][l] = 0

Guarded(f) ==
  /\ Len(stack[f[1]]) = 1
  /\ FrameOf(f).at \in {"dispose", "check", "test"}
  /\ held[Keeper][FrameOf(f).lib] > 0

Alone ==
  /\ Discipline = "serial" => \A t, u \in Threads : ~Idle(t) /\ ~Idle(u) => t = u
  /\ Discipline # "serial" => \A f \in Frames : FrameOf(f).at \notin Failing
  /\ Discipline = "load_only" => \A f \in Frames : FrameOf(f).at \notin Deletions
  /\ Discipline = "kept" =>
       \A f \in Frames : FrameOf(f).at \in Deletions => (f[1] = Keeper /\ Final) \/ Guarded(f)

OnePerPath ==
  \A k, l \in Libs : Live(k) /\ Live(l) /\ library[k].path = library[l].path => k = l

CacheLive == \A p \in Paths : cache[p] # NoLib => Live(cache[p]) /\ library[cache[p]].path = p

\* A library that is not ready, or not cached, is being loaded or freed; one that is
\* has users, or somebody is about to see that it has none.
Cached(l) == cache[library[l].path] = l
Busy(l) ==
  \E f \in Frames : /\ FrameOf(f).lib = l
                    /\ Works(FrameOf(f)) /\ FrameOf(f).at # "uncache"
Leaving(l) == \E f \in Frames : FrameOf(f).lib = l /\ FrameOf(f).at \in {"check", "uncache"}

LibraryGood(l) ==
  Live(l) =>
    /\ library[l].ready => library[l].inManager
    /\ library[l].inManager => library[l].dso
    /\ (library[l].ready /\ Cached(l)) \/ Busy(l)
    /\ library[l].ready /\ Cached(l) => ref[l] >= 2 \/ Leaving(l)

LibrariesGood == \A l \in Libs : LibraryGood(l)

StaticsLive ==
  \A p \in Paths : \A i \in Elements(p) : ~Unset(p, i) =>
    /\ Live(statics[p][i]) /\ library[statics[p][i]].ready
    /\ \E k \in Libs : Live(k) /\ library[k].path = p

HeldLive == \A t \in Threads, l \in Libs : held[t][l] > 0 => Live(l) /\ library[l].ready

\* Plug-ins do not require each other in circles: of any libraries there is one
\* that none of them requires.
Acyclic ==
  \A S \in SUBSET Libs : S # {} /\ (\A l \in S : Live(l)) =>
    \E l \in S : \A k \in S : \A i \in Elements(library[k].path) :
      statics[library[k].path][i] # l

Closed == ~initialized => \A t \in Threads : Idle(t) /\ \A l \in Libs : held[t][l] = 0

\* The references a frame owns.
Owns(f, l) ==
  f.lib = l /\ (f.at \in {"spin", "set_ready"} \/ (f.at = "dispose" /\ library[l].inManager))

Exact(l) ==
  Live(l) => ref[l] = (IF cache[library[l].path] = l THEN 1 ELSE 0) + HeldHandles(l)
                      + Cardinality(StaticHandles(l)) + Cardinality(CallHandles(l))

OInv ==
  /\ IInv
  /\ FramesGood /\ OwnerAt /\ Shape /\ Distinct /\ Alone
  /\ OnePerPath /\ CacheLive /\ LibrariesGood
  /\ StaticsLive /\ HeldLive /\ Acyclic /\ Closed /\ RefExact

-----------------------------------------------------------------------------
(* Frames.                                                                     *)

LEMMA FramesAre ==
  ASSUME IInv
  PROVE  /\ \A u \in Threads : Len(stack[u]) \in Nat /\ DOMAIN stack[u] = 1 .. Len(stack[u])
         /\ \A u, i : <<u, i>> \in Frames <=> u \in Threads /\ i \in 1 .. Len(stack[u])
         /\ \A f \in Frames : f = <<f[1], f[2]>> /\ f[1] \in Threads /\ f[2] \in 1 .. Len(stack[f[1]])
         /\ \A u \in Threads : Idle(u) <=> Len(stack[u]) = 0
<1>1. \A u \in Threads : stack[u] \in Seq(Frame)
  BY DEF IInv, TypeOK
<1>2. \A u \in Threads : Len(stack[u]) \in Nat /\ DOMAIN stack[u] = 1 .. Len(stack[u])
  BY <1>1
<1>3. \A u, i : <<u, i>> \in Frames <=> u \in Threads /\ i \in 1 .. Len(stack[u])
  BY <1>2 DEF Frames
<1>4. \A f \in Frames : f = <<f[1], f[2]>> /\ f[1] \in Threads /\ f[2] \in 1 .. Len(stack[f[1]])
  BY <1>2 DEF Frames
<1>5. \A u \in Threads : Idle(u) <=> Len(stack[u]) = 0
  BY <1>1 DEF Idle
<1> QED BY <1>2, <1>3, <1>4, <1>5

LEMMA FrameTyped ==
  ASSUME IInv, NEW f \in Frames
  PROVE  /\ FrameOf(f) \in Frame /\ FrameOK(FrameOf(f))
         /\ FrameOf(f).path \in Paths /\ FrameOf(f).lib \in Libs \cup {NoLib}
         /\ FrameOf(f).at \in Points
         /\ FrameOf(f).next \in Nat /\ FrameOf(f).last \in Nat
         /\ f[2] < Len(stack[f[1]]) => Calling(FrameOf(f))
<1>1. f[1] \in Threads /\ f[2] \in 1 .. Len(stack[f[1]]) /\ Len(stack[f[1]]) \in Nat
  BY FramesAre
<1>2. StackOK(stack[f[1]])
  BY <1>1 DEF IInv
<1>3. FrameOK(FrameOf(f)) /\ (f[2] < Len(stack[f[1]]) => Calling(FrameOf(f)))
  BY <1>1, <1>2 DEF StackOK, FrameOf
<1>4. FrameOf(f) \in Frame
  BY <1>3 DEF FrameOK
<1> QED BY <1>3, <1>4 DEF Frame

\* The frame a thread is in.
TopAt(t) == <<t, Len(stack[t])>>

LEMMA TopIsFrame ==
  ASSUME IInv, NEW t \in Threads, ~Idle(t)
  PROVE  /\ TopAt(t) \in Frames /\ FrameOf(TopAt(t)) = Top(t)
         /\ \A f \in Frames : f[1] = t /\ f # TopAt(t) => f[2] < Len(stack[t])
<1>1. Len(stack[t]) \in Nat /\ Len(stack[t]) # 0
  BY FramesAre
<1>2. TopAt(t) \in Frames
  BY <1>1, FramesAre DEF TopAt
<1>3. \A f \in Frames : f[1] = t /\ f # TopAt(t) => f[2] < Len(stack[t])
  BY <1>1, FramesAre DEF TopAt
<1> QED BY <1>2, <1>3 DEF TopAt, FrameOf, Top

\* A step within the innermost call.
LEMMA BecomeFrames ==
  ASSUME IInv, NEW t \in Threads, ~Idle(t), NEW g, Become(t, g)
  PROVE  /\ Frames' = Frames
         /\ \A f \in Frames : FrameOf(f)' = IF f = TopAt(t) THEN g ELSE FrameOf(f)
         /\ \A u \in Threads : Len(stack'[u]) = Len(stack[u]) /\ (Idle(u)' <=> Idle(u))
         /\ TopAt(t)' = TopAt(t)
<1>1. stack \in [Threads -> Seq(Frame)]
  BY DEF IInv, TypeOK
<1>2. Len(stack[t]) \in Nat /\ Len(stack[t]) # 0
  BY FramesAre
<1>3. /\ \A u \in Threads : u # t => stack'[u] = stack[u]
      /\ stack'[t] = [stack[t] EXCEPT ![Len(stack[t])] = g]
      /\ DOMAIN stack' = Threads
  BY <1>1 DEF Become
<1>4. /\ DOMAIN stack'[t] = DOMAIN stack[t] /\ Len(stack'[t]) = Len(stack[t])
      /\ \A i \in DOMAIN stack[t] : stack'[t][i] = IF i = Len(stack[t]) THEN g ELSE stack[t][i]
  <2>1. stack[t] \in Seq(Frame)
    BY <1>1
  <2>2. DOMAIN stack[t] = 1 .. Len(stack[t])
    BY <2>1
  <2>3. DOMAIN stack'[t] = 1 .. Len(stack[t])
    BY <1>3, <2>2
  <2>4. stack'[t] = [i \in 1 .. Len(stack[t]) |-> IF i = Len(stack[t]) THEN g ELSE stack[t][i]]
    BY <1>3, <2>2
  <2>5. stack'[t] \in Seq(Frame \cup {g})
    BY <1>2, <2>1, <2>4
  <2>6. Len(stack'[t]) = Len(stack[t])
    BY <1>2, <2>3, <2>5
  <2> QED BY <2>2, <2>3, <2>4, <2>6
<1>5. Frames' = Frames
  BY <1>3, <1>4 DEF Frames
<1>6. \A f \in Frames : FrameOf(f)' = IF f = TopAt(t) THEN g ELSE FrameOf(f)
  <2> TAKE f \in Frames
  <2>1. f = <<f[1], f[2]>> /\ f[1] \in Threads /\ f[2] \in DOMAIN stack[f[1]]
    BY FramesAre
  <2>2. CASE f[1] = t
    BY <1>4, <2>1, <2>2 DEF FrameOf, TopAt
  <2>3. CASE f[1] # t
    BY <1>3, <2>1, <2>3 DEF FrameOf, TopAt
  <2> QED BY <2>2, <2>3
<1>7. \A u \in Threads : Len(stack'[u]) = Len(stack[u])
  BY <1>3, <1>4
<1>8. \A u \in Threads : Idle(u)' <=> Idle(u)
  <2>1. \A u \in Threads : u # t => (Idle(u)' <=> Idle(u))
    BY <1>3 DEF Idle
  <2>2. stack'[t] # <<>>
    BY <1>2, <1>4
  <2> QED BY <2>1, <2>2 DEF Idle
<1> QED BY <1>5, <1>6, <1>7, <1>8 DEF TopAt

-----------------------------------------------------------------------------
(* Handles.                                                                    *)

HeldBy(l) == [t \in Threads |-> held[t][l]]

HeldCounted ==
  \A l \in Libs :
    /\ HeldHandles(l) = Cardinality(Units(HeldBy(l), Threads))
    /\ IsFiniteSet(Units(HeldBy(l), Threads))
    /\ HeldHandles(l) \in Nat
    /\ HeldHandles(l) = 0 <=> \A t \in Threads : held[t][l] = 0

LEMMA HeldIsUnits == IInv => HeldCounted
<1> SUFFICES ASSUME IInv, NEW l \in Libs
             PROVE  /\ HeldHandles(l) = Cardinality(Units(HeldBy(l), Threads))
                    /\ IsFiniteSet(Units(HeldBy(l), Threads))
                    /\ HeldHandles(l) \in Nat
                    /\ HeldHandles(l) = 0 <=> \A t \in Threads : held[t][l] = 0
  BY DEF HeldCounted
<1>1. HeldBy(l) \in [Threads -> Nat] /\ \A t \in Threads : held[t][l] = HeldBy(l)[t]
  BY DEF IInv, TypeOK, HeldBy
<1>2. IsFiniteSet(Threads)
  BY FiniteAssumption
<1>3. HeldHandles(l) = Cardinality(Units(HeldBy(l), Threads))
  <2>1. HeldHandles(l) = TableSum(held, l, Threads)
    BY DEF HeldHandles, TableSum
  <2> QED BY <1>1, <1>2, <2>1, SumOfTable
<1>4. IsFiniteSet(Units(HeldBy(l), Threads))
  BY <1>1, <1>2, UnitsFinite
<1>5. HeldHandles(l) = 0 <=> Units(HeldBy(l), Threads) = {}
  BY <1>3, <1>4, FS_EmptySet
<1>6. Units(HeldBy(l), Threads) = {} <=> \A t \in Threads : HeldBy(l)[t] = 0
  <2>1. ASSUME NEW t \in Threads, HeldBy(l)[t] # 0 PROVE Units(HeldBy(l), Threads) # {}
    <3>1. HeldBy(l)[t] \in Nat
      BY <1>1
    <3>2. 1 \in 1 .. HeldBy(l)[t]
      BY <2>1, <3>1
    <3>3. <<t, 1>> \in Units(HeldBy(l), Threads)
      BY <3>2 DEF Units, UnitsOf
    <3> QED BY <3>3
  <2>2. ASSUME \A t \in Threads : HeldBy(l)[t] = 0 PROVE Units(HeldBy(l), Threads) = {}
    <3>1. \A t \in Threads : 1 .. HeldBy(l)[t] = {}
      BY <2>2
    <3> QED BY <3>1 DEF Units, UnitsOf
  <2> QED BY <2>1, <2>2
<1>7. HeldHandles(l) \in Nat
  BY <1>3, <1>4, FS_CardinalityType
<1> QED BY <1>1, <1>3, <1>4, <1>5, <1>6, <1>7

LEMMA HeldSame ==
  ASSUME IInv, IInv', held' = held
  PROVE  \A l \in Libs : HeldHandles(l)' = HeldHandles(l)
<1>1. HeldCounted' /\ HeldCounted
  BY HeldIsUnits, PTL
<1>2. \A l \in Libs : HeldBy(l)' = HeldBy(l)
  BY DEF HeldBy
<1> SUFFICES ASSUME NEW l \in Libs PROVE HeldHandles(l)' = HeldHandles(l)
  OBVIOUS
<1>3. HeldHandles(l)' = Cardinality(Units(HeldBy(l)', Threads))
  BY <1>1 DEF HeldCounted, Units, UnitsOf
<1>4. HeldHandles(l) = Cardinality(Units(HeldBy(l), Threads))
  BY <1>1 DEF HeldCounted
<1> QED BY <1>2, <1>3, <1>4

\* One plug-in object more, or one less.
LEMMA HeldMore ==
  ASSUME IInv, IInv', NEW t \in Threads, NEW l \in Libs,
         held' = [held EXCEPT ![t][l] = @ + 1]
  PROVE  \A k \in Libs : HeldHandles(k)' = HeldHandles(k) + (IF k = l THEN 1 ELSE 0)
<1> SUFFICES ASSUME NEW k \in Libs
             PROVE  HeldHandles(k)' = HeldHandles(k) + (IF k = l THEN 1 ELSE 0)
  OBVIOUS
<1>1. held \in [Threads -> [Libs -> Nat]]
  BY DEF IInv, TypeOK
<1>2. /\ HeldHandles(k) = Cardinality(Units(HeldBy(k), Threads))
      /\ IsFiniteSet(Units(HeldBy(k), Threads)) /\ HeldHandles(k) \in Nat
  BY HeldIsUnits DEF HeldCounted
<1>3. /\ HeldHandles(k)' = Cardinality(Units(HeldBy(k)', Threads))
      /\ IsFiniteSet(Units(HeldBy(k)', Threads))
  <2>1. HeldCounted'
    BY HeldIsUnits, PTL
  <2> QED BY <2>1 DEF HeldCounted, Units, UnitsOf
<1>4. HeldBy(k)' = IF k = l THEN [HeldBy(k) EXCEPT ![t] = held[t][k] + 1] ELSE HeldBy(k)
  BY <1>1 DEF HeldBy
<1>5. CASE k # l
  BY <1>2, <1>3, <1>4, <1>5
<1>6. CASE k = l
  <2> DEFINE n == held[t][k]
             U == Units(HeldBy(k), Threads)
             V == Units(HeldBy(k)', Threads)
  <2>1. n \in Nat /\ \A u \in Threads : HeldBy(k)[u] = held[u][k]
    BY <1>1 DEF HeldBy
  <2>2. \A u \in Threads : HeldBy(k)'[u] = IF u = t THEN n + 1 ELSE held[u][k]
    BY <1>1, <1>4, <1>6 DEF HeldBy
  <2>3. U = UNION {{u} \X (1 .. held[u][k]) : u \in Threads}
    BY <2>1 DEF Units, UnitsOf
  <2>4. V = UNION {{u} \X (1 .. (IF u = t THEN n + 1 ELSE held[u][k])) : u \in Threads}
    BY <2>2 DEF Units, UnitsOf
  <2>5. V = U \cup {<<t, n + 1>>}
    <3>1. 1 .. n + 1 = (1 .. n) \cup {n + 1}
      BY <2>1
    <3>2. \A y : y \in V <=> y \in U \/ y = <<t, n + 1>>
      BY <2>1, <2>3, <2>4, <3>1
    <3> QED BY <3>2
  <2>6. <<t, n + 1>> \notin U
    <3>1. ~(n + 1 \in 1 .. n)
      BY <2>1
    <3> QED BY <2>3, <3>1
  <2> HIDE DEF U, V, n
  <2>7. Cardinality(V) = Cardinality(U) + 1
    BY <1>2, <2>5, <2>6, FS_AddElement DEF U
  <2> QED BY <1>2, <1>3, <1>6, <2>7 DEF U, V
<1> QED BY <1>5, <1>6

LEMMA HeldLess ==
  ASSUME IInv, IInv', NEW t \in Threads, NEW l \in Libs, held[t][l] > 0,
         held' = [held EXCEPT ![t][l] = @ - 1]
  PROVE  \A k \in Libs : HeldHandles(k) = HeldHandles(k)' + (IF k = l THEN 1 ELSE 0)
<1> SUFFICES ASSUME NEW k \in Libs
             PROVE  HeldHandles(k) = HeldHandles(k)' + (IF k = l THEN 1 ELSE 0)
  OBVIOUS
<1>1. held \in [Threads -> [Libs -> Nat]]
  BY DEF IInv, TypeOK
<1>2. /\ HeldHandles(k) = Cardinality(Units(HeldBy(k), Threads))
      /\ IsFiniteSet(Units(HeldBy(k), Threads)) /\ HeldHandles(k) \in Nat
  BY HeldIsUnits DEF HeldCounted
<1>3. /\ HeldHandles(k)' = Cardinality(Units(HeldBy(k)', Threads))
      /\ IsFiniteSet(Units(HeldBy(k)', Threads)) /\ HeldHandles(k)' \in Nat
  <2>1. HeldCounted'
    BY HeldIsUnits, PTL
  <2> QED BY <2>1 DEF HeldCounted, Units, UnitsOf
<1>4. HeldBy(k)' = IF k = l THEN [HeldBy(k) EXCEPT ![t] = held[t][k] - 1] ELSE HeldBy(k)
  BY <1>1 DEF HeldBy
<1>5. CASE k # l
  BY <1>2, <1>3, <1>4, <1>5
<1>6. CASE k = l
  <2> DEFINE n == held[t][k]
             U == Units(HeldBy(k), Threads)
             V == Units(HeldBy(k)', Threads)
  <2>1. n \in Nat /\ n > 0 /\ \A u \in Threads : HeldBy(k)[u] = held[u][k]
    BY <1>1, <1>6 DEF HeldBy
  <2>2. \A u \in Threads : HeldBy(k)'[u] = IF u = t THEN n - 1 ELSE held[u][k]
    BY <1>1, <1>4, <1>6 DEF HeldBy
  <2>3. U = UNION {{u} \X (1 .. held[u][k]) : u \in Threads}
    BY <2>1 DEF Units, UnitsOf
  <2>4. V = UNION {{u} \X (1 .. (IF u = t THEN n - 1 ELSE held[u][k])) : u \in Threads}
    BY <2>2 DEF Units, UnitsOf
  <2>5. U = V \cup {<<t, n>>}
    <3>1. 1 .. n = (1 .. n - 1) \cup {n}
      BY <2>1
    <3>2. \A y : y \in U <=> y \in V \/ y = <<t, n>>
      BY <2>1, <2>3, <2>4, <3>1
    <3> QED BY <3>2
  <2>6. <<t, n>> \notin V
    <3>1. ~(n \in 1 .. n - 1)
      BY <2>1
    <3> QED BY <2>4, <3>1
  <2> HIDE DEF U, V, n
  <2>7. Cardinality(U) = Cardinality(V) + 1
    BY <1>3, <2>5, <2>6, FS_AddElement DEF V
  <2> QED BY <1>2, <1>3, <1>6, <2>7 DEF U, V
<1> QED BY <1>5, <1>6

\* Static pointers and calls that own references are finitely many.
LEMMA HandlesFinite ==
  ASSUME IInv, NEW l
  PROVE  /\ IsFiniteSet(StaticHandles(l)) /\ IsFiniteSet(CallHandles(l))
         /\ Cardinality(StaticHandles(l)) \in Nat /\ Cardinality(CallHandles(l)) \in Nat
<1> DEFINE All == UNION {{<<p, i>> : i \in DOMAIN statics[p]} : p \in Paths}
<1>1. \A p \in Paths : DOMAIN statics[p] = 1 .. Len(Requires[p]) /\ Len(Requires[p]) \in Nat
  BY RequiresAssumption DEF IInv, TypeOK
<1>2. All = UNION {{p} \X (1 .. Len(Requires[p])) : p \in Paths}
  BY <1>1
<1>3. IsFiniteSet(UNION {{p} \X (1 .. Len(Requires[p])) : p \in Paths})
  <2> DEFINE f == [p \in Paths |-> Len(Requires[p])]
  <2>1. f \in [Paths -> Nat] /\ IsFiniteSet(Paths)
    BY <1>1, FiniteAssumption
  <2>2. Units(f, Paths) = UNION {{p} \X (1 .. Len(Requires[p])) : p \in Paths}
    BY DEF Units, UnitsOf
  <2> QED BY <2>1, <2>2, UnitsFinite
<1>4. IsFiniteSet(Frames)
  <2> DEFINE f == [u \in Threads |-> Len(stack[u])]
  <2>1. \A u \in Threads : Len(stack[u]) \in Nat /\ DOMAIN stack[u] = 1 .. Len(stack[u])
    BY FramesAre
  <2>2. f \in [Threads -> Nat] /\ IsFiniteSet(Threads)
    BY <2>1, FiniteAssumption
  <2>3. Units(f, Threads) = Frames
    BY <2>1 DEF Units, UnitsOf, Frames
  <2> QED BY <2>2, <2>3, UnitsFinite
<1>5. StaticHandles(l) \in SUBSET All /\ CallHandles(l) \in SUBSET Frames
  BY DEF StaticHandles, CallHandles
<1> HIDE DEF All
<1>6. IsFiniteSet(StaticHandles(l)) /\ IsFiniteSet(CallHandles(l))
  BY <1>2, <1>3, <1>4, <1>5, FS_Subset
<1> QED BY <1>6, FS_CardinalityType

\* Frames below the innermost one of their thread are loops.
LEMMA BelowTop ==
  ASSUME IInv, NEW h \in Frames, h # TopAt(h[1])
  PROVE  /\ h[2] < Len(stack[h[1]]) /\ Calling(FrameOf(h))
         /\ FrameOf(h).at \in Loops
         /\ Above(h) \in Frames
<1>1. h = <<h[1], h[2]>> /\ h[1] \in Threads /\ h[2] \in 1 .. Len(stack[h[1]])
      /\ Len(stack[h[1]]) \in Nat
  BY FramesAre
<1>2. h[2] # Len(stack[h[1]])
  BY <1>1 DEF TopAt
<1>3. h[2] < Len(stack[h[1]]) /\ h[2] + 1 \in 1 .. Len(stack[h[1]])
  BY <1>1, <1>2
<1>4. Calling(FrameOf(h))
  BY <1>3, FrameTyped
<1>5. Above(h) \in Frames
  BY <1>1, <1>3, FramesAre DEF Above
<1> QED BY <1>3, <1>4, <1>5 DEF Calling

\* A library the keeper holds is not freed by others.
LEMMA GuardedCounts ==
  ASSUME OInv, NEW f \in Frames, Guarded(f)
  PROVE  /\ FrameOf(f).lib \in Libs /\ Live(FrameOf(f).lib)
         /\ ref[FrameOf(f).lib] >= 2
         /\ ~Doomed(FrameOf(f))
<1> DEFINE l == FrameOf(f).lib
<1>1. l \in Libs
  BY FrameTyped DEF OInv, Guarded, FrameOK, NoLibraryYet
<1>2. Good(FrameOf(f))
  BY DEF OInv, FramesGood
<1>3. Live(l) /\ library[l].path = FrameOf(f).path
  BY <1>1, <1>2, LibsAssumption DEF Good, LiveAt
<1>4. HeldHandles(l) \in Nat /\ HeldHandles(l) # 0
  BY <1>1, HeldIsUnits, ThreadsAssumption DEF HeldCounted, OInv, Guarded
<1>5. Exact(l)
  BY <1>1 DEF OInv, RefExact, Exact
<1>6. /\ Cardinality(StaticHandles(l)) \in Nat /\ Cardinality(CallHandles(l)) \in Nat
  BY HandlesFinite DEF OInv
<1> HIDE DEF l
<1>7. ref[l] >= (IF cache[library[l].path] = l THEN 1 ELSE 0) + 1
  BY <1>3, <1>4, <1>5, <1>6 DEF Exact
<1>8. ~Doomed(FrameOf(f))
  BY <1>2, <1>7 DEF Good, RefAt, l
<1>9. cache[library[l].path] = l
  BY <1>3, <1>8 DEF Doomed, Guarded, Deletions, l
<1> QED BY <1>1, <1>3, <1>7, <1>8, <1>9 DEF l

\* Whoever takes a library out of the cache, or frees it, is the only one in a call.
LEMMA Undisturbed ==
  ASSUME OInv, Orderly, NEW f \in Frames,
         \/ FrameOf(f).at \in {"uncache", "zero", "destroy", "at_exit", "free"} \cup Failing
         \/ Doomed(FrameOf(f))
         \/ FrameOf(f).at \in Deletions /\ ref[FrameOf(f).lib] < 2
  PROVE  \A g \in Frames : g[1] = f[1]
<1>1. \A g \in Frames : g[1] \in Threads /\ ~Idle(g[1])
  BY FramesAre DEF OInv
<1>2. CASE Discipline = "serial"
  BY <1>1, <1>2 DEF OInv, Alone
<1>3. CASE Discipline # "serial"
  <2>1. ~Guarded(f)
    <3> SUFFICES ASSUME Guarded(f) PROVE FALSE
      OBVIOUS
    <3>0. FrameOf(f).lib \in Libs /\ ref[FrameOf(f).lib] \in Nat
      BY GuardedCounts DEF OInv, IInv, TypeOK
    <3>1. ref[FrameOf(f).lib] >= 2 /\ ~Doomed(FrameOf(f))
      BY GuardedCounts
    <3> QED BY <3>0, <3>1 DEF Guarded, Failing
  <2>2. FrameOf(f).at \in Deletions
    BY <1>3 DEF OInv, Alone, Doomed, Deletions, Failing
  <2>3. Discipline = "kept"
    BY <1>3, <2>2 DEF Orderly, OInv, Alone
  <2>4. f[1] = Keeper /\ Final
    BY <1>3, <2>1, <2>2, <2>3 DEF OInv, Alone
  <2> QED BY <1>1, <2>4 DEF Final
<1> QED BY <1>2, <1>3

\* What is in deletion.
LEMMA InDeletionIs ==
  \A y : y \in InDeletion <=>
    \E f \in Frames : /\ f[2] < Len(stack[f[1]])
                      /\ FrameOf(f).at \in {"at_exit", "unregister"}
                      /\ y = <<FrameOf(f).path, FrameOf(f).next>>
BY DEF InDeletion

LEMMA BecomeHandles ==
  ASSUME IInv, IInv', NEW t \in Threads, ~Idle(t), NEW g, Become(t, g), statics' = statics
  PROVE  /\ InDeletion' = InDeletion
         /\ \A l : StaticHandles(l)' = StaticHandles(l)
<1>1. /\ Frames' = Frames
      /\ \A f \in Frames : FrameOf(f)' = IF f = TopAt(t) THEN g ELSE FrameOf(f)
      /\ \A u \in Threads : Len(stack'[u]) = Len(stack[u])
  BY BecomeFrames
<1>2. \A f \in Frames : f[1] \in Threads /\ Len(stack[f[1]]) \in Nat
  BY FramesAre
<1>3. \A f \in Frames : f[2] < Len(stack[f[1]]) => FrameOf(f)' = FrameOf(f)
  <2> SUFFICES ASSUME NEW f \in Frames, f = TopAt(t), f[2] < Len(stack[f[1]]) PROVE FALSE
    BY <1>1
  <2> QED BY <1>2 DEF TopAt
<1>4. \A y : y \in InDeletion' <=>
        \E f \in Frames' : /\ f[2] < Len(stack'[f[1]])
                           /\ FrameOf(f)'.at \in {"at_exit", "unregister"}
                           /\ y = <<FrameOf(f)'.path, FrameOf(f)'.next>>
  BY DEF InDeletion
<1>5. \A y : y \in InDeletion' <=> y \in InDeletion
  <2> TAKE y
  <2>1. ASSUME y \in InDeletion' PROVE y \in InDeletion
    <3>1. PICK f \in Frames : /\ f[2] < Len(stack'[f[1]])
                              /\ FrameOf(f)'.at \in {"at_exit", "unregister"}
                              /\ y = <<FrameOf(f)'.path, FrameOf(f)'.next>>
      BY <1>1, <1>4, <2>1
    <3> QED BY <1>1, <1>2, <1>3, <3>1, InDeletionIs
  <2>2. ASSUME y \in InDeletion PROVE y \in InDeletion'
    <3>1. PICK f \in Frames : /\ f[2] < Len(stack[f[1]])
                              /\ FrameOf(f).at \in {"at_exit", "unregister"}
                              /\ y = <<FrameOf(f).path, FrameOf(f).next>>
      BY <2>2, InDeletionIs
    <3> QED BY <1>1, <1>2, <1>3, <1>4, <3>1
  <2> QED BY <2>1, <2>2
<1>6. InDeletion' = InDeletion
  BY <1>5
<1> QED BY <1>6 DEF StaticHandles

\* A step of one frame changes the handles of calls by its own.
LEMMA BecomeCalls ==
  ASSUME IInv, IInv', NEW t \in Threads, ~Idle(t), NEW g, Become(t, g), NEW l,
         \A f \in Frames : f # TopAt(t) => (Owns(FrameOf(f), l)' <=> Owns(FrameOf(f), l))
  PROVE  Cardinality(CallHandles(l)') =
           Cardinality(CallHandles(l)) + One(Owns(g, l)') - One(Owns(Top(t), l))
<1>1. /\ Frames' = Frames
      /\ \A f \in Frames : FrameOf(f)' = IF f = TopAt(t) THEN g ELSE FrameOf(f)
  BY BecomeFrames
<1>2. TopAt(t) \in Frames /\ FrameOf(TopAt(t)) = Top(t)
  BY TopIsFrame
<1>3. CallHandles(l) = {f \in Frames : Owns(FrameOf(f), l)}
  BY DEF CallHandles, Owns
<1>4. CallHandles(l)' = {f \in Frames' : Owns(FrameOf(f), l)'}
  BY DEF CallHandles, Owns
<1>5. TopAt(t) \in CallHandles(l) <=> Owns(Top(t), l)
  BY <1>2, <1>3
<1>6. TopAt(t) \in CallHandles(l)' <=> Owns(g, l)'
  BY <1>1, <1>2 DEF CallHandles, Owns
<1>7. \A f : f # TopAt(t) => (f \in CallHandles(l) <=> f \in CallHandles(l)')
  BY <1>1, <1>3, <1>4
<1>8. IsFiniteSet(CallHandles(l)) /\ IsFiniteSet(CallHandles(l)')
  <2>1. (IInv => IsFiniteSet(CallHandles(l)))'
    BY HandlesFinite, PTL
  <2> QED BY <2>1, HandlesFinite
<1> HIDE DEF CallHandles
<1>9. Cardinality(CallHandles(l)') = Cardinality(CallHandles(l))
        + One(TopAt(t) \in CallHandles(l)') - One(TopAt(t) \in CallHandles(l))
  BY <1>7, <1>8, DifferInOne
<1> QED BY <1>5, <1>6, <1>9 DEF One

-----------------------------------------------------------------------------
(* Steps within the innermost call.                                            *)

\* What such a step, from the frame Top(t) to g, may change: the library g has and
\* the place of its path in the cache.
Within(t, g) ==
  /\ t \in Threads /\ ~Idle(t) /\ Become(t, g)
  /\ g \in Frame /\ g.path = Top(t).path
  /\ UNCHANGED <<initialized, statics, held>>
  /\ owner \in Threads \ {t} => owner' = owner
  /\ g.at \in Critical => owner' = t

\* The other frames are as good as before.
Spares(t) ==
  \A h \in Frames : h # TopAt(t) =>
    /\ Good(FrameOf(h))'
    /\ Works(FrameOf(h))' => Works(FrameOf(h))

Places(t, g) ==
  \/ Works(g)' => Works(Top(t))
  \/ \A h \in Frames : h # TopAt(t) /\ Works(FrameOf(h)) => FrameOf(h).path # g.path

Goes(t, g) ==
  /\ Top(t).at \in Deletions => g.at \in Deletions /\ g.lib = Top(t).lib
  /\ g.at \in Failing \/ (g.at \in Deletions /\ Top(t).at \notin Deletions) => Discipline = "serial"
  /\ Discipline = "kept" /\ Guarded(TopAt(t)) => g.at \in {"check", "test"}

LEMMA WithinFrames ==
  ASSUME OInv, IInv', NEW t, NEW g, Within(t, g), Spares(t), Places(t, g), Goes(t, g), Good(g)'
  PROVE  FramesGood' /\ OwnerAt' /\ Shape' /\ Distinct' /\ Alone' /\ Closed'
<1>1. /\ Frames' = Frames
      /\ \A f \in Frames : FrameOf(f)' = IF f = TopAt(t) THEN g ELSE FrameOf(f)
      /\ \A u \in Threads : Len(stack'[u]) = Len(stack[u]) /\ (Idle(u)' <=> Idle(u))
      /\ TopAt(t) \in Frames /\ FrameOf(TopAt(t)) = Top(t)
      /\ t \in Threads /\ TopAt(t)[1] = t /\ TopAt(t)[2] = Len(stack[t])
  BY BecomeFrames, TopIsFrame DEF Within, OInv, TopAt
<1>2. \A f \in Frames : /\ f = <<f[1], f[2]>> /\ f[1] \in Threads /\ f[2] \in Nat
                        /\ Len(stack[f[1]]) \in Nat /\ f[2] <= Len(stack[f[1]])
  BY FramesAre DEF OInv
<1>3. FramesGood'
  <2>1. \A f \in Frames : f # TopAt(t) => Good(FrameOf(f))'
    BY DEF Spares
  <2>2. \A f \in Frames : Good(FrameOf(f))'
    <3> SUFFICES ASSUME NEW f \in Frames, f = TopAt(t) PROVE Good(FrameOf(f))'
      BY <2>1
    <3>1. FrameOf(f)' = g
      BY <1>1
    <3> QED BY <3>1 DEF Good, LiveAt, CachedAt, FlagsAt, RefAt, StaticsAt, Doomed, Live, Unset
  <2> QED BY <1>1, <2>2 DEF FramesGood
<1>4. OwnerAt'
  <2> SUFFICES ASSUME NEW f \in Frames, FrameOf(f)'.at \in Critical PROVE owner' = f[1]
    BY <1>1 DEF OwnerAt
  <2>1. CASE f = TopAt(t)
    BY <1>1, <2>1 DEF Within
  <2>2. CASE f # TopAt(t)
    <3>1. FrameOf(f).at \in Critical /\ owner = f[1]
      BY <1>1, <2>2 DEF OInv, OwnerAt
    <3>2. f = TopAt(f[1])
      BY <3>1, BelowTop DEF OInv, Loops, Critical
    <3>3. f[1] # t
      BY <2>2, <3>2
    <3> QED BY <1>2, <3>1, <3>3 DEF Within
  <2> QED BY <2>1, <2>2
<1>5. Shape'
  <2> SUFFICES ASSUME NEW f \in Frames, FrameOf(f)'.at \in {"unregister", "at_exit"}
               PROVE  /\ \A h \in Frames : h[1] = f[1] /\ h[2] > f[2] => FrameOf(h)'.at \in Deletions
                      /\ Above(f) \in Frames => FrameOf(Above(f))'.lib =
                           statics[FrameOf(f)'.path][FrameOf(f)'.next]
    BY <1>1 DEF Shape, Within, Above
  <2>1. CASE f = TopAt(t)
    <3>1. ASSUME NEW h \in Frames, h[1] = f[1], h[2] > f[2] PROVE FALSE
      BY <1>1, <1>2, <2>1, <3>1
    <3>2. Above(f) \notin Frames
      BY <1>1, <1>2, <2>1 DEF Above
    <3> QED BY <3>1, <3>2
  <2>2. CASE f # TopAt(t)
    <3>1. FrameOf(f)' = FrameOf(f)
      BY <1>1, <2>2
    <3>2. /\ \A h \in Frames : h[1] = f[1] /\ h[2] > f[2] => FrameOf(h).at \in Deletions
          /\ Above(f) \in Frames => FrameOf(Above(f)).lib =
               statics[FrameOf(f).path][FrameOf(f).next]
      BY <3>1 DEF OInv, Shape
    <3>3. \A h \in Frames : h[1] = f[1] /\ h[2] > f[2] =>
            FrameOf(h)'.at \in Deletions /\ FrameOf(h)'.lib = FrameOf(h).lib
      BY <1>1, <3>2 DEF Goes
    <3>4. Above(f)[1] = f[1] /\ Above(f)[2] > f[2]
      BY <1>2 DEF Above
    <3> QED BY <3>1, <3>2, <3>3, <3>4
  <2> QED BY <2>1, <2>2
<1>6. Distinct'
  <2> SUFFICES ASSUME NEW f \in Frames, NEW h \in Frames, f # h,
                      Works(FrameOf(f))', Works(FrameOf(h))'
               PROVE  FrameOf(f)'.path # FrameOf(h)'.path
    BY <1>1 DEF Distinct
  <2>0. \A x \in Frames : x # TopAt(t) /\ Works(FrameOf(x))' =>
          Works(FrameOf(x)) /\ FrameOf(x)' = FrameOf(x)
    BY <1>1 DEF Spares
  <2>1. CASE f # TopAt(t) /\ h # TopAt(t)
    BY <2>0, <2>1 DEF OInv, Distinct
  <2>2. ASSUME NEW x \in Frames, x # TopAt(t), Works(FrameOf(x))', Works(g)'
        PROVE  FrameOf(x).path # g.path
    <3>1. Works(FrameOf(x))
      BY <2>0, <2>2
    <3>2. CASE Works(g)' => Works(Top(t))
      <4>1. FrameOf(x).path # Top(t).path
        BY <1>1, <2>2, <3>1, <3>2 DEF OInv, Distinct
      <4> QED BY <4>1 DEF Within
    <3>3. CASE ~(Works(g)' => Works(Top(t)))
      BY <2>2, <3>1, <3>3 DEF Places
    <3> QED BY <3>2, <3>3
  <2>3. \A x \in Frames : x = TopAt(t) =>
          FrameOf(x)' = g /\ (Works(FrameOf(x))' <=> Works(g)')
    BY <1>1 DEF Works, Doomed
  <2>4. CASE f = TopAt(t)
    BY <2>0, <2>2, <2>3, <2>4, g.path = FrameOf(f)'.path
  <2>5. CASE h = TopAt(t)
    BY <2>0, <2>2, <2>3, <2>5, g.path = FrameOf(h)'.path
  <2> QED BY <2>1, <2>4, <2>5
<1>7. Alone'
  <2>1. Discipline = "serial" => \A u, v \in Threads : ~Idle(u)' /\ ~Idle(v)' => u = v
    BY <1>1 DEF OInv, Alone
  <2>2. Discipline # "serial" => \A f \in Frames : FrameOf(f)'.at \notin Failing
    BY <1>1 DEF OInv, Alone, Goes
  <2>3. Discipline = "load_only" => \A f \in Frames : FrameOf(f)'.at \notin Deletions
    BY <1>1 DEF OInv, Alone, Goes
  <2>4. ASSUME Discipline = "kept", NEW f \in Frames, FrameOf(f)'.at \in Deletions
        PROVE  (f[1] = Keeper /\ Final') \/ Guarded(f)'
    <3>1. FrameOf(f).at \in Deletions
      BY <1>1, <2>4 DEF Goes
    <3>2. (f[1] = Keeper /\ Final) \/ Guarded(f)
      BY <2>4, <3>1 DEF OInv, Alone
    <3>3. CASE f[1] = Keeper /\ Final
      <4>1. ~Idle(Keeper)' /\ Keeper \in Threads /\ Len(stack[Keeper]) \in Nat
            /\ Len(stack[Keeper]) > 0 /\ <<Keeper, 1>> \in Frames
        <5>1. Keeper \in Threads /\ ~Idle(Keeper)
          BY <3>3, ThreadsAssumption DEF Final, Deleting
        <5>2. Len(stack[Keeper]) \in Nat /\ Len(stack[Keeper]) # 0
          BY <5>1, FramesAre DEF OInv
        <5>3. 1 \in 1 .. Len(stack[Keeper])
          BY <5>2
        <5> QED BY <1>1, <5>1, <5>2, <5>3, FramesAre DEF OInv
      <4>2. FrameOf(<<Keeper, 1>>).at \in Deletions
        BY <3>3 DEF Final, Deleting, Deletions, FrameOf
      <4>3. FrameOf(<<Keeper, 1>>)'.at \in Deletions
        BY <1>1, <4>1, <4>2 DEF Goes
      <4>4. Deleting(Keeper)'
        BY <4>1, <4>3 DEF Deleting, Deletions, FrameOf
      <4> QED BY <1>1, <3>3, <4>4 DEF Final, Within
    <3>4. CASE Guarded(f)
      <4>1. CASE f = TopAt(t)
        <5>1. FrameOf(f)' = g /\ FrameOf(f) = Top(t)
          BY <1>1, <4>1
        <5>2. g.at \in {"check", "test"} /\ g.lib = Top(t).lib
          BY <2>4, <3>1, <3>4, <4>1, <5>1 DEF Goes
        <5> QED BY <1>1, <1>2, <3>4, <5>1, <5>2 DEF Guarded, Within
      <4>2. CASE f # TopAt(t)
        BY <1>1, <1>2, <3>4, <4>2 DEF Guarded, Within
      <4> QED BY <4>1, <4>2
    <3> QED BY <3>2, <3>3, <3>4
  <2> QED BY <1>1, <2>1, <2>2, <2>3, <2>4 DEF Alone
<1>8. Closed'
  BY <1>1 DEF OInv, Closed, Within
<1> QED BY <1>3, <1>4, <1>5, <1>6, <1>7, <1>8

\* Steps that change no library, no count and not the cache.
Quiet(t, g) ==
  /\ Within(t, g) /\ UNCHANGED <<cache, library, ref>>
  /\ Good(g) /\ Places(t, g) /\ Goes(t, g)
  /\ \A l \in Libs :
       /\ Owns(g, l) <=> Owns(Top(t), l)
       /\ Top(t).lib = l /\ Works(Top(t)) /\ Top(t).at # "uncache"
            => g.lib = l /\ Works(g) /\ g.at # "uncache"
       /\ Top(t).lib = l /\ Top(t).at \in {"check", "uncache"} /\ Cached(l) /\ ref[l] < 2
            => g.lib = l /\ g.at \in {"check", "uncache"}

LEMMA QuietStep ==
  ASSUME OInv, IInv', NEW t, NEW g, Quiet(t, g)
  PROVE  OInv'
<1>1. Within(t, g) /\ UNCHANGED <<cache, library, ref, initialized, statics, held>>
  BY DEF Quiet, Within
<1>2. /\ Frames' = Frames
      /\ \A f \in Frames : FrameOf(f)' = IF f = TopAt(t) THEN g ELSE FrameOf(f)
      /\ TopAt(t) \in Frames /\ FrameOf(TopAt(t)) = Top(t)
      /\ t \in Threads
  BY BecomeFrames, TopIsFrame DEF Within, OInv, Quiet
<1>3. ASSUME NEW f PROVE (Works(f)' <=> Works(f)) /\ (Good(f)' <=> Good(f))
  BY <1>1 DEF Works, Doomed, Good, LiveAt, CachedAt, FlagsAt, RefAt, StaticsAt, Live, Unset
<1>4. Good(g)' /\ Places(t, g) /\ Goes(t, g)
  BY <1>3 DEF Quiet
<1>5. Spares(t)
  <2> SUFFICES ASSUME NEW h \in Frames, h # TopAt(t)
               PROVE  Good(FrameOf(h))' /\ (Works(FrameOf(h))' => Works(FrameOf(h)))
    BY DEF Spares
  <2>1. FrameOf(h)' = FrameOf(h)
    BY <1>2
  <2>2. (Works(FrameOf(h))' <=> Works(FrameOf(h))) /\ (Good(FrameOf(h))' <=> Good(FrameOf(h)))
    BY <1>1, <2>1 DEF Works, Doomed, Good, LiveAt, CachedAt, FlagsAt, RefAt, StaticsAt, Live, Unset
  <2>3. Good(FrameOf(h))
    BY DEF OInv, FramesGood
  <2> QED BY <2>2, <2>3
<1>6. FramesGood' /\ OwnerAt' /\ Shape' /\ Distinct' /\ Alone' /\ Closed'
  BY <1>1, <1>4, <1>5, WithinFrames
<1>7. OnePerPath' /\ CacheLive' /\ StaticsLive' /\ HeldLive' /\ Acyclic'
  <2>1. OnePerPath' /\ CacheLive'
    BY <1>1 DEF OInv, OnePerPath, CacheLive, Live
  <2>2. StaticsLive'
    BY <1>1 DEF OInv, StaticsLive, Live, Unset
  <2>3. HeldLive'
    BY <1>1 DEF OInv, HeldLive, Live
  <2>4. Acyclic'
    <3> SUFFICES ASSUME NEW S \in SUBSET Libs, S # {}, \A l \in S : Live(l)'
                 PROVE  (\E l \in S : \A k \in S : \A i \in Elements(library[k].path) :
                           statics[library[k].path][i] # l)'
      BY DEF Acyclic
    <3>1. \A l \in S : Live(l)
      BY <1>1 DEF Live
    <3>2. \E l \in S : \A k \in S : \A i \in Elements(library[k].path) :
           statics[library[k].path][i] # l
      BY <3>1 DEF OInv, Acyclic
    <3> QED BY <1>1, <3>2
  <2> QED BY <2>1, <2>2, <2>3, <2>4
<1>8. LibrariesGood'
  <2> SUFFICES ASSUME NEW l \in Libs PROVE LibraryGood(l)'
    BY DEF LibrariesGood
  <2>1. LibraryGood(l)
    BY DEF OInv, LibrariesGood
  <2>2. Busy(l) => Busy(l)'
    <3> SUFFICES ASSUME NEW f \in Frames, FrameOf(f).lib = l, Works(FrameOf(f)),
                        FrameOf(f).at # "uncache"
                 PROVE  Busy(l)'
      BY DEF Busy
    <3>1. CASE f = TopAt(t)
      <4>1. g.lib = l /\ Works(g) /\ g.at # "uncache"
        BY <1>2, <3>1 DEF Quiet
      <4>2. FrameOf(f)' = g /\ Works(FrameOf(f))'
        BY <1>1, <1>2, <3>1, <4>1 DEF Works, Doomed
      <4> QED BY <1>2, <4>1, <4>2 DEF Busy
    <3>2. CASE f # TopAt(t)
      <4>1. FrameOf(f)' = FrameOf(f)
        BY <1>2, <3>2
      <4>2. Works(FrameOf(f))'
        BY <1>1, <4>1 DEF Works, Doomed
      <4> QED BY <1>2, <4>1, <4>2 DEF Busy
    <3> QED BY <3>1, <3>2
  <2>3. Leaving(l) /\ Cached(l) => ref[l] >= 2 \/ Leaving(l)'
    <3> SUFFICES ASSUME NEW f \in Frames, FrameOf(f).lib = l,
                        FrameOf(f).at \in {"check", "uncache"}, Cached(l), ~(ref[l] >= 2)
                 PROVE  Leaving(l)'
      BY DEF Leaving
    <3>0. ref[l] < 2
      BY DEF OInv, IInv, TypeOK
    <3>1. CASE f = TopAt(t)
      <4>1. g.lib = l /\ g.at \in {"check", "uncache"}
        BY <1>2, <3>0, <3>1 DEF Quiet
      <4>2. FrameOf(f)' = g
        BY <1>2, <3>1
      <4> QED BY <1>2, <4>1, <4>2 DEF Leaving
    <3>2. CASE f # TopAt(t)
      BY <1>2, <3>2 DEF Leaving
    <3> QED BY <3>1, <3>2
  <2> QED BY <1>1, <2>1, <2>2, <2>3 DEF LibraryGood, Live, Cached
<1>9. RefExact'
  <2> SUFFICES ASSUME NEW l \in Libs PROVE Exact(l)'
    BY DEF RefExact, Exact
  <2>1. Exact(l)
    BY DEF OInv, RefExact, Exact
  <2>2. StaticHandles(l)' = StaticHandles(l)
    BY <1>1, BecomeHandles DEF OInv, Within
  <2>3. HeldHandles(l)' = HeldHandles(l)
    BY <1>1, HeldSame DEF OInv
  <2>4. \A f \in Frames : f # TopAt(t) => (Owns(FrameOf(f), l)' <=> Owns(FrameOf(f), l))
    BY <1>1, <1>2 DEF Owns
  <2>5. Owns(g, l)' <=> Owns(Top(t), l)
    BY <1>1 DEF Quiet, Owns
  <2>6. Cardinality(CallHandles(l)') =
          Cardinality(CallHandles(l)) + One(Owns(g, l)') - One(Owns(Top(t), l))
    BY <1>1, <2>4, BecomeCalls DEF OInv, Within
  <2>7. Cardinality(CallHandles(l)) \in Nat
    BY HandlesFinite DEF OInv
  <2>8. Cardinality(CallHandles(l))' = Cardinality(CallHandles(l))
    BY <2>5, <2>6, <2>7 DEF One
  <2> QED BY <1>1, <2>1, <2>2, <2>3, <2>8 DEF Exact, Live
<1> QED BY <1>6, <1>7, <1>8, <1>9 DEF OInv

-----------------------------------------------------------------------------
(* The steps that change no library, no count and not the cache.               *)

LEMMA TopGood ==
  ASSUME OInv, NEW t \in Threads, ~Idle(t)
  PROVE  /\ Top(t) \in Frame /\ FrameOK(Top(t)) /\ Good(Top(t))
         /\ Top(t).path \in Paths /\ Top(t).at \in Points
         /\ Top(t).lib \in Libs \cup {NoLib} /\ Top(t).next \in Nat /\ Top(t).last \in Nat
         /\ Top(t).at \notin NoLibraryYet =>
              /\ Top(t).lib \in Libs /\ Live(Top(t).lib) /\ library[Top(t).lib].path = Top(t).path
              /\ ref[Top(t).lib] \in Nat
<1>1. TopAt(t) \in Frames /\ FrameOf(TopAt(t)) = Top(t)
  BY TopIsFrame DEF OInv
<1>2. Good(Top(t))
  BY <1>1 DEF OInv, FramesGood
<1>3. Top(t) \in Frame /\ FrameOK(Top(t))
  BY TopOK DEF OInv, IInv, FrameOK
<1>4. Top(t).at \notin NoLibraryYet => Top(t).lib \in Libs
  BY <1>3 DEF FrameOK
<1>5. \A l \in Libs : l # NoLib /\ ref[l] \in Nat
  BY LibsAssumption DEF OInv, IInv, TypeOK
<1> QED BY <1>2, <1>3, <1>4, <1>5 DEF Good, LiveAt, Frame

\* Where a step leads.
LEMMA MovedTo ==
  \A f \in Frame, point \in Points : \A g :
    g = [f EXCEPT !.at = point] =>
      /\ g \in Frame
      /\ g.at = point /\ g.path = f.path /\ g.lib = f.lib
      /\ g.next = f.next /\ g.last = f.last
BY DEF Frame

LEMMA QuietLock ==
  ASSUME OInv, IInv', NEW t \in Threads, LockManager(t)
  PROVE  OInv'
<1> DEFINE f == Top(t)
<1>0. PICK g : g = [f EXCEPT !.at = "lookup"]
  OBVIOUS
<1>1. /\ ~Idle(t) /\ f.at = "lock" /\ owner' = t /\ owner = NoThread /\ Become(t, g)
      /\ UNCHANGED <<initialized, cache, library, ref, statics, held>>
  BY <1>0 DEF LockManager, At, Goto
<1>2. f \in Frame /\ Good(f)
  BY <1>1, TopGood
<1>3. g \in Frame /\ g.at = "lookup" /\ g.path = f.path /\ g.lib = f.lib
  BY <1>0, <1>2, MovedTo DEF Points
<1>4. FrameOf(TopAt(t)) = f
  BY <1>1, TopIsFrame DEF OInv
<1> HIDE DEF f
<1>5. Good(g)
  BY <1>2, <1>3 DEF Good, LiveAt, CachedAt, FlagsAt, RefAt, StaticsAt, Doomed, Deletions, Loading
<1>6. Within(t, g)
  BY <1>1, <1>3, ThreadsAssumption DEF Within, f
<1>7. Places(t, g) /\ Goes(t, g)
  BY <1>1, <1>3, <1>4 DEF Places, Goes, Works, Doomed, Deletions, Loading, Failing, Guarded, f
<1>8. Quiet(t, g)
  BY <1>1, <1>3, <1>5, <1>6, <1>7 DEF Quiet, Owns, Works, Doomed, Deletions, Loading, f
<1> QED BY <1>8, QuietStep

LEMMA QuietLookupHit ==
  ASSUME OInv, IInv', NEW t \in Threads, LookupHit(t)
  PROVE  OInv'
<1> DEFINE f == Top(t)
<1>0. PICK g : g = [f EXCEPT !.at = "share", !.lib = cache[f.path]]
  OBVIOUS
<1>1. /\ ~Idle(t) /\ f.at = "lookup" /\ owner' = owner /\ Become(t, g) /\ cache[f.path] # NoLib
      /\ UNCHANGED <<initialized, cache, library, ref, statics, held>>
  BY <1>0 DEF LookupHit, At
<1>2. f \in Frame /\ Good(f) /\ f.path \in Paths
  BY <1>1, TopGood
<1>3. cache[f.path] \in Libs /\ Live(cache[f.path]) /\ library[cache[f.path]].path = f.path
  BY <1>1, <1>2 DEF OInv, IInv, TypeOK, CacheLive
<1>4. g \in Frame /\ g.at = "share" /\ g.path = f.path /\ g.lib = cache[f.path]
  BY <1>0, <1>2, <1>3 DEF Frame, Points
<1>5. TopAt(t) \in Frames /\ FrameOf(TopAt(t)) = f /\ TopAt(t)[1] = t
  BY <1>1, TopIsFrame DEF OInv, TopAt
<1>6. owner = t
  BY <1>1, <1>5 DEF OInv, OwnerAt, Critical
<1> HIDE DEF f
<1>7. Good(g)
  BY <1>2, <1>3, <1>4 DEF Good, LiveAt, CachedAt, FlagsAt, RefAt, StaticsAt, Doomed, Deletions, Loading
<1>8. Within(t, g)
  BY <1>1, <1>4, <1>6 DEF Within, f
<1>9. Places(t, g) /\ Goes(t, g)
  BY <1>1, <1>4, <1>5 DEF Places, Goes, Works, Doomed, Deletions, Loading, Failing, Guarded, f
<1>10. Quiet(t, g)
  BY <1>1, <1>4, <1>7, <1>8, <1>9 DEF Quiet, Owns, Works, Doomed, Deletions, Loading, f
<1> QED BY <1>10, QuietStep

LEMMA QuietLookupMiss ==
  ASSUME OInv, IInv', NEW t \in Threads, LookupMiss(t)
  PROVE  OInv'
<1> DEFINE f == Top(t)
<1>0. PICK g : g = [f EXCEPT !.at = "create"]
  OBVIOUS
<1>1. /\ ~Idle(t) /\ f.at = "lookup" /\ owner' = owner /\ Become(t, g) /\ cache[f.path] = NoLib
      /\ UNCHANGED <<initialized, cache, library, ref, statics, held>>
  BY <1>0 DEF LookupMiss, At, Goto
<1>2. f \in Frame /\ Good(f)
  BY <1>1, TopGood
<1>3. g \in Frame /\ g.at = "create" /\ g.path = f.path /\ g.lib = f.lib
  BY <1>0, <1>2, MovedTo DEF Points
<1>4. TopAt(t) \in Frames /\ FrameOf(TopAt(t)) = f /\ TopAt(t)[1] = t
  BY <1>1, TopIsFrame DEF OInv, TopAt
<1>5. owner = t
  BY <1>1, <1>4 DEF OInv, OwnerAt, Critical
<1> HIDE DEF f
<1>6. Good(g)
  BY <1>1, <1>2, <1>3 DEF Good, LiveAt, CachedAt, FlagsAt, RefAt, StaticsAt, Doomed, Deletions, Loading
<1>7. Within(t, g)
  BY <1>1, <1>3, <1>5 DEF Within, f
<1>8. Places(t, g) /\ Goes(t, g)
  BY <1>1, <1>3, <1>4 DEF Places, Goes, Works, Doomed, Deletions, Loading, Failing, Guarded, f
<1>9. Quiet(t, g)
  BY <1>1, <1>3, <1>6, <1>7, <1>8 DEF Quiet, Owns, Works, Doomed, Deletions, Loading, f
<1> QED BY <1>9, QuietStep

LEMMA QuietLoad ==
  ASSUME OInv, IInv', Orderly, NEW t \in Threads, LoadLibrary(t)
  PROVE  OInv'
<1> DEFINE f == Top(t)
           n == Len(Requires[f.path])
<1>0. PICK d, r : d = [f EXCEPT !.at = "discard"] /\ r = [f EXCEPT !.at = "register", !.next = 1, !.last = n]
  OBVIOUS
<1>1. /\ ~Idle(t) /\ f.at = "load" /\ owner' = owner
      /\ IF Fault[f.path] = "open" THEN Become(t, d) ELSE Become(t, r)
      /\ UNCHANGED <<initialized, cache, library, ref, statics, held>>
  BY <1>0 DEF LoadLibrary, At, Goto, GotoLoop
<1>2. f \in Frame /\ Good(f) /\ f.path \in Paths
  BY <1>1, TopGood
<1>n. n \in Nat
  BY <1>2, RequiresAssumption
<1>3. d \in Frame /\ d.at = "discard" /\ d.path = f.path /\ d.lib = f.lib
  BY <1>0, <1>2, MovedTo DEF Points
<1>4. r \in Frame /\ r.at = "register" /\ r.path = f.path /\ r.lib = f.lib /\ r.next = 1 /\ r.last = n
  BY <1>0, <1>2, <1>n DEF Frame, Points
<1>5. FrameOf(TopAt(t)) = f
  BY <1>1, TopIsFrame DEF OInv
<1> HIDE DEF f
<1>6. CASE Fault[f.path] = "open"
  <2>1. Discipline = "serial"
    BY <1>2, <1>6 DEF Orderly
  <2>2. Good(d)
    BY <1>1, <1>2, <1>3
       DEF Good, LiveAt, CachedAt, FlagsAt, RefAt, StaticsAt, Doomed, Deletions, Loading
  <2>3. Within(t, d)
    BY <1>1, <1>3, <1>6 DEF Within, f, Critical
  <2>4. Places(t, d) /\ Goes(t, d)
    BY <1>1, <1>3, <1>5, <2>1 DEF Places, Goes, Works, Doomed, Deletions, Loading, Failing, Guarded, f
  <2>5. Quiet(t, d)
    BY <1>1, <1>3, <2>2, <2>3, <2>4 DEF Quiet, Owns, Works, Doomed, Deletions, Loading, f
  <2> QED BY <2>5, QuietStep
<1>7. CASE Fault[f.path] # "open"
  <2>1. Good(r)
    BY <1>1, <1>2, <1>4
       DEF Good, LiveAt, CachedAt, FlagsAt, RefAt, StaticsAt, Doomed, Deletions, Loading
  <2>2. Within(t, r)
    BY <1>1, <1>4, <1>7 DEF Within, f, Critical
  <2>3. Places(t, r) /\ Goes(t, r)
    BY <1>1, <1>4, <1>5 DEF Places, Goes, Works, Doomed, Deletions, Loading, Failing, Guarded, f
  <2>4. Quiet(t, r)
    BY <1>1, <1>4, <2>1, <2>2, <2>3 DEF Quiet, Owns, Works, Doomed, Deletions, Loading, f
  <2> QED BY <2>4, QuietStep
<1> QED BY <1>6, <1>7

LEMMA QuietUnregister ==
  ASSUME OInv, IInv', Orderly, NEW t \in Threads, RegisterClasses(t),
         Fault[Top(t).path] = "register"
  PROVE  OInv'
<1> DEFINE f == Top(t)
           n == Len(Requires[f.path])
<1>0. PICK r : r = [f EXCEPT !.at = "unregister", !.next = 1, !.last = n]
  OBVIOUS
<1>1. /\ ~Idle(t) /\ f.at = "register" /\ owner' = owner /\ Become(t, r)
      /\ UNCHANGED <<initialized, cache, library, ref, statics, held>>
  BY <1>0 DEF RegisterClasses, At, GotoLoop
<1>2. f \in Frame /\ Good(f) /\ f.path \in Paths
  BY <1>1, TopGood
<1>n. n \in Nat
  BY <1>2, RequiresAssumption
<1>3. r \in Frame /\ r.at = "unregister" /\ r.path = f.path /\ r.lib = f.lib /\ r.next = 1 /\ r.last = n
  BY <1>0, <1>2, <1>n DEF Frame, Points
<1>4. FrameOf(TopAt(t)) = f
  BY <1>1, TopIsFrame DEF OInv
<1>5. Discipline = "serial"
  BY <1>2 DEF Orderly
<1> HIDE DEF f
<1>6. StaticsAt(r)
  <2>1. \A i \in Elements(r.path) : ~(i < r.next) /\ ~(i > r.last)
    BY <1>3, <1>n DEF Elements
  <2> QED BY <1>3, <2>1 DEF StaticsAt, Doomed, Deletions
<1>7. Good(r)
  BY <1>1, <1>2, <1>3, <1>6
     DEF Good, LiveAt, CachedAt, FlagsAt, RefAt, Doomed, Deletions, Loading
<1>8. Within(t, r)
  BY <1>1, <1>3 DEF Within, f, Critical
<1>9. Places(t, r) /\ Goes(t, r)
  BY <1>1, <1>3, <1>4, <1>5 DEF Places, Goes, Works, Doomed, Deletions, Loading, Failing, Guarded, f
<1>10. Quiet(t, r)
  BY <1>1, <1>3, <1>7, <1>8, <1>9 DEF Quiet, Owns, Works, Doomed, Deletions, Loading, f
<1> QED BY <1>10, QuietStep

\* Nobody else loads or frees a library that is ready and cached.
LEMMA OnlyUncache ==
  ASSUME OInv, NEW h \in Frames, Works(FrameOf(h)), NEW l \in Libs, Live(l),
         library[l].path = FrameOf(h).path, Cached(l), library[l].ready
  PROVE  FrameOf(h).at = "uncache" /\ FrameOf(h).lib = l
<1> DEFINE k == FrameOf(h).lib
<1>1. FrameOf(h).at \notin NoLibraryYet
  BY DEF Works, Doomed, Loading, Deletions, NoLibraryYet
<1>2. k \in Libs
  BY <1>1, FrameTyped DEF OInv, FrameOK
<1>3. Good(FrameOf(h))
  BY DEF OInv, FramesGood
<1>4. Live(k) /\ library[k].path = FrameOf(h).path
  BY <1>2, <1>3, LibsAssumption DEF Good, LiveAt
<1>5. k = l
  BY <1>2, <1>4 DEF OInv, OnePerPath
<1>6. FrameOf(h).at \notin Loading
  BY <1>3, <1>5 DEF Good, FlagsAt
<1>7. ~Doomed(FrameOf(h))
  BY <1>5 DEF Doomed, Cached
<1> QED BY <1>5, <1>6, <1>7 DEF Works

\* The deletion of a library that is still cached finds it ready and counted.
LEMMA CachedCounts ==
  ASSUME OInv, NEW l \in Libs, Live(l)
  PROVE  /\ Cached(l) => ref[l] >= 1
         /\ library[l].ready => library[l].inManager
         /\ ref[l] \in Nat
<1>1. Exact(l) /\ LibraryGood(l)
  BY DEF OInv, RefExact, Exact, LibrariesGood
<1>2. HeldHandles(l) \in Nat
  BY HeldIsUnits DEF HeldCounted, OInv
<1>3. Cardinality(StaticHandles(l)) \in Nat /\ Cardinality(CallHandles(l)) \in Nat
  BY HandlesFinite DEF OInv
<1>4. ref[l] \in Nat
  BY DEF OInv, IInv, TypeOK
<1> QED BY <1>1, <1>2, <1>3, <1>4 DEF Exact, LibraryGood, Cached

LEMMA QuietCheck ==
  ASSUME OInv, IInv', Orderly, NEW t \in Threads, CheckLastReference(t)
  PROVE  OInv'
<1> DEFINE f == Top(t)
           l == f.lib
           last == ref[l] = 1 /\ library[l].inManager
<1>0. PICK g : g = [f EXCEPT !.at = IF last THEN "uncache" ELSE "test"]
  OBVIOUS
<1>1. /\ ~Idle(t) /\ f.at = "check" /\ owner' = owner /\ Become(t, g)
      /\ UNCHANGED <<initialized, cache, library, ref, statics, held>>
  BY <1>0 DEF CheckLastReference, At, Goto
<1>2. /\ f \in Frame /\ Good(f) /\ f.path \in Paths
      /\ l \in Libs /\ Live(l) /\ library[l].path = f.path /\ ref[l] \in Nat
  BY <1>1, TopGood DEF NoLibraryYet
<1>3. /\ g \in Frame /\ g.at = (IF last THEN "uncache" ELSE "test")
      /\ g.path = f.path /\ g.lib = l
  BY <1>0, <1>2 DEF Frame, Points
<1>4. TopAt(t) \in Frames /\ FrameOf(TopAt(t)) = f /\ TopAt(t)[1] = t
  BY <1>1, TopIsFrame DEF OInv, TopAt
<1>5. Cached(l) <=> ~Doomed(f)
  BY <1>1, <1>2 DEF Cached, Doomed, Deletions
<1>6. Cached(l) => library[l].ready /\ library[l].inManager /\ ref[l] >= 1
  BY <1>1, <1>2, <1>5, CachedCounts DEF Good, FlagsAt
<1>7. last => Cached(l)
  BY <1>2, <1>5 DEF Good, RefAt
<1> HIDE DEF f, l, last
<1>8. CASE last
  <2>1. ref[l] = 1 /\ library[l].ready /\ Cached(l) /\ ~Doomed(f)
    BY <1>5, <1>6, <1>7, <1>8 DEF last
  <2>2. Good(g)
    BY <1>1, <1>2, <1>3, <1>8, <2>1
       DEF Good, LiveAt, CachedAt, FlagsAt, RefAt, StaticsAt, Doomed, Deletions, Loading, Cached, l
  <2>3. Within(t, g)
    BY <1>1, <1>3, <1>8 DEF Within, f, Critical
  <2>4. \A h \in Frames : h # TopAt(t) /\ Works(FrameOf(h)) => FrameOf(h).path # g.path
    <3> SUFFICES ASSUME NEW h \in Frames, h # TopAt(t), Works(FrameOf(h)), FrameOf(h).path = g.path
                 PROVE  FALSE
      OBVIOUS
    <3>1. FrameOf(h).at = "uncache"
      BY <1>2, <1>3, <2>1, OnlyUncache
    <3>2. h[1] = t
      <4>1. TopAt(t) \in Frames /\ FrameOf(TopAt(t)).at \in Deletions /\ ref[FrameOf(TopAt(t)).lib] < 2
        BY <1>1, <1>4, <2>1 DEF Deletions, l
      <4> QED BY <1>4, <4>1, Undisturbed
    <3>3. FrameOf(h).at \in Loops
      BY <3>2, BelowTop DEF OInv
    <3> QED BY <3>1, <3>3 DEF Loops
  <2>5. Discipline = "kept" => ~Guarded(TopAt(t))
    <3> SUFFICES ASSUME Guarded(TopAt(t)) PROVE FALSE
      OBVIOUS
    <3>1. ref[l] >= 2
      BY <1>4, GuardedCounts DEF l
    <3> QED BY <2>1, <3>1
  <2>6. Places(t, g) /\ Goes(t, g)
    BY <1>1, <1>3, <1>4, <1>8, <2>4, <2>5
       DEF Places, Goes, Works, Doomed, Deletions, Loading, Failing, f, l
  <2>7. Quiet(t, g)
    BY <1>1, <1>3, <1>8, <2>1, <2>2, <2>3, <2>6
       DEF Quiet, Owns, Works, Doomed, Deletions, Loading, f, l
  <2> QED BY <2>7, QuietStep
<1>9. CASE ~last
  <2>1. Cached(l) => ref[l] >= 2
    BY <1>2, <1>6, <1>9 DEF last
  <2>2. Good(g)
    BY <1>1, <1>2, <1>3, <1>9
       DEF Good, LiveAt, CachedAt, FlagsAt, RefAt, StaticsAt, Doomed, Deletions, Loading, l
  <2>3. Within(t, g)
    BY <1>1, <1>3, <1>9 DEF Within, f, Critical
  <2>4. Places(t, g) /\ Goes(t, g)
    BY <1>1, <1>3, <1>4, <1>9
       DEF Places, Goes, Works, Doomed, Deletions, Loading, Failing, f, l
  <2>5. Quiet(t, g)
    BY <1>1, <1>2, <1>3, <1>9, <2>1, <2>2, <2>3, <2>4
       DEF Quiet, Owns, Works, Doomed, Deletions, Loading, f, l
  <2> QED BY <2>5, QuietStep
<1> QED BY <1>8, <1>9

LEMMA QuietTest ==
  ASSUME OInv, IInv', Orderly, NEW t \in Threads, TestUnreferenced(t), ref[Top(t).lib] = 0
  PROVE  OInv'
<1> DEFINE f == Top(t)
           l == f.lib
<1>0. PICK g : g = [f EXCEPT !.at = "destroy"]
  OBVIOUS
<1>1. /\ ~Idle(t) /\ f.at = "test" /\ owner' = owner /\ Become(t, g) /\ ref[l] = 0
      /\ UNCHANGED <<initialized, cache, library, ref, statics, held>>
  BY <1>0 DEF TestUnreferenced, At, Goto
<1>2. /\ f \in Frame /\ Good(f) /\ f.path \in Paths
      /\ l \in Libs /\ Live(l) /\ library[l].path = f.path
  BY <1>1, TopGood DEF NoLibraryYet
<1>3. g \in Frame /\ g.at = "destroy" /\ g.path = f.path /\ g.lib = l
  BY <1>0, <1>2, MovedTo DEF Points
<1>4. TopAt(t) \in Frames /\ FrameOf(TopAt(t)) = f
  BY <1>1, TopIsFrame DEF OInv
<1>5. ~Cached(l)
  BY <1>1, <1>2, CachedCounts
<1>6. ~Guarded(TopAt(t))
  <2> SUFFICES ASSUME Guarded(TopAt(t)) PROVE FALSE
    OBVIOUS
  <2>1. ref[l] >= 2
    BY <1>4, GuardedCounts
  <2> QED BY <1>1, <2>1
<1> HIDE DEF f, l
<1>7. Doomed(f) /\ Doomed(g)
  BY <1>1, <1>2, <1>3, <1>5 DEF Doomed, Deletions, Cached, l
<1>8. Good(g)
  BY <1>1, <1>2, <1>3, <1>7
     DEF Good, LiveAt, CachedAt, FlagsAt, RefAt, StaticsAt, Doomed, Deletions, Loading, l
<1>9. Within(t, g)
  BY <1>1, <1>3 DEF Within, f, Critical
<1>10. Places(t, g) /\ Goes(t, g)
  BY <1>1, <1>3, <1>6, <1>7 DEF Places, Goes, Works, Deletions, Failing, f, l
<1>11. Quiet(t, g)
  BY <1>1, <1>3, <1>7, <1>8, <1>9, <1>10 DEF Quiet, Owns, Works, f, l
<1> QED BY <1>11, QuietStep

LEMMA QuietDestroy ==
  ASSUME OInv, IInv', NEW t \in Threads, DestroyLibrary(t)
  PROVE  OInv'
<1> DEFINE f == Top(t)
           l == f.lib
           n == Len(Requires[f.path])
<1>0. PICK g, r : g = [f EXCEPT !.at = "free"] /\ r = [f EXCEPT !.at = "at_exit", !.next = 1, !.last = n]
  OBVIOUS
<1>1. /\ ~Idle(t) /\ f.at = "destroy" /\ owner' = owner
      /\ IF library[l].dso THEN Become(t, r) ELSE Become(t, g)
      /\ UNCHANGED <<initialized, cache, library, ref, statics, held>>
  BY <1>0 DEF DestroyLibrary, At, Goto, GotoLoop
<1>2. f \in Frame /\ Good(f) /\ f.path \in Paths
  BY <1>1, TopGood
<1>3. n \in Nat
  BY <1>2, RequiresAssumption
<1>4. g \in Frame /\ g.at = "free" /\ g.path = f.path /\ g.lib = l
  BY <1>0, <1>2, MovedTo DEF Points
<1>5. r \in Frame /\ r.at = "at_exit" /\ r.path = f.path /\ r.lib = l /\ r.next = 1 /\ r.last = n
  BY <1>0, <1>2, <1>3 DEF Frame, Points
<1>6. FrameOf(TopAt(t)) = f
  BY <1>1, TopIsFrame DEF OInv
<1>7. Doomed(f) /\ Doomed(g) /\ Doomed(r)
  BY <1>1, <1>2, <1>4, <1>5 DEF Good, CachedAt, Doomed, Deletions
<1> HIDE DEF f, l
<1>8. CASE library[l].dso
  <2>1. \A i \in Elements(r.path) : ~(i < r.next)
    BY <1>5 DEF Elements
  <2>2. StaticsAt(r)
    BY <1>5, <1>8, <2>1 DEF StaticsAt
  <2>3. Good(r)
    BY <1>1, <1>2, <1>5, <1>7, <2>2
       DEF Good, LiveAt, CachedAt, FlagsAt, RefAt, Deletions, Loading, l
  <2>4. Within(t, r)
    BY <1>1, <1>5, <1>8 DEF Within, f, Critical
  <2>5. Places(t, r) /\ Goes(t, r)
    BY <1>1, <1>5, <1>6, <1>7 DEF Places, Goes, Works, Deletions, Failing, Guarded, f, l
  <2>6. Quiet(t, r)
    BY <1>1, <1>5, <1>7, <2>3, <2>4, <2>5 DEF Quiet, Owns, Works, f, l
  <2> QED BY <2>6, QuietStep
<1>9. CASE ~library[l].dso
  <2>1. Good(g)
    BY <1>1, <1>2, <1>4, <1>7, <1>9
       DEF Good, LiveAt, CachedAt, FlagsAt, RefAt, StaticsAt, Deletions, Loading, l
  <2>2. Within(t, g)
    BY <1>1, <1>4, <1>9 DEF Within, f, Critical
  <2>3. Places(t, g) /\ Goes(t, g)
    BY <1>1, <1>4, <1>6, <1>7 DEF Places, Goes, Works, Deletions, Failing, Guarded, f, l
  <2>4. Quiet(t, g)
    BY <1>1, <1>4, <1>7, <2>1, <2>2, <2>3 DEF Quiet, Owns, Works, f, l
  <2> QED BY <2>4, QuietStep
<1> QED BY <1>8, <1>9

LEMMA QuietSkip ==
  ASSUME OInv, IInv', NEW t \in Threads, DeleteRequired(t),
         statics[Top(t).path][Top(t).next] = NoLib
  PROVE  OInv'
<1> DEFINE f == Top(t)
           l == f.lib
<1>0. PICK g : g = [f EXCEPT !.next = @ + 1]
  OBVIOUS
<1>1. /\ ~Idle(t) /\ f.at \in {"at_exit", "unregister"} /\ owner' = owner /\ Become(t, g)
      /\ Unset(f.path, f.next)
      /\ UNCHANGED <<initialized, cache, library, ref, statics, held>>
  BY <1>0 DEF DeleteRequired, At, Unset
<1>2. f \in Frame /\ Good(f) /\ f.path \in Paths /\ f.next \in Nat
  BY <1>1, TopGood
<1>3. /\ g \in Frame /\ g.at = f.at /\ g.path = f.path /\ g.lib = l
      /\ g.next = f.next + 1 /\ g.last = f.last
  BY <1>0, <1>2 DEF Frame
<1>4. TopAt(t) \in Frames /\ FrameOf(TopAt(t)) = f
  BY <1>1, TopIsFrame DEF OInv
<1>5. f.at \in Failing => Discipline = "serial"
  BY <1>4 DEF OInv, Alone
<1>6. Works(f) /\ Works(g) /\ g.at # "uncache" /\ (Doomed(g) <=> Doomed(f))
  BY <1>1, <1>2, <1>3 DEF Works, Doomed, Deletions, Loading, Good, CachedAt
<1> HIDE DEF f, l
<1>7. StaticsAt(g)
  <2>1. \A i \in Elements(f.path) : i < g.next => i < f.next \/ i = f.next
    BY <1>2, <1>3 DEF Elements
  <2> QED BY <1>1, <1>2, <1>3, <1>6, <2>1 DEF Good, StaticsAt, l
<1>8. Good(g)
  BY <1>1, <1>2, <1>3, <1>6, <1>7 DEF Good, LiveAt, CachedAt, FlagsAt, RefAt, l
<1>9. Within(t, g)
  BY <1>1, <1>3 DEF Within, f, Critical
<1>10. Places(t, g) /\ Goes(t, g)
  BY <1>1, <1>3, <1>4, <1>5, <1>6 DEF Places, Goes, Deletions, Failing, Guarded, f, l
<1>11. Quiet(t, g)
  BY <1>1, <1>3, <1>6, <1>8, <1>9, <1>10 DEF Quiet, Owns, f, l
<1> QED BY <1>11, QuietStep

LEMMA QuietDeleted ==
  ASSUME OInv, IInv', NEW t \in Threads, RequiredDeleted(t)
  PROVE  OInv'
<1> DEFINE f == Top(t)
           l == f.lib
<1>0. PICK g : g = [f EXCEPT !.at = IF f.at = "at_exit" THEN "free" ELSE "discard"]
  OBVIOUS
<1>1. /\ ~Idle(t) /\ f.at \in {"at_exit", "unregister"} /\ owner' = owner /\ Become(t, g)
      /\ f.next > f.last
      /\ UNCHANGED <<initialized, cache, library, ref, statics, held>>
  BY <1>0 DEF RequiredDeleted, At, Goto
<1>2. f \in Frame /\ Good(f) /\ f.path \in Paths /\ f.next \in Nat /\ f.last \in Nat
  BY <1>1, TopGood
<1>3. /\ g \in Frame /\ g.at = (IF f.at = "at_exit" THEN "free" ELSE "discard")
      /\ g.path = f.path /\ g.lib = l
  BY <1>0, <1>2 DEF Frame, Points
<1>4. TopAt(t) \in Frames /\ FrameOf(TopAt(t)) = f
  BY <1>1, TopIsFrame DEF OInv
<1>5. f.at \in Failing => Discipline = "serial"
  BY <1>4 DEF OInv, Alone
<1>6. Works(f) /\ Works(g) /\ g.at # "uncache" /\ (Doomed(g) <=> Doomed(f))
  BY <1>1, <1>2, <1>3 DEF Works, Doomed, Deletions, Loading, Good, CachedAt
<1> HIDE DEF f, l
<1>7. \A i \in Elements(f.path) : Unset(f.path, i)
  <2>1. CASE f.at = "at_exit"
    <3>1. Len(Requires[f.path]) \in Nat
      BY <1>2, RequiresAssumption
    <3>2. \A i \in Elements(f.path) : i < f.next
      BY <1>1, <1>2, <2>1, <3>1 DEF Good, StaticsAt, Elements
    <3> QED BY <1>2, <2>1, <3>2 DEF Good, StaticsAt
  <2>2. CASE f.at = "unregister"
    <3>1. \A i \in Elements(f.path) : i < f.next \/ i > f.last
      BY <1>1, <1>2 DEF Elements
    <3> QED BY <1>2, <2>2, <3>1 DEF Good, StaticsAt
  <2> QED BY <1>1, <2>1, <2>2
<1>8. Good(g)
  <2>1. StaticsAt(g)
    BY <1>1, <1>3, <1>7 DEF StaticsAt
  <2> QED BY <1>1, <1>2, <1>3, <1>6, <2>1
          DEF Good, LiveAt, CachedAt, FlagsAt, RefAt, Loading, l
<1>9. Within(t, g)
  BY <1>1, <1>3 DEF Within, f, Critical
<1>10. Places(t, g) /\ Goes(t, g)
  BY <1>1, <1>3, <1>4, <1>5, <1>6 DEF Places, Goes, Deletions, Failing, Guarded, f, l
<1>11. Quiet(t, g)
  BY <1>1, <1>3, <1>6, <1>8, <1>9, <1>10 DEF Quiet, Owns, f, l
<1> QED BY <1>11, QuietStep

-----------------------------------------------------------------------------
(* Steps within the innermost call that change a library, a count or the cache. *)

LEMMA WithinIs ==
  ASSUME OInv, NEW t, NEW g, Within(t, g)
  PROVE  /\ Frames' = Frames
         /\ \A f \in Frames : FrameOf(f)' = IF f = TopAt(t) THEN g ELSE FrameOf(f)
         /\ TopAt(t) \in Frames /\ FrameOf(TopAt(t)) = Top(t) /\ TopAt(t)[1] = t
         /\ t \in Threads
BY BecomeFrames, TopIsFrame DEF Within, OInv, TopAt

\* The count of a library changes by what the frame gains or gives up.
LEMMA RefStep ==
  ASSUME OInv, IInv', NEW t, NEW g, Within(t, g), NEW l \in Libs, Live(l),
         \A f \in Frames : f # TopAt(t) => (Owns(FrameOf(f), l)' <=> Owns(FrameOf(f), l)),
         ref'[l] = ref[l] + One(Cached(l)') - One(Cached(l))
                          + One(Owns(g, l)') - One(Owns(Top(t), l))
  PROVE  Exact(l)'
<1>1. Exact(l)
  BY DEF OInv, RefExact, Exact
<1>2. StaticHandles(l)' = StaticHandles(l)
  BY BecomeHandles DEF OInv, Within
<1>3. HeldHandles(l)' = HeldHandles(l)
  BY HeldSame DEF OInv, Within
<1>4. Cardinality(CallHandles(l)') =
        Cardinality(CallHandles(l)) + One(Owns(g, l)') - One(Owns(Top(t), l))
  BY BecomeCalls DEF OInv, Within
<1>5. Cardinality(CallHandles(l)) \in Nat /\ Cardinality(StaticHandles(l)) \in Nat
  BY HandlesFinite DEF OInv
<1>6. HeldHandles(l) \in Nat
  BY HeldIsUnits DEF HeldCounted, OInv
<1>7. ref[l] = One(Cached(l)) + HeldHandles(l) + Cardinality(StaticHandles(l))
               + Cardinality(CallHandles(l))
  BY <1>1 DEF Exact, One, Cached
<1> DEFINE c == One(Cached(l))
           d == One(Cached(l)')
           o == One(Owns(Top(t), l))
           q == One(Owns(g, l)')
<1>8. c \in Nat /\ d \in Nat /\ o \in Nat /\ q \in Nat
  BY DEF One
<1> HIDE DEF c, d, o, q
<1>9. ref'[l] = d + HeldHandles(l) + Cardinality(StaticHandles(l)) + Cardinality(CallHandles(l)')
  <2>1. ref[l] = c + HeldHandles(l) + Cardinality(StaticHandles(l)) + Cardinality(CallHandles(l))
    BY <1>7 DEF c
  <2>2. ref'[l] = ref[l] + d - c + q - o
    BY DEF c, d, o, q
  <2>3. Cardinality(CallHandles(l)') = Cardinality(CallHandles(l)) + q - o
    BY <1>4 DEF o, q
  <2> QED BY <1>5, <1>6, <1>8, <2>1, <2>2, <2>3
<1> QED BY <1>2, <1>3, <1>9 DEF Exact, One, Cached, d

LEMMA BusyKept ==
  ASSUME OInv, NEW t, NEW g, Within(t, g), NEW l,
         Top(t).lib = l /\ Works(Top(t)) /\ Top(t).at # "uncache"
           => g.lib = l /\ Works(g)' /\ g.at # "uncache",
         \A h \in Frames : h # TopAt(t) /\ FrameOf(h).lib = l /\ Works(FrameOf(h))
                             => Works(FrameOf(h))'
  PROVE  Busy(l) => Busy(l)'
<1>1. /\ Frames' = Frames
      /\ \A f \in Frames : FrameOf(f)' = IF f = TopAt(t) THEN g ELSE FrameOf(f)
      /\ FrameOf(TopAt(t)) = Top(t)
  BY WithinIs
<1> SUFFICES ASSUME NEW f \in Frames, FrameOf(f).lib = l, Works(FrameOf(f)),
                    FrameOf(f).at # "uncache"
             PROVE  Busy(l)'
  BY DEF Busy
<1>2. CASE f = TopAt(t)
  <2>1. g.lib = l /\ Works(g)' /\ g.at # "uncache"
    BY <1>1, <1>2
  <2>2. FrameOf(f)' = g
    BY <1>1, <1>2
  <2>3. Works(FrameOf(f))'
    BY <2>1, <2>2 DEF Works, Doomed
  <2> QED BY <1>1, <2>1, <2>2, <2>3 DEF Busy
<1>3. CASE f # TopAt(t)
  <2>1. FrameOf(f)' = FrameOf(f) /\ Works(FrameOf(f))'
    BY <1>1, <1>3
  <2> QED BY <1>1, <2>1 DEF Busy
<1> QED BY <1>2, <1>3

LEMMA LeavingKept ==
  ASSUME OInv, NEW t, NEW g, Within(t, g), NEW l,
         Top(t).lib = l /\ Top(t).at \in {"check", "uncache"}
           => g.lib = l /\ g.at \in {"check", "uncache"}
  PROVE  Leaving(l) => Leaving(l)'
<1>1. /\ Frames' = Frames
      /\ \A f \in Frames : FrameOf(f)' = IF f = TopAt(t) THEN g ELSE FrameOf(f)
      /\ FrameOf(TopAt(t)) = Top(t)
  BY WithinIs
<1> QED BY <1>1 DEF Leaving

\* The frames below one that works alone work on other paths.
LEMMA AloneFrames ==
  ASSUME OInv, NEW t \in Threads, ~Idle(t), Works(Top(t)), \A h \in Frames : h[1] = t
  PROVE  \A h \in Frames : h # TopAt(t) =>
           /\ FrameOf(h).at \in Loops /\ Works(FrameOf(h))
           /\ FrameOf(h).path # Top(t).path
           /\ FrameOf(h).lib \in Libs /\ FrameOf(h).lib # Top(t).lib
           /\ library[FrameOf(h).lib].path = FrameOf(h).path
<1> SUFFICES ASSUME NEW h \in Frames, h # TopAt(t)
             PROVE  /\ FrameOf(h).at \in Loops /\ Works(FrameOf(h))
                    /\ FrameOf(h).path # Top(t).path
                    /\ FrameOf(h).lib \in Libs /\ FrameOf(h).lib # Top(t).lib
                    /\ library[FrameOf(h).lib].path = FrameOf(h).path
  OBVIOUS
<1>1. TopAt(t) \in Frames /\ FrameOf(TopAt(t)) = Top(t)
  BY TopIsFrame DEF OInv
<1>2. FrameOf(h).at \in Loops
  BY BelowTop DEF OInv
<1>3. Good(FrameOf(h)) /\ FrameOf(h).lib \in Libs
  BY <1>2, FrameTyped DEF OInv, FramesGood, FrameOK, Loops, NoLibraryYet
<1>4. Works(FrameOf(h))
  BY <1>2, <1>3 DEF Good, CachedAt, Works, Doomed, Loops, Loading, Deletions
<1>5. FrameOf(h).path # Top(t).path
  BY <1>1, <1>4 DEF OInv, Distinct
<1>6. library[FrameOf(h).lib].path = FrameOf(h).path
  BY <1>3, LibsAssumption DEF Good, LiveAt
<1>7. library[Top(t).lib].path = Top(t).path
  BY TopGood DEF Works, Doomed, Loading, Deletions, NoLibraryYet
<1> QED BY <1>2, <1>3, <1>4, <1>5, <1>6, <1>7

\* Nobody takes a library out of the cache while t is elsewhere.
LEMMA NoneUncaches ==
  ASSUME OInv, Orderly, NEW t \in Threads, ~Idle(t), Top(t).at # "uncache"
  PROVE  \A h \in Frames : FrameOf(h).at # "uncache"
<1> SUFFICES ASSUME NEW h \in Frames, FrameOf(h).at = "uncache" PROVE FALSE
  OBVIOUS
<1>1. TopAt(t) \in Frames /\ FrameOf(TopAt(t)) = Top(t) /\ TopAt(t)[1] = t
  BY TopIsFrame DEF OInv, TopAt
<1>2. h[1] = t
  BY <1>1, Undisturbed
<1>3. h # TopAt(t)
  BY <1>1
<1>4. FrameOf(h).at \in Loops
  BY <1>2, <1>3, BelowTop DEF OInv
<1> QED BY <1>4 DEF Loops

\* What steps that create and free nothing keep.
LEMMA Lasting ==
  ASSUME OInv, statics' = statics,
         \A u \in Threads, k \in Libs : held'[u][k] > 0 => held[u][k] > 0,
         \A k \in Libs : /\ library'[k].state = library[k].state
                         /\ library'[k].path = library[k].path
                         /\ library'[k].ready = library[k].ready,
         \A p \in Paths : cache'[p] = cache[p] \/ cache'[p] = NoLib
  PROVE  OnePerPath' /\ CacheLive' /\ StaticsLive' /\ HeldLive' /\ Acyclic'
<1>1. \A k \in Libs : /\ Live(k)' <=> Live(k)
                      /\ library'[k].path = library[k].path
                      /\ library'[k].ready = library[k].ready
  BY DEF Live
<1>2. /\ \A p \in Paths : cache[p] # NoLib => cache[p] \in Libs
      /\ \A p \in Paths : \A i \in Elements(p) : ~Unset(p, i) => statics[p][i] \in Libs
  <2>1. \A p \in Paths : statics[p] \in [Elements(p) -> Libs \cup {NoLib}]
    BY RequiresAssumption DEF OInv, IInv, TypeOK, Elements
  <2> QED BY <2>1 DEF OInv, IInv, TypeOK, Unset
<1>3. OnePerPath'
  BY <1>1 DEF OInv, OnePerPath
<1>4. CacheLive'
  BY <1>1, <1>2 DEF OInv, CacheLive
<1>5. StaticsLive'
  <2> SUFFICES ASSUME NEW p \in Paths, NEW i \in Elements(p), ~Unset(p, i)
               PROVE  /\ Live(statics[p][i])' /\ library'[statics[p][i]].ready
                      /\ \E k \in Libs : Live(k)' /\ library'[k].path = p
    BY DEF StaticsLive, Unset, Live
  <2>1. /\ statics[p][i] \in Libs /\ Live(statics[p][i]) /\ library[statics[p][i]].ready
        /\ \E k \in Libs : Live(k) /\ library[k].path = p
    BY <1>2 DEF OInv, StaticsLive
  <2>2. \E k \in Libs : Live(k)' /\ library'[k].path = p
    BY <1>1, <2>1
  <2>3. library'[statics[p][i]].state = library[statics[p][i]].state
        /\ library'[statics[p][i]].ready
    BY <2>1
  <2> QED BY <2>1, <2>2, <2>3 DEF Live
<1>6. HeldLive'
  BY <1>1 DEF OInv, HeldLive
<1>7. Acyclic'
  <2> SUFFICES ASSUME NEW S \in SUBSET Libs, S # {}, \A k \in S : Live(k)'
               PROVE  \E l \in S : \A k \in S : \A i \in Elements(library'[k].path) :
                        statics'[library'[k].path][i] # l
    BY DEF Acyclic
  <2>1. \A k \in S : Live(k) /\ library'[k].path = library[k].path
    BY <1>1
  <2>2. \E l \in S : \A k \in S : \A i \in Elements(library[k].path) :
          statics[library[k].path][i] # l
    BY <2>1 DEF OInv, Acyclic
  <2>3. PICK l \in S : \A k \in S : \A i \in Elements(library[k].path) :
          statics[library[k].path][i] # l
    BY <2>2
  <2>4. ASSUME NEW k \in S, NEW i \in Elements(library'[k].path)
        PROVE  statics'[library'[k].path][i] # l
    <3>1. library'[k].path = library[k].path
      BY <2>1
    <3>2. i \in Elements(library[k].path)
      BY <3>1
    <3>3. statics[library[k].path][i] # l
      BY <2>3, <3>2
    <3> QED BY <3>1, <3>3
  <2> QED BY <2>4
<1> QED BY <1>3, <1>4, <1>5, <1>6, <1>7

LEMMA StepShare ==
  ASSUME OInv, IInv', Orderly, NEW t \in Threads, ShareLibrary(t)
  PROVE  OInv'
<1> DEFINE f == Top(t)
<1>0. PICK g, l : g = [f EXCEPT !.at = "spin"] /\ l = f.lib
  OBVIOUS
<1>1. /\ ~Idle(t) /\ f.at = "share" /\ owner' = NoThread /\ Become(t, g)
      /\ ref' = [ref EXCEPT ![l] = @ + 1]
      /\ UNCHANGED <<initialized, cache, library, statics, held>>
  BY <1>0 DEF ShareLibrary, At, Goto
<1>2. /\ f \in Frame /\ Good(f) /\ f.path \in Paths
      /\ l \in Libs /\ Live(l) /\ library[l].path = f.path /\ ref \in [Libs -> Nat]
  BY <1>0, <1>1, TopGood DEF NoLibraryYet, OInv, IInv, TypeOK
<1>3. g \in Frame /\ g.at = "spin" /\ g.path = f.path /\ g.lib = l
  BY <1>0, <1>2, MovedTo DEF Points
<1>4. TopAt(t) \in Frames /\ FrameOf(TopAt(t)) = f /\ TopAt(t)[1] = t
  BY <1>1, TopIsFrame DEF OInv, TopAt
<1>5. owner = t /\ cache[f.path] = l
  BY <1>0, <1>1, <1>2, <1>4 DEF OInv, OwnerAt, Critical, Good, CachedAt
<1>6. Within(t, g)
  BY <1>1, <1>3, <1>5, ThreadsAssumption DEF Within, Critical
<1>7. \A h \in Frames : FrameOf(h).at # "uncache"
  BY <1>1, NoneUncaches
<1>8. ref'[l] = ref[l] + 1 /\ \A k \in Libs : k # l => ref'[k] = ref[k]
  BY <1>1, <1>2
<1>9. /\ \A h \in Frames : FrameOf(h)' = IF h = TopAt(t) THEN g ELSE FrameOf(h)
      /\ Frames' = Frames
  BY <1>6, WithinIs
<1> HIDE DEF f
<1>10. Spares(t)
  <2> SUFFICES ASSUME NEW h \in Frames, h # TopAt(t)
               PROVE  Good(FrameOf(h))' /\ (Works(FrameOf(h))' => Works(FrameOf(h)))
    BY DEF Spares
  <2>1. FrameOf(h)' = FrameOf(h)
    BY <1>9
  <2>2. Good(FrameOf(h)) /\ (FrameOf(h).at \in Deletions => FrameOf(h).lib \in Libs)
    BY FrameTyped DEF OInv, FramesGood, FrameOK, NoLibraryYet, Deletions
  <2>3. Doomed(FrameOf(h)) => FrameOf(h).lib # l
    BY <1>2, <1>5, <2>2, LibsAssumption DEF Doomed, Good, LiveAt
  <2>4. RefAt(FrameOf(h))'
    BY <1>1, <1>7, <1>8, <2>1, <2>2, <2>3 DEF Good, RefAt, Doomed
  <2> QED BY <1>1, <2>1, <2>2, <2>4
          DEF Good, LiveAt, CachedAt, FlagsAt, StaticsAt, Doomed, Works, Live, Unset
<1>11. Good(g)'
  BY <1>1, <1>2, <1>3, <1>5
     DEF Good, LiveAt, CachedAt, FlagsAt, RefAt, StaticsAt, Doomed, Deletions, Loading, Live, f
<1>12. Places(t, g) /\ Goes(t, g)
  BY <1>1, <1>3, <1>4 DEF Places, Goes, Works, Doomed, Deletions, Loading, Failing, Guarded, f
<1>13. FramesGood' /\ OwnerAt' /\ Shape' /\ Distinct' /\ Alone' /\ Closed'
  BY <1>6, <1>10, <1>11, <1>12, WithinFrames
<1>14. OnePerPath' /\ CacheLive' /\ StaticsLive' /\ HeldLive' /\ Acyclic'
  BY <1>1, Lasting
<1>15. LibrariesGood'
  <2> SUFFICES ASSUME NEW k \in Libs PROVE LibraryGood(k)'
    BY DEF LibrariesGood
  <2>1. LibraryGood(k)
    BY DEF OInv, LibrariesGood
  <2>2. Busy(k) => Busy(k)'
    <3>1. ~Works(Top(t))
      BY <1>1 DEF Works, Doomed, Loading, Deletions, f
    <3>2. \A h \in Frames : h # TopAt(t) /\ Works(FrameOf(h)) => Works(FrameOf(h))'
      BY <1>1, <1>9 DEF Works, Doomed
    <3> QED BY <1>6, <3>1, <3>2, BusyKept
  <2>3. Leaving(k) => Leaving(k)'
    BY <1>1, <1>6, LeavingKept DEF f
  <2>4. ref[k] >= 2 => ref'[k] >= 2
    BY <1>2, <1>8
  <2> QED BY <1>1, <2>1, <2>2, <2>3, <2>4 DEF LibraryGood, Live, Cached
<1>16. RefExact'
  <2> SUFFICES ASSUME NEW k \in Libs, Live(k) PROVE Exact(k)'
    BY <1>1 DEF RefExact, Exact, Live
  <2>1. \A h \in Frames : h # TopAt(t) => (Owns(FrameOf(h), k)' <=> Owns(FrameOf(h), k))
    BY <1>1, <1>9 DEF Owns
  <2>2. (Owns(g, k)' <=> k = l) /\ ~Owns(Top(t), k) /\ (Cached(k)' <=> Cached(k))
    BY <1>1, <1>3 DEF Owns, Cached, f
  <2>3. ref'[k] = ref[k] + One(Cached(k)') - One(Cached(k)) + One(Owns(g, k)') - One(Owns(Top(t), k))
    BY <1>2, <1>8, <2>2 DEF One
  <2> QED BY <1>6, <2>1, <2>3, RefStep
<1> QED BY <1>13, <1>14, <1>15, <1>16 DEF OInv

\* What a frame knows depends on its library, its path and its static pointers only.
LEMMA GoodElsewhere ==
  ASSUME NEW h, FrameOf(h)' = FrameOf(h),
         cache'[FrameOf(h).path] = cache[FrameOf(h).path],
         library'[FrameOf(h).lib] = library[FrameOf(h).lib],
         ref'[FrameOf(h).lib] = ref[FrameOf(h).lib],
         statics'[FrameOf(h).path] = statics[FrameOf(h).path]
  PROVE  (Good(FrameOf(h))' <=> Good(FrameOf(h))) /\ (Works(FrameOf(h))' <=> Works(FrameOf(h)))
<1>1. (Doomed(FrameOf(h))' <=> Doomed(FrameOf(h))) /\ (Works(FrameOf(h))' <=> Works(FrameOf(h)))
  BY DEF Works, Doomed
<1>2. LiveAt(FrameOf(h))' <=> LiveAt(FrameOf(h))
  BY DEF LiveAt, Live
<1>3. CachedAt(FrameOf(h))' <=> CachedAt(FrameOf(h))
  BY DEF CachedAt
<1>4. FlagsAt(FrameOf(h))' <=> FlagsAt(FrameOf(h))
  BY <1>1 DEF FlagsAt, Doomed
<1>5. RefAt(FrameOf(h))' <=> RefAt(FrameOf(h))
  BY <1>1 DEF RefAt, Doomed
<1>6. StaticsAt(FrameOf(h))' <=> StaticsAt(FrameOf(h))
  BY <1>1 DEF StaticsAt, Doomed, Unset
<1> QED BY <1>1, <1>2, <1>3, <1>4, <1>5, <1>6 DEF Good

\* The library of a frame that works is its own.
LEMMA WorksAlone ==
  ASSUME OInv, NEW t \in Threads, ~Idle(t), Works(Top(t)), ~Doomed(Top(t)),
         ~library[Top(t).lib].ready
  PROVE  \A h \in Frames : h # TopAt(t) /\ FrameOf(h).lib = Top(t).lib =>
           ~Works(FrameOf(h)) /\ FrameOf(h).at \notin {"dispose", "check", "uncache", "test"}
<1> SUFFICES ASSUME NEW h \in Frames, h # TopAt(t), FrameOf(h).lib = Top(t).lib
             PROVE  ~Works(FrameOf(h)) /\ FrameOf(h).at \notin {"dispose", "check", "uncache", "test"}
  OBVIOUS
<1>1. TopAt(t) \in Frames /\ FrameOf(TopAt(t)) = Top(t)
  BY TopIsFrame DEF OInv
<1>2. /\ Top(t).lib \in Libs /\ library[Top(t).lib].path = Top(t).path /\ Good(FrameOf(h))
  BY TopGood DEF OInv, FramesGood, Works, Doomed, Loading, Deletions, NoLibraryYet
<1>3. FrameOf(h).path = Top(t).path
  BY <1>2, LibsAssumption DEF Good, LiveAt
<1>4. ~Works(FrameOf(h))
  BY <1>1, <1>3 DEF OInv, Distinct
<1>5. ~Doomed(FrameOf(h))
  BY <1>4 DEF Works
<1> QED BY <1>2, <1>4, <1>5 DEF Good, FlagsAt

LEMMA StepRegister ==
  ASSUME OInv, IInv', NEW t \in Threads, RegisterClasses(t), Fault[Top(t).path] # "register"
  PROVE  OInv'
<1> DEFINE f == Top(t)
<1>0. PICK g, l : g = [f EXCEPT !.at = "publish"] /\ l = f.lib
  OBVIOUS
<1>1. /\ ~Idle(t) /\ f.at = "register" /\ owner' = owner /\ Become(t, g)
      /\ library' = [library EXCEPT ![l].dso = TRUE]
      /\ UNCHANGED <<initialized, cache, ref, statics, held>>
  BY <1>0 DEF RegisterClasses, At, Goto
<1>2. /\ f \in Frame /\ Good(f) /\ f.path \in Paths
      /\ l \in Libs /\ Live(l) /\ library[l].path = f.path /\ library \in [Libs -> Library]
  BY <1>0, <1>1, TopGood DEF NoLibraryYet, OInv, IInv, TypeOK
<1>3. g \in Frame /\ g.at = "publish" /\ g.path = f.path /\ g.lib = l
  BY <1>0, <1>2, MovedTo DEF Points
<1>4. /\ TopAt(t) \in Frames /\ FrameOf(TopAt(t)) = f
      /\ Works(f) /\ ~Doomed(f) /\ ~library[l].ready
  BY <1>0, <1>1, <1>2, TopIsFrame
     DEF OInv, Works, Doomed, Loading, Deletions, Good, FlagsAt
<1>5. Within(t, g)
  BY <1>1, <1>3 DEF Within, Critical
<1>6. /\ \A h \in Frames : FrameOf(h)' = IF h = TopAt(t) THEN g ELSE FrameOf(h)
      /\ Frames' = Frames
  BY <1>5, WithinIs
<1>7. /\ \A k \in Libs : k # l => library'[k] = library[k]
      /\ library'[l].state = library[l].state /\ library'[l].path = library[l].path
      /\ library'[l].ready = library[l].ready /\ library'[l].inManager = library[l].inManager
      /\ library'[l].dso
  BY <1>1, <1>2 DEF Library
<1>8. \A h \in Frames : h # TopAt(t) /\ FrameOf(h).lib = l =>
        ~Works(FrameOf(h)) /\ FrameOf(h).at \notin {"dispose", "check", "uncache", "test"}
  BY <1>0, <1>1, <1>4, WorksAlone
<1> HIDE DEF f
<1>9. Spares(t)
  <2> SUFFICES ASSUME NEW h \in Frames, h # TopAt(t)
               PROVE  Good(FrameOf(h))' /\ (Works(FrameOf(h))' => Works(FrameOf(h)))
    BY DEF Spares
  <2>1. FrameOf(h)' = FrameOf(h) /\ FrameOf(h).lib \in Libs \cup {NoLib}
    BY <1>6, FrameTyped DEF OInv
  <2>2. Good(FrameOf(h)) /\ (FrameOf(h).at \notin NoLibraryYet => FrameOf(h).lib \in Libs)
    BY FrameTyped DEF OInv, FramesGood, FrameOK
  <2>3. Works(FrameOf(h))' <=> Works(FrameOf(h))
    BY <1>1, <2>1 DEF Works, Doomed
  <2>4. CASE FrameOf(h).lib # l /\ FrameOf(h).lib # NoLib
    <3>1. library'[FrameOf(h).lib] = library[FrameOf(h).lib]
      BY <1>7, <2>1, <2>4
    <3> QED BY <1>1, <2>1, <2>2, <3>1, GoodElsewhere
  <2>5. CASE FrameOf(h).lib = l
    <3>1. ~Works(FrameOf(h)) /\ FrameOf(h).at \notin {"dispose", "check", "uncache", "test"}
      BY <1>8, <2>5
    <3>2. FlagsAt(FrameOf(h))'
      BY <2>1, <3>1 DEF FlagsAt, Works, Loading
    <3> QED BY <1>1, <1>7, <2>1, <2>2, <2>3, <2>5, <3>1, <3>2
            DEF Good, LiveAt, CachedAt, RefAt, StaticsAt, Doomed, Live, Unset, Works
  <2>6. CASE FrameOf(h).lib = NoLib
    <3>1. FrameOf(h).at \in NoLibraryYet
      BY <2>2, <2>6, LibsAssumption
    <3> QED BY <1>1, <2>1, <2>2, <2>3, <2>6, <3>1
            DEF Good, LiveAt, CachedAt, FlagsAt, RefAt, StaticsAt, Doomed, Deletions, Loading, NoLibraryYet
  <2> QED BY <2>4, <2>5, <2>6
<1>10. Good(g)'
  BY <1>0, <1>1, <1>2, <1>3, <1>7
     DEF Good, LiveAt, CachedAt, FlagsAt, RefAt, StaticsAt, Doomed, Deletions, Loading, Live, f
<1>11. Places(t, g) /\ Goes(t, g)
  BY <1>1, <1>3, <1>4 DEF Places, Goes, Deletions, Failing, Guarded, f
<1>12. FramesGood' /\ OwnerAt' /\ Shape' /\ Distinct' /\ Alone' /\ Closed'
  BY <1>5, <1>9, <1>10, <1>11, WithinFrames
<1>13. OnePerPath' /\ CacheLive' /\ StaticsLive' /\ HeldLive' /\ Acyclic'
  BY <1>1, <1>7, Lasting
<1>14. LibrariesGood'
  <2> SUFFICES ASSUME NEW k \in Libs PROVE LibraryGood(k)'
    BY DEF LibrariesGood
  <2>1. LibraryGood(k)
    BY DEF OInv, LibrariesGood
  <2>2. Busy(k) => Busy(k)'
    <3>1. \A h \in Frames : h # TopAt(t) /\ Works(FrameOf(h)) => Works(FrameOf(h))'
      BY <1>1, <1>6 DEF Works, Doomed
    <3>2. Top(t).lib = k => g.lib = k /\ Works(g)' /\ g.at # "uncache"
      BY <1>0, <1>3 DEF Works, Loading, f
    <3> QED BY <1>5, <3>1, <3>2, BusyKept
  <2>3. Leaving(k) => Leaving(k)'
    BY <1>1, <1>5, LeavingKept DEF f
  <2>4. (Live(k)' <=> Live(k)) /\ (Cached(k)' <=> Cached(k))
    BY <1>1, <1>7 DEF Live, Cached
  <2> QED BY <1>1, <1>7, <2>1, <2>2, <2>3, <2>4 DEF LibraryGood
<1>15. RefExact'
  <2> SUFFICES ASSUME NEW k \in Libs, Live(k) PROVE Exact(k)'
    BY <1>1, <1>7 DEF RefExact, Exact, Live
  <2>1. library'[k].inManager = library[k].inManager /\ library'[k].path = library[k].path
    BY <1>7
  <2>2. \A h \in Frames : h # TopAt(t) => (Owns(FrameOf(h), k)' <=> Owns(FrameOf(h), k))
    BY <1>6, <2>1 DEF Owns
  <2>3. ~Owns(g, k)' /\ ~Owns(Top(t), k) /\ (Cached(k)' <=> Cached(k))
    BY <1>1, <1>3, <2>1 DEF Owns, Cached, f
  <2>4. ref'[k] = ref[k] + One(Cached(k)') - One(Cached(k)) + One(Owns(g, k)') - One(Owns(Top(t), k))
    <3>1. ref[k] \in Nat /\ ref'[k] = ref[k]
      BY <1>1 DEF OInv, IInv, TypeOK
    <3> QED BY <2>3, <3>1 DEF One
  <2> QED BY <1>5, <2>2, <2>4, RefStep
<1> QED BY <1>12, <1>13, <1>14, <1>15 DEF OInv

LEMMA StepPublish ==
  ASSUME OInv, IInv', NEW t \in Threads, PublishLibrary(t)
  PROVE  OInv'
<1> DEFINE f == Top(t)
<1>0. PICK g, l : g = [f EXCEPT !.at = "set_ready"] /\ l = f.lib
  OBVIOUS
<1>1. /\ ~Idle(t) /\ f.at = "publish" /\ owner' = owner /\ Become(t, g)
      /\ library' = [library EXCEPT ![l].inManager = TRUE]
      /\ ref' = [ref EXCEPT ![l] = @ + 1]
      /\ UNCHANGED <<initialized, cache, statics, held>>
  BY <1>0 DEF PublishLibrary, At, Goto
<1>2. /\ f \in Frame /\ Good(f) /\ f.path \in Paths
      /\ l \in Libs /\ Live(l) /\ library[l].path = f.path
      /\ library \in [Libs -> Library] /\ ref \in [Libs -> Nat]
  BY <1>0, <1>1, TopGood DEF NoLibraryYet, OInv, IInv, TypeOK
<1>3. g \in Frame /\ g.at = "set_ready" /\ g.path = f.path /\ g.lib = l
  BY <1>0, <1>2, MovedTo DEF Points
<1>4. /\ TopAt(t) \in Frames /\ FrameOf(TopAt(t)) = f
      /\ Works(f) /\ ~Doomed(f) /\ ~library[l].ready /\ ~library[l].inManager /\ library[l].dso
  BY <1>0, <1>1, <1>2, TopIsFrame
     DEF OInv, Works, Doomed, Loading, Deletions, Good, FlagsAt
<1>5. Within(t, g)
  BY <1>1, <1>3 DEF Within, Critical
<1>6. /\ \A h \in Frames : FrameOf(h)' = IF h = TopAt(t) THEN g ELSE FrameOf(h)
      /\ Frames' = Frames
  BY <1>5, WithinIs
<1>7. /\ \A k \in Libs : k # l => library'[k] = library[k] /\ ref'[k] = ref[k]
      /\ library'[l].state = library[l].state /\ library'[l].path = library[l].path
      /\ library'[l].ready = library[l].ready /\ library'[l].dso = library[l].dso
      /\ library'[l].inManager /\ ref'[l] = ref[l] + 1
  BY <1>1, <1>2 DEF Library
<1>8. \A h \in Frames : h # TopAt(t) /\ FrameOf(h).lib = l =>
        ~Works(FrameOf(h)) /\ FrameOf(h).at \notin {"dispose", "check", "uncache", "test"}
  BY <1>0, <1>1, <1>4, WorksAlone
<1> HIDE DEF f
<1>9. Spares(t)
  <2> SUFFICES ASSUME NEW h \in Frames, h # TopAt(t)
               PROVE  Good(FrameOf(h))' /\ (Works(FrameOf(h))' => Works(FrameOf(h)))
    BY DEF Spares
  <2>1. FrameOf(h)' = FrameOf(h) /\ FrameOf(h).lib \in Libs \cup {NoLib}
    BY <1>6, FrameTyped DEF OInv
  <2>2. Good(FrameOf(h)) /\ (FrameOf(h).at \notin NoLibraryYet => FrameOf(h).lib \in Libs)
    BY FrameTyped DEF OInv, FramesGood, FrameOK
  <2>3. Works(FrameOf(h))' <=> Works(FrameOf(h))
    BY <1>1, <2>1 DEF Works, Doomed
  <2>4. CASE FrameOf(h).lib # l /\ FrameOf(h).lib # NoLib
    <3>1. /\ library'[FrameOf(h).lib] = library[FrameOf(h).lib]
          /\ ref'[FrameOf(h).lib] = ref[FrameOf(h).lib]
      BY <1>7, <2>1, <2>4
    <3> QED BY <1>1, <2>1, <2>2, <3>1, GoodElsewhere
  <2>5. CASE FrameOf(h).lib = l
    <3>1. ~Works(FrameOf(h)) /\ FrameOf(h).at \notin {"dispose", "check", "uncache", "test"}
      BY <1>8, <2>5
    <3>2. FlagsAt(FrameOf(h))'
      BY <2>1, <3>1 DEF FlagsAt, Works, Loading
    <3> QED BY <1>1, <1>7, <2>1, <2>2, <2>3, <2>5, <3>1, <3>2
            DEF Good, LiveAt, CachedAt, RefAt, StaticsAt, Doomed, Live, Unset, Works
  <2>6. CASE FrameOf(h).lib = NoLib
    <3>1. FrameOf(h).at \in NoLibraryYet
      BY <2>2, <2>6, LibsAssumption
    <3> QED BY <1>1, <2>1, <2>2, <2>3, <2>6, <3>1
            DEF Good, LiveAt, CachedAt, FlagsAt, RefAt, StaticsAt, Doomed, Deletions, Loading, NoLibraryYet
  <2> QED BY <2>4, <2>5, <2>6
<1>10. Good(g)'
  BY <1>0, <1>1, <1>2, <1>3, <1>4, <1>7
     DEF Good, LiveAt, CachedAt, FlagsAt, RefAt, StaticsAt, Doomed, Deletions, Loading, Live, f
<1>11. Places(t, g) /\ Goes(t, g)
  BY <1>1, <1>3, <1>4 DEF Places, Goes, Deletions, Failing, Guarded, f
<1>12. FramesGood' /\ OwnerAt' /\ Shape' /\ Distinct' /\ Alone' /\ Closed'
  BY <1>5, <1>9, <1>10, <1>11, WithinFrames
<1>13. OnePerPath' /\ CacheLive' /\ StaticsLive' /\ HeldLive' /\ Acyclic'
  BY <1>1, <1>7, Lasting
<1>14. LibrariesGood'
  <2> SUFFICES ASSUME NEW k \in Libs PROVE LibraryGood(k)'
    BY DEF LibrariesGood
  <2>1. LibraryGood(k)
    BY DEF OInv, LibrariesGood
  <2>2. Busy(k) => Busy(k)'
    <3>1. \A h \in Frames : h # TopAt(t) /\ Works(FrameOf(h)) => Works(FrameOf(h))'
      BY <1>1, <1>6 DEF Works, Doomed
    <3>2. Top(t).lib = k => g.lib = k /\ Works(g)' /\ g.at # "uncache"
      BY <1>0, <1>3 DEF Works, Loading, f
    <3> QED BY <1>5, <3>1, <3>2, BusyKept
  <2>3. Leaving(k) => Leaving(k)'
    BY <1>1, <1>5, LeavingKept DEF f
  <2>4. (Live(k)' <=> Live(k)) /\ (Cached(k)' <=> Cached(k))
    BY <1>1, <1>7 DEF Live, Cached
  <2>5. ref[k] >= 2 => ref'[k] >= 2
    BY <1>2, <1>7
  <2> QED BY <1>4, <1>7, <2>1, <2>2, <2>3, <2>4, <2>5 DEF LibraryGood
<1>15. RefExact'
  <2> SUFFICES ASSUME NEW k \in Libs, Live(k) PROVE Exact(k)'
    BY <1>1, <1>7 DEF RefExact, Exact, Live
  <2>1. library'[k].path = library[k].path
    BY <1>7
  <2>2. \A h \in Frames : h # TopAt(t) => (Owns(FrameOf(h), k)' <=> Owns(FrameOf(h), k))
    <3> SUFFICES ASSUME NEW h \in Frames, h # TopAt(t)
                 PROVE  Owns(FrameOf(h), k)' <=> Owns(FrameOf(h), k)
      OBVIOUS
    <3>1. CASE k = l
      BY <1>6, <1>8, <3>1 DEF Owns
    <3>2. CASE k # l
      BY <1>6, <1>7, <3>2 DEF Owns
    <3> QED BY <3>1, <3>2
  <2>3. (Owns(g, k)' <=> k = l) /\ ~Owns(Top(t), k) /\ (Cached(k)' <=> Cached(k))
    BY <1>1, <1>3, <2>1 DEF Owns, Cached, f
  <2>4. ref'[k] = ref[k] + One(Cached(k)') - One(Cached(k)) + One(Owns(g, k)') - One(Owns(Top(t), k))
    BY <1>2, <1>7, <2>3 DEF One
  <2> QED BY <1>5, <2>2, <2>4, RefStep
<1> QED BY <1>12, <1>13, <1>14, <1>15 DEF OInv

\* A library that is not ready is in nobody's hands.
LEMMA Unready ==
  ASSUME OInv, NEW l \in Libs, ~(Live(l) /\ library[l].ready)
  PROVE  /\ HeldHandles(l) = 0 /\ StaticHandles(l) = {} /\ Cardinality(StaticHandles(l)) = 0
         /\ \A p \in Paths : \A i \in Elements(p) : statics[p][i] # l
<1>1. \A t \in Threads : held[t][l] \in Nat /\ ~(held[t][l] > 0)
  BY DEF OInv, HeldLive, IInv, TypeOK
<1>2. HeldHandles(l) = 0
  <2>1. \A t \in Threads : held[t][l] = 0
    BY <1>1
  <2> QED BY <2>1, HeldIsUnits DEF OInv, HeldCounted
<1>3. \A p \in Paths : \A i \in Elements(p) : statics[p][i] # l
  BY LibsAssumption DEF OInv, StaticsLive, Unset
<1>4. \A p \in Paths : DOMAIN statics[p] = Elements(p)
  BY RequiresAssumption DEF OInv, IInv, TypeOK, Elements
<1>5. StaticHandles(l) = {}
  <2> SUFFICES ASSUME NEW y \in StaticHandles(l) PROVE FALSE
    OBVIOUS
  <2>1. PICK p \in Paths : \E i \in DOMAIN statics[p] : y = <<p, i>>
    BY DEF StaticHandles
  <2>2. PICK i \in DOMAIN statics[p] : y = <<p, i>>
    BY <2>1
  <2>3. statics[p][i] = l
    BY <2>2 DEF StaticHandles
  <2> QED BY <1>3, <1>4, <2>2, <2>3
<1>6. Cardinality(StaticHandles(l)) = 0
  BY <1>5, FS_EmptySet
<1> QED BY <1>2, <1>3, <1>5, <1>6

\* The cache lets go of a library nobody else uses.
LEMMA LetGo ==
  ASSUME OInv, IInv', NEW t, NEW g, NEW l \in Libs, Within(t, g), Goes(t, g), Good(g)',
         \A h \in Frames : h[1] = t,
         Works(Top(t)), Top(t).lib = l, Cached(l), ref[l] = 1, ~Owns(Top(t), l),
         g.lib = l, g.at \in {"dispose", "zero"}, g.at = "dispose" => ~library[l].inManager,
         CacheRemove(l), library' = library
  PROVE  OInv'
<1> DEFINE p == Top(t).path
<1>1. /\ t \in Threads /\ ~Idle(t) /\ g.path = p
      /\ UNCHANGED <<initialized, statics, held>>
  BY DEF Within
<1>2. Live(l) /\ library[l].path = p /\ p \in Paths /\ l # NoLib
  BY <1>1, TopGood, LibsAssumption DEF Works, Doomed, Loading, Deletions, NoLibraryYet
<1>3. cache \in [Paths -> Libs \cup {NoLib}] /\ ref \in [Libs -> Nat] /\ cache[p] = l
  BY <1>2 DEF OInv, IInv, TypeOK, Cached
<1>4. /\ cache'[p] = NoLib /\ \A q \in Paths : q # p => cache'[q] = cache[q]
      /\ ref'[l] = 0 /\ \A k \in Libs : k # l => ref'[k] = ref[k]
  BY <1>2, <1>3 DEF CacheRemove
<1>5. /\ Frames' = Frames
      /\ \A h \in Frames : FrameOf(h)' = IF h = TopAt(t) THEN g ELSE FrameOf(h)
      /\ TopAt(t) \in Frames /\ FrameOf(TopAt(t)) = Top(t)
  BY WithinIs
<1>6. \A h \in Frames : h # TopAt(t) =>
        /\ FrameOf(h).at \in Loops /\ Works(FrameOf(h)) /\ FrameOf(h).path # p
        /\ FrameOf(h).lib \in Libs /\ FrameOf(h).lib # l
        /\ FrameOf(h).path \in Paths
  BY <1>1, AloneFrames, FrameTyped DEF OInv
<1> HIDE DEF p
<1>7. \A h \in Frames : h # TopAt(t) => Good(FrameOf(h))' /\ Works(FrameOf(h))'
  <2> SUFFICES ASSUME NEW h \in Frames, h # TopAt(t)
               PROVE  Good(FrameOf(h))' /\ Works(FrameOf(h))'
    OBVIOUS
  <2>1. Good(FrameOf(h)) /\ Works(FrameOf(h))
    BY <1>6 DEF OInv, FramesGood
  <2> QED BY <1>1, <1>4, <1>5, <1>6, <2>1, GoodElsewhere
<1>8. Works(g)' /\ g.at # "uncache"
  BY <1>1, <1>2, <1>4 DEF Works, Doomed, Deletions, p
<1>9. FramesGood' /\ OwnerAt' /\ Shape' /\ Distinct' /\ Alone' /\ Closed'
  <2>1. Spares(t)
    BY <1>6, <1>7 DEF Spares
  <2>2. Places(t, g)
    BY DEF Places
  <2> QED BY <2>1, <2>2, WithinFrames
<1>10. OnePerPath' /\ CacheLive' /\ StaticsLive' /\ HeldLive' /\ Acyclic'
  <2>1. \A q \in Paths : cache'[q] = cache[q] \/ cache'[q] = NoLib
    BY <1>4
  <2> QED BY <1>1, <2>1, Lasting
<1>11. \A k \in Libs : Live(k) /\ k # l => library[k].path # p /\ (Cached(k)' <=> Cached(k))
  <2> SUFFICES ASSUME NEW k \in Libs, Live(k), k # l
               PROVE  library[k].path # p /\ (Cached(k)' <=> Cached(k))
    OBVIOUS
  <2>1. library[k].path # p
    BY <1>2 DEF OInv, OnePerPath
  <2>2. library[k].path \in Paths
    BY DEF OInv, IInv, TypeOK, Library
  <2> QED BY <1>4, <2>1, <2>2 DEF Cached
<1>12. ~Cached(l)'
  BY <1>2, <1>4 DEF Cached
<1>13. LibrariesGood'
  <2> SUFFICES ASSUME NEW k \in Libs, Live(k) PROVE LibraryGood(k)'
    BY DEF LibrariesGood, LibraryGood, Live
  <2>1. LibraryGood(k)
    BY DEF OInv, LibrariesGood
  <2>2. Busy(k) => Busy(k)'
    BY <1>7, <1>8, BusyKept
  <2>3. CASE k = l
    <3>1. Busy(l)'
      <4>1. \A h \in Frames : h = TopAt(t) => FrameOf(h)' = g
        BY <1>5
      <4>2. PICK h \in Frames : h = TopAt(t)
        BY <1>5
      <4>3. FrameOf(h)' = g
        BY <4>1, <4>2
      <4>4. Works(FrameOf(h))'
        BY <1>8, <4>3 DEF Works, Doomed
      <4> QED BY <1>5, <1>8, <4>3, <4>4 DEF Busy
    <3> QED BY <1>12, <2>1, <2>3, <3>1 DEF LibraryGood, Live
  <2>4. CASE k # l
    <3>1. Leaving(k) => Leaving(k)'
      BY <2>4, LeavingKept
    <3> QED BY <1>4, <1>11, <2>1, <2>2, <2>4, <3>1 DEF LibraryGood, Live
  <2> QED BY <2>3, <2>4
<1>14. RefExact'
  <2> SUFFICES ASSUME NEW k \in Libs, Live(k) PROVE Exact(k)'
    BY DEF RefExact, Exact, Live
  <2>1. \A h \in Frames : h # TopAt(t) => (Owns(FrameOf(h), k)' <=> Owns(FrameOf(h), k))
    BY <1>5 DEF Owns
  <2>2. ~Owns(g, k)' /\ ~Owns(Top(t), k)
    BY DEF Owns
  <2>3. ref'[k] = ref[k] + One(Cached(k)') - One(Cached(k)) + One(Owns(g, k)') - One(Owns(Top(t), k))
    BY <1>3, <1>4, <1>11, <1>12, <2>2 DEF One
  <2> QED BY <2>1, <2>3, RefStep
<1> QED BY <1>9, <1>10, <1>13, <1>14 DEF OInv

LEMMA StepDiscard ==
  ASSUME OInv, IInv', Orderly, NEW t \in Threads, DiscardLibrary(t)
  PROVE  OInv'
<1> DEFINE f == Top(t)
<1>0. PICK g, l : g = [f EXCEPT !.at = "dispose"] /\ l = f.lib
  OBVIOUS
<1>1. /\ ~Idle(t) /\ f.at = "discard" /\ owner' = owner /\ Become(t, g)
      /\ CacheRemove(l)
      /\ UNCHANGED <<initialized, library, statics, held>>
  BY <1>0 DEF DiscardLibrary, At, Goto
<1>2. /\ f \in Frame /\ Good(f) /\ f.path \in Paths
      /\ l \in Libs /\ Live(l) /\ library[l].path = f.path
  BY <1>0, <1>1, TopGood DEF NoLibraryYet
<1>3. g \in Frame /\ g.at = "dispose" /\ g.path = f.path /\ g.lib = l
  BY <1>0, <1>2, MovedTo DEF Points
<1>4. /\ TopAt(t) \in Frames /\ FrameOf(TopAt(t)) = f /\ TopAt(t)[1] = t
      /\ Works(f) /\ ~library[l].ready /\ ~library[l].inManager /\ ~library[l].dso /\ Cached(l)
  BY <1>0, <1>1, <1>2, TopIsFrame
     DEF OInv, Works, Loading, Good, FlagsAt, CachedAt, Cached, TopAt
<1>5. Within(t, g)
  BY <1>1, <1>3 DEF Within, Critical
<1>6. \A h \in Frames : h[1] = t
  BY <1>1, <1>4, Undisturbed DEF Failing
<1>7. \A h \in Frames : h # TopAt(t) => FrameOf(h).at \in Loops
  BY <1>1, <1>4, <1>6, AloneFrames
<1>8. CallHandles(l) = {}
  <2>1. \A h \in Frames : FrameOf(h).at \in Loops \cup {"discard"}
    BY <1>1, <1>4, <1>7
  <2> QED BY <2>1 DEF CallHandles, Loops
<1>9. ref[l] = 1
  <2>1. HeldHandles(l) = 0 /\ Cardinality(StaticHandles(l)) = 0
    BY <1>2, <1>4, Unready
  <2>2. Exact(l)
    BY <1>2 DEF OInv, RefExact, Exact
  <2>3. Cardinality(CallHandles(l)) = 0
    BY <1>8, FS_EmptySet
  <2> QED BY <1>2, <1>4, <2>1, <2>2, <2>3 DEF Exact, Cached
<1> HIDE DEF f
<1>10. cache'[f.path] = NoLib /\ ref'[l] = 0 /\ NoLib # l
  BY <1>1, <1>2, <1>4, <1>9, LibsAssumption DEF CacheRemove, Cached, OInv, IInv, TypeOK
<1>11. Good(g)'
  BY <1>1, <1>2, <1>3, <1>4, <1>10
     DEF Good, LiveAt, CachedAt, FlagsAt, RefAt, StaticsAt, Doomed, Deletions, Loading, Live, Unset, f
<1>12. Goes(t, g)
  <2>1. Discipline = "serial"
    BY <1>1, <1>4 DEF OInv, Alone, Failing
  <2> QED BY <1>1, <1>3, <2>1 DEF Goes, Deletions, Failing, f
<1>13. ~Owns(f, l)
  BY <1>1 DEF Owns
<1> QED BY <1>1, <1>2, <1>3, <1>4, <1>5, <1>6, <1>9, <1>11, <1>12, <1>13, <1>0, LetGo DEF f

LEMMA StepUncache ==
  ASSUME OInv, IInv', Orderly, NEW t \in Threads, UncacheLibrary(t)
  PROVE  OInv'
<1> DEFINE f == Top(t)
<1>0. PICK g, l : g = [f EXCEPT !.at = "zero"] /\ l = f.lib
  OBVIOUS
<1>1. /\ ~Idle(t) /\ f.at = "uncache" /\ owner' = owner /\ Become(t, g)
      /\ CacheRemove(l)
      /\ UNCHANGED <<initialized, library, statics, held>>
  BY <1>0 DEF UncacheLibrary, At, Goto
<1>2. /\ f \in Frame /\ Good(f) /\ f.path \in Paths
      /\ l \in Libs /\ Live(l) /\ library[l].path = f.path
  BY <1>0, <1>1, TopGood DEF NoLibraryYet
<1>3. g \in Frame /\ g.at = "zero" /\ g.path = f.path /\ g.lib = l
  BY <1>0, <1>2, MovedTo DEF Points
<1>4. /\ TopAt(t) \in Frames /\ FrameOf(TopAt(t)) = f /\ TopAt(t)[1] = t
      /\ Works(f) /\ Cached(l) /\ ref[l] = 1 /\ ~Doomed(f)
  BY <1>0, <1>1, <1>2, TopIsFrame
     DEF OInv, Works, Good, CachedAt, RefAt, Cached, TopAt, Doomed
<1>5. library[l].dso
  <2>1. library[l].ready
    BY <1>0, <1>1, <1>2, <1>4 DEF Good, FlagsAt
  <2> QED BY <1>2, <2>1 DEF OInv, LibrariesGood, LibraryGood
<1>6. Within(t, g)
  BY <1>1, <1>3 DEF Within, Critical
<1>7. \A h \in Frames : h[1] = t
  BY <1>1, <1>4, Undisturbed
<1> HIDE DEF f
<1>8. cache'[f.path] = NoLib /\ ref'[l] = 0 /\ NoLib # l
  BY <1>1, <1>2, <1>4, LibsAssumption DEF CacheRemove, Cached, OInv, IInv, TypeOK
<1>9. Good(g)'
  BY <1>0, <1>1, <1>2, <1>3, <1>4, <1>5, <1>8
     DEF Good, LiveAt, CachedAt, FlagsAt, RefAt, StaticsAt, Doomed, Deletions, Loading, Live, f
<1>10. Goes(t, g)
  <2>1. ~Guarded(TopAt(t))
    BY <1>1, <1>4 DEF Guarded
  <2> QED BY <1>0, <1>1, <1>3, <2>1 DEF Goes, Deletions, Failing, f
<1>11. ~Owns(f, l)
  BY <1>1 DEF Owns
<1> QED BY <1>0, <1>1, <1>2, <1>3, <1>4, <1>6, <1>7, <1>9, <1>10, <1>11, LetGo DEF f

LEMMA StepZero ==
  ASSUME OInv, IInv', NEW t \in Threads, ZeroRef(t)
  PROVE  OInv'
<1> DEFINE f == Top(t)
           l == f.lib
<1>0. PICK g : g = [f EXCEPT !.at = "test"]
  OBVIOUS
<1>1. /\ ~Idle(t) /\ f.at = "zero" /\ owner' = owner /\ Become(t, g)
      /\ ref' = [ref EXCEPT ![l] = 0]
      /\ UNCHANGED <<initialized, cache, library, statics, held>>
  BY <1>0 DEF ZeroRef, At, Goto
<1>2. /\ f \in Frame /\ Good(f) /\ f.path \in Paths
      /\ l \in Libs /\ Live(l) /\ library[l].path = f.path /\ ref \in [Libs -> Nat]
  BY <1>1, TopGood DEF NoLibraryYet, OInv, IInv, TypeOK
<1>3. g \in Frame /\ g.at = "test" /\ g.path = f.path /\ g.lib = l
  BY <1>0, <1>2, MovedTo DEF Points
<1>4. FrameOf(TopAt(t)) = f
  BY <1>1, TopIsFrame DEF OInv
<1>5. Doomed(f) /\ Doomed(g) /\ ref[l] = 0
  BY <1>1, <1>2, <1>3 DEF Good, CachedAt, RefAt, Doomed, Deletions
<1>6. ref' = ref
  BY <1>1, <1>2, <1>5
<1> HIDE DEF f, l
<1>7. Good(g)
  BY <1>1, <1>2, <1>3, <1>5
     DEF Good, LiveAt, CachedAt, FlagsAt, RefAt, StaticsAt, Loading, l
<1>8. Within(t, g)
  BY <1>1, <1>3 DEF Within, f, Critical
<1>9. Places(t, g) /\ Goes(t, g)
  BY <1>1, <1>3, <1>4, <1>5 DEF Places, Goes, Works, Deletions, Failing, Guarded, f, l
<1>10. Quiet(t, g)
  BY <1>1, <1>3, <1>5, <1>6, <1>7, <1>8, <1>9 DEF Quiet, Owns, Works, f, l
<1> QED BY <1>10, QuietStep

\* The deletion of a library the cache has let go finds no count ...
LEMMA StepDecRefDoomed ==
  ASSUME OInv, IInv', NEW t \in Threads, DecRef(t), Doomed(Top(t))
  PROVE  OInv'
<1> DEFINE f == Top(t)
           l == f.lib
<1>0. PICK g : g = [f EXCEPT !.at = "check"]
  OBVIOUS
<1>1. /\ ~Idle(t) /\ f.at = "dispose" /\ owner' = owner /\ Become(t, g)
      /\ ref' = [ref EXCEPT ![l] = IF @ > 0 THEN @ - 1 ELSE 0]
      /\ UNCHANGED <<initialized, cache, library, statics, held>>
  BY <1>0 DEF DecRef, At, Goto
<1>2. /\ f \in Frame /\ Good(f) /\ f.path \in Paths
      /\ l \in Libs /\ Live(l) /\ library[l].path = f.path /\ ref \in [Libs -> Nat]
  BY <1>1, TopGood DEF NoLibraryYet, OInv, IInv, TypeOK
<1>3. g \in Frame /\ g.at = "check" /\ g.path = f.path /\ g.lib = l
  BY <1>0, <1>2, MovedTo DEF Points
<1>4. TopAt(t) \in Frames /\ FrameOf(TopAt(t)) = f
  BY <1>1, TopIsFrame DEF OInv
<1>5. Doomed(g) /\ ref[l] = 0 /\ ~library[l].inManager /\ ~library[l].dso
  BY <1>1, <1>2, <1>3 DEF Good, FlagsAt, RefAt, Doomed, Deletions
<1>6. ref' = ref
  BY <1>1, <1>2, <1>5
<1>7. ~Guarded(TopAt(t))
  BY <1>4, GuardedCounts
<1> HIDE DEF f, l
<1>8. Good(g)
  BY <1>1, <1>2, <1>3, <1>5
     DEF Good, LiveAt, CachedAt, FlagsAt, RefAt, StaticsAt, Loading, Doomed, l, f
<1>9. Within(t, g)
  BY <1>1, <1>3 DEF Within, f, Critical
<1>10. Places(t, g) /\ Goes(t, g)
  BY <1>1, <1>3, <1>5, <1>7 DEF Places, Goes, Works, Deletions, Failing, f, l
<1>11. \A k \in Libs : ~Owns(g, k) /\ ~Owns(f, k)
  BY <1>1, <1>3, <1>5 DEF Owns, l
<1>12. Quiet(t, g)
  BY <1>1, <1>3, <1>5, <1>6, <1>8, <1>9, <1>10, <1>11 DEF Quiet, Works, f, l
<1> QED BY <1>12, QuietStep

\* ... and that of a cached one gives its reference back.
LEMMA StepDecRefCached ==
  ASSUME OInv, IInv', Orderly, NEW t \in Threads, DecRef(t), ~Doomed(Top(t))
  PROVE  OInv'
<1> DEFINE f == Top(t)
<1>0. PICK g, l : g = [f EXCEPT !.at = "check"] /\ l = f.lib
  OBVIOUS
<1>1. /\ ~Idle(t) /\ f.at = "dispose" /\ owner' = owner /\ Become(t, g)
      /\ ref' = [ref EXCEPT ![l] = IF @ > 0 THEN @ - 1 ELSE 0]
      /\ UNCHANGED <<initialized, cache, library, statics, held>>
  BY <1>0 DEF DecRef, At, Goto
<1>2. /\ f \in Frame /\ Good(f) /\ f.path \in Paths
      /\ l \in Libs /\ Live(l) /\ library[l].path = f.path /\ ref \in [Libs -> Nat]
  BY <1>0, <1>1, TopGood DEF NoLibraryYet, OInv, IInv, TypeOK
<1>3. g \in Frame /\ g.at = "check" /\ g.path = f.path /\ g.lib = l
  BY <1>0, <1>2, MovedTo DEF Points
<1>4. TopAt(t) \in Frames /\ FrameOf(TopAt(t)) = f /\ TopAt(t)[1] = t
  BY <1>1, TopIsFrame DEF OInv, TopAt
<1>5. Cached(l) /\ cache[f.path] = l
  BY <1>0, <1>1, <1>2 DEF Cached, Doomed, Deletions
<1>6. library[l].ready /\ library[l].inManager /\ ref[l] >= 1
  <2>1. library[l].ready
    BY <1>0, <1>1, <1>2 DEF Good, FlagsAt
  <2> QED BY <1>2, <1>5, <2>1, CachedCounts
<1>7. ref'[l] = ref[l] - 1 /\ \A k \in Libs : k # l => ref'[k] = ref[k]
  BY <1>1, <1>2, <1>6
<1>8. Within(t, g)
  BY <1>1, <1>3 DEF Within, Critical
<1>9. \A h \in Frames : FrameOf(h).at # "uncache"
  BY <1>1, NoneUncaches
<1>10. /\ \A h \in Frames : FrameOf(h)' = IF h = TopAt(t) THEN g ELSE FrameOf(h)
       /\ Frames' = Frames
  BY <1>8, WithinIs
<1> HIDE DEF f
<1>11. Spares(t)
  <2> SUFFICES ASSUME NEW h \in Frames, h # TopAt(t)
               PROVE  Good(FrameOf(h))' /\ (Works(FrameOf(h))' => Works(FrameOf(h)))
    BY DEF Spares
  <2>1. FrameOf(h)' = FrameOf(h)
    BY <1>10
  <2>2. Good(FrameOf(h)) /\ (FrameOf(h).at \in Deletions => FrameOf(h).lib \in Libs)
    BY FrameTyped DEF OInv, FramesGood, FrameOK, NoLibraryYet, Deletions
  <2>3. Doomed(FrameOf(h)) => FrameOf(h).lib # l
    BY <1>2, <1>5, <2>2, LibsAssumption DEF Doomed, Good, LiveAt
  <2>4. RefAt(FrameOf(h))'
    BY <1>1, <1>7, <1>9, <2>1, <2>2, <2>3 DEF Good, RefAt, Doomed
  <2> QED BY <1>1, <2>1, <2>2, <2>4
          DEF Good, LiveAt, CachedAt, FlagsAt, StaticsAt, Doomed, Works, Live, Unset
<1>12. Good(g)'
  BY <1>1, <1>2, <1>3, <1>5, <1>6
     DEF Good, LiveAt, CachedAt, FlagsAt, RefAt, StaticsAt, Doomed, Deletions, Loading, Live, f
<1>13. Places(t, g) /\ Goes(t, g)
  <2>1. ~Works(g)'
    BY <1>1, <1>3, <1>5 DEF Works, Doomed, Loading
  <2> QED BY <1>0, <1>1, <1>3, <2>1 DEF Places, Goes, Deletions, Failing, f
<1>14. FramesGood' /\ OwnerAt' /\ Shape' /\ Distinct' /\ Alone' /\ Closed'
  BY <1>8, <1>11, <1>12, <1>13, WithinFrames
<1>15. OnePerPath' /\ CacheLive' /\ StaticsLive' /\ HeldLive' /\ Acyclic'
  BY <1>1, Lasting
<1>16. LibrariesGood'
  <2> SUFFICES ASSUME NEW k \in Libs PROVE LibraryGood(k)'
    BY DEF LibrariesGood
  <2>1. LibraryGood(k)
    BY DEF OInv, LibrariesGood
  <2>2. Busy(k) => Busy(k)'
    <3>1. ~Works(Top(t))
      BY <1>1 DEF Works, Loading, f
    <3>2. \A h \in Frames : h # TopAt(t) /\ Works(FrameOf(h)) => Works(FrameOf(h))'
      BY <1>1, <1>10 DEF Works, Doomed
    <3> QED BY <1>8, <3>1, <3>2, BusyKept
  <2>3. Leaving(k) => Leaving(k)'
    BY <1>1, <1>8, LeavingKept DEF f
  <2>4. k = l => Leaving(k)'
    <3>1. \A h \in Frames : h = TopAt(t) => FrameOf(h)' = g
      BY <1>10
    <3>2. PICK h \in Frames : h = TopAt(t)
      BY <1>4
    <3>3. FrameOf(h)' = g
      BY <3>1, <3>2
    <3> QED BY <1>3, <1>10, <3>3 DEF Leaving
  <2> QED BY <1>1, <1>7, <2>1, <2>2, <2>3, <2>4 DEF LibraryGood, Live, Cached
<1>17. RefExact'
  <2> SUFFICES ASSUME NEW k \in Libs, Live(k) PROVE Exact(k)'
    BY <1>1 DEF RefExact, Exact, Live
  <2>1. \A h \in Frames : h # TopAt(t) => (Owns(FrameOf(h), k)' <=> Owns(FrameOf(h), k))
    BY <1>1, <1>10 DEF Owns
  <2>2. ~Owns(g, k)' /\ (Owns(Top(t), k) <=> k = l) /\ (Cached(k)' <=> Cached(k))
    BY <1>0, <1>1, <1>3, <1>6 DEF Owns, Cached, f
  <2>3. ref'[k] = ref[k] + One(Cached(k)') - One(Cached(k)) + One(Owns(g, k)') - One(Owns(Top(t), k))
    BY <1>2, <1>7, <2>2 DEF One
  <2> QED BY <1>8, <2>1, <2>3, RefStep
<1> QED BY <1>14, <1>15, <1>16, <1>17 DEF OInv

\* A path that is about to be loaded has no library.
LEMMA NoneOnPath ==
  ASSUME OInv, Orderly, NEW t \in Threads, ~Idle(t), Top(t).at = "create"
  PROVE  /\ \A k \in Libs : Live(k) => library[k].path # Top(t).path
         /\ cache[Top(t).path] = NoLib
<1>1. TopAt(t) \in Frames /\ FrameOf(TopAt(t)) = Top(t) /\ TopAt(t)[1] = t
      /\ \A f \in Frames : f[1] = t /\ f # TopAt(t) => f[2] < Len(stack[t])
      /\ TopAt(t)[2] = Len(stack[t])
  BY TopIsFrame DEF OInv, TopAt
<1>2. cache[Top(t).path] = NoLib
  BY TopGood DEF Good, CachedAt
<1>3. ASSUME NEW k \in Libs, Live(k), library[k].path = Top(t).path PROVE FALSE
  <2>1. ~Cached(k)
    BY <1>2, <1>3, LibsAssumption DEF Cached
  <2>2. Busy(k)
    BY <1>3, <2>1 DEF OInv, LibrariesGood, LibraryGood
  <2>3. PICK h \in Frames : FrameOf(h).lib = k /\ Works(FrameOf(h)) /\ FrameOf(h).at # "uncache"
    BY <2>2 DEF Busy
  <2>4. Good(FrameOf(h)) /\ FrameOf(h).path = Top(t).path
    BY <1>3, <2>3, LibsAssumption DEF OInv, FramesGood, Good, LiveAt
  <2>5. Doomed(FrameOf(h))
    BY <1>2, <2>3, <2>4, LibsAssumption DEF Works, Good, CachedAt
  <2>6. h[1] = t
    BY <1>1, <2>5, Undisturbed
  <2>7. h # TopAt(t)
    BY <1>1, <2>5 DEF Doomed, Deletions
  <2>8. FrameOf(h).at \in Loops /\ h[2] < Len(stack[t])
    BY <1>1, <2>6, <2>7, BelowTop DEF OInv
  <2>9. FrameOf(h).at = "at_exit"
    BY <2>5, <2>8 DEF Doomed, Deletions, Loops
  <2>10. h[2] \in Nat /\ Len(stack[t]) \in Nat
    BY <2>6, FramesAre DEF OInv
  <2>11. Top(t).at \in Deletions
    BY <1>1, <2>6, <2>8, <2>9, <2>10 DEF OInv, Shape
  <2> QED BY <2>11 DEF Deletions
<1> QED BY <1>2, <1>3

LEMMA StepCreate ==
  ASSUME OInv, IInv', Orderly, NEW t \in Threads, CreateLibrary(t)
  PROVE  OInv'
<1> DEFINE f == Top(t)
<1>a. PICK p : p = f.path
  OBVIOUS
<1>b. PICK l \in Libs :
        /\ Fresh(l)
        /\ library' = [library EXCEPT ![l] =
             [state |-> "live", path |-> p, ready |-> FALSE, inManager |-> FALSE, dso |-> FALSE]]
        /\ ref' = [ref EXCEPT ![l] = 1]
        /\ cache' = [cache EXCEPT ![p] = l]
        /\ Become(t, [f EXCEPT !.at = "load", !.lib = l])
  BY <1>a DEF CreateLibrary
<1>0. PICK g : g = [f EXCEPT !.at = "load", !.lib = l]
  OBVIOUS
<1>1. /\ ~Idle(t) /\ f.at = "create" /\ owner' = NoThread /\ Become(t, g)
      /\ UNCHANGED <<initialized, statics, held>>
  BY <1>b, <1>0 DEF CreateLibrary, At
<1>2. /\ f \in Frame /\ Good(f) /\ p \in Paths /\ l # NoLib /\ ~Live(l)
      /\ ref \in [Libs -> Nat] /\ library \in [Libs -> Library]
      /\ cache \in [Paths -> Libs \cup {NoLib}]
  BY <1>1, <1>a, <1>b, TopGood, LibsAssumption DEF OInv, IInv, TypeOK, Fresh
<1>3. g \in Frame /\ g.at = "load" /\ g.path = p /\ g.lib = l
  BY <1>0, <1>2, <1>a DEF Frame, Points
<1>4. TopAt(t) \in Frames /\ FrameOf(TopAt(t)) = f /\ TopAt(t)[1] = t
  BY <1>1, TopIsFrame DEF OInv, TopAt
<1>5. owner = t
  BY <1>1, <1>4 DEF OInv, OwnerAt, Critical
<1>6. (\A k \in Libs : Live(k) => library[k].path # p) /\ cache[p] = NoLib
  BY <1>1, <1>a, NoneOnPath
<1>7. Within(t, g)
  BY <1>1, <1>3, <1>5, <1>a, ThreadsAssumption DEF Within, Critical
<1>8. /\ \A h \in Frames : FrameOf(h)' = IF h = TopAt(t) THEN g ELSE FrameOf(h)
      /\ Frames' = Frames
  BY <1>7, WithinIs
<1>9. /\ \A k \in Libs : k # l => library'[k] = library[k] /\ ref'[k] = ref[k]
      /\ library'[l].state = "live" /\ library'[l].path = p /\ ~library'[l].ready
      /\ ~library'[l].inManager /\ ~library'[l].dso /\ ref'[l] = 1
      /\ cache'[p] = l /\ \A q \in Paths : q # p => cache'[q] = cache[q]
  BY <1>b, <1>2
<1> HIDE DEF f
<1>10. Spares(t)
  <2> SUFFICES ASSUME NEW h \in Frames, h # TopAt(t)
               PROVE  Good(FrameOf(h))' /\ (Works(FrameOf(h))' => Works(FrameOf(h)))
    BY DEF Spares
  <2>1. FrameOf(h)' = FrameOf(h) /\ FrameOf(h).lib \in Libs \cup {NoLib} /\ FrameOf(h).path \in Paths
    BY <1>8, FrameTyped DEF OInv
  <2>2. Good(FrameOf(h)) /\ (FrameOf(h).at \notin NoLibraryYet => FrameOf(h).lib \in Libs)
    BY FrameTyped DEF OInv, FramesGood, FrameOK
  <2>3. CASE FrameOf(h).lib # NoLib
    <3>1. Live(FrameOf(h).lib) /\ library[FrameOf(h).lib].path = FrameOf(h).path
      BY <2>2, <2>3 DEF Good, LiveAt
    <3>2. FrameOf(h).path # p /\ FrameOf(h).lib # l
      BY <1>2, <1>6, <2>1, <2>3, <3>1
    <3> QED BY <1>1, <1>9, <2>1, <2>2, <2>3, <3>2, GoodElsewhere
  <2>4. CASE FrameOf(h).lib = NoLib
    <3>1. FrameOf(h).at \in NoLibraryYet
      BY <2>2, <2>4, LibsAssumption
    <3>2. FrameOf(h).at # "create"
      <4> SUFFICES ASSUME FrameOf(h).at = "create" PROVE FALSE
        OBVIOUS
      <4>1. h[1] = t
        BY <1>5 DEF OInv, OwnerAt, Critical
      <4>2. FrameOf(h).at \in Loops
        BY <4>1, BelowTop DEF OInv
      <4> QED BY <4>2 DEF Loops
    <3> QED BY <2>1, <2>4, <3>1, <3>2
            DEF Good, LiveAt, CachedAt, FlagsAt, RefAt, StaticsAt, Doomed, Works, Deletions, Loading, NoLibraryYet
  <2> QED BY <2>3, <2>4
<1>11. Good(g)'
  <2>1. \A i \in Elements(p) : Unset(p, i)
    BY <1>2, <1>6 DEF OInv, StaticsLive
  <2>2. StaticsAt(g)'
    BY <1>1, <1>3, <2>1 DEF StaticsAt, Unset
  <2> QED BY <1>3, <1>9, <2>2
          DEF Good, LiveAt, CachedAt, FlagsAt, RefAt, Doomed, Deletions, Loading, Live
<1>12. Places(t, g) /\ Goes(t, g)
  <2>1. \A h \in Frames : Works(FrameOf(h)) => FrameOf(h).path # g.path
    <3> SUFFICES ASSUME NEW h \in Frames, Works(FrameOf(h)) PROVE FrameOf(h).path # p
      BY <1>3
    <3>1. FrameOf(h).lib \in Libs /\ Good(FrameOf(h))
      BY FrameTyped DEF OInv, FramesGood, FrameOK, NoLibraryYet, Works, Doomed, Loading, Deletions
    <3>2. Live(FrameOf(h).lib) /\ library[FrameOf(h).lib].path = FrameOf(h).path
      BY <3>1, LibsAssumption DEF Good, LiveAt
    <3> QED BY <1>6, <3>1, <3>2
  <2> QED BY <1>1, <1>3, <1>4, <2>1 DEF Places, Goes, Deletions, Failing, Guarded, f
<1>13. FramesGood' /\ OwnerAt' /\ Shape' /\ Distinct' /\ Alone' /\ Closed'
  BY <1>7, <1>10, <1>11, <1>12, WithinFrames
<1>14. \A k \in Libs : Live(k)' <=> Live(k) \/ k = l
  BY <1>9 DEF Live
<1>15. OnePerPath'
  BY <1>6, <1>9, <1>14 DEF OInv, OnePerPath
<1>16. CacheLive'
  <2> SUFFICES ASSUME NEW q \in Paths, cache'[q] # NoLib
               PROVE  library'[cache'[q]].state = "live" /\ library'[cache'[q]].path = q
    BY DEF CacheLive, Live
  <2>1. CASE q = p
    BY <1>9, <2>1 DEF Live
  <2>2. CASE q # p
    <3>1. cache'[q] = cache[q] /\ cache[q] \in Libs /\ Live(cache[q]) /\ library[cache[q]].path = q
      BY <1>2, <1>9, <2>2 DEF OInv, CacheLive
    <3>2. cache[q] # l
      BY <1>2, <3>1
    <3>3. library'[cache[q]] = library[cache[q]]
      BY <1>9, <3>1, <3>2
    <3> QED BY <3>1, <3>3 DEF Live
  <2> QED BY <2>1, <2>2
<1>17. StaticsLive'
  <2> SUFFICES ASSUME NEW q \in Paths, NEW i \in Elements(q), ~Unset(q, i)
               PROVE  /\ library'[statics[q][i]].state = "live" /\ library'[statics[q][i]].ready
                      /\ \E k \in Libs : Live(k)' /\ library'[k].path = q
    BY <1>1 DEF StaticsLive, Unset, Live
  <2>1. statics[q] \in [Elements(q) -> Libs \cup {NoLib}]
    BY RequiresAssumption DEF OInv, IInv, TypeOK, Elements
  <2>2. /\ statics[q][i] \in Libs /\ Live(statics[q][i]) /\ library[statics[q][i]].ready
        /\ \E k \in Libs : Live(k) /\ library[k].path = q
    BY <2>1 DEF OInv, StaticsLive, Unset
  <2>3. library'[statics[q][i]] = library[statics[q][i]]
    BY <1>2, <1>9, <2>2
  <2>4. \E k \in Libs : Live(k)' /\ library'[k].path = q
    <3>1. PICK k \in Libs : Live(k) /\ library[k].path = q
      BY <2>2
    <3>2. library'[k] = library[k]
      BY <1>2, <1>9, <3>1
    <3> QED BY <1>14, <3>1, <3>2
  <2> QED BY <2>2, <2>3, <2>4 DEF Live
<1>18. HeldLive'
  <2> SUFFICES ASSUME NEW u \in Threads, NEW k \in Libs, held[u][k] > 0
               PROVE  Live(k)' /\ library'[k].ready
    BY <1>1 DEF HeldLive
  <2>1. Live(k) /\ library[k].ready
    BY DEF OInv, HeldLive
  <2> QED BY <1>2, <1>9, <1>14, <2>1
<1>19. Acyclic'
  <2> SUFFICES ASSUME NEW S \in SUBSET Libs, S # {}, \A k \in S : Live(k)'
               PROVE  \E x \in S : \A k \in S : \A i \in Elements(library'[k].path) :
                        statics'[library'[k].path][i] # x
    BY DEF Acyclic
  <2>1. CASE l \in S
    <3>1. \A q \in Paths : \A i \in Elements(q) : statics[q][i] # l
      BY <1>2, Unready
    <3>2. \A k \in S : library'[k].path \in Paths
      <4>1. library' \in [Libs -> Library]
        BY DEF IInv, TypeOK
      <4> QED BY <4>1 DEF Library
    <3> QED BY <1>1, <2>1, <3>1, <3>2
  <2>2. CASE l \notin S
    <3>1. \A k \in S : Live(k) /\ library'[k].path = library[k].path
      BY <1>9, <1>14, <2>2
    <3>2. PICK x \in S : \A k \in S : \A i \in Elements(library[k].path) :
            statics[library[k].path][i] # x
      BY <3>1 DEF OInv, Acyclic
    <3>3. ASSUME NEW k \in S, NEW i \in Elements(library'[k].path)
          PROVE  statics'[library'[k].path][i] # x
      <4>1. library'[k].path = library[k].path
        BY <3>1
      <4>2. i \in Elements(library[k].path)
        BY <4>1
      <4>3. statics[library[k].path][i] # x
        BY <3>2, <4>2
      <4> QED BY <1>1, <4>1, <4>3
    <3> QED BY <3>3
  <2> QED BY <2>1, <2>2
<1>20. \A k \in Libs : Live(k) => k # l /\ (Cached(k)' <=> Cached(k))
  <2> SUFFICES ASSUME NEW k \in Libs, Live(k) PROVE k # l /\ (Cached(k)' <=> Cached(k))
    OBVIOUS
  <2>1. k # l /\ library[k].path # p /\ library[k].path \in Paths
    BY <1>2, <1>6 DEF Library
  <2> QED BY <1>9, <2>1 DEF Cached
<1>21. LibrariesGood'
  <2> SUFFICES ASSUME NEW k \in Libs, Live(k)' PROVE LibraryGood(k)'
    BY DEF LibrariesGood, LibraryGood
  <2>1. CASE k = l
    <3>1. Busy(l)'
      <4>1. \A h \in Frames : h = TopAt(t) => FrameOf(h)' = g
        BY <1>8
      <4>2. PICK h \in Frames : h = TopAt(t)
        BY <1>4
      <4>3. FrameOf(h)' = g
        BY <4>1, <4>2
      <4>4. Works(FrameOf(h))' /\ FrameOf(h)'.at # "uncache"
        BY <1>3, <4>3 DEF Works, Loading
      <4> QED BY <1>3, <1>8, <4>3, <4>4 DEF Busy
    <3> QED BY <1>9, <2>1, <3>1 DEF LibraryGood
  <2>2. CASE k # l
    <3>1. Live(k) /\ LibraryGood(k)
      BY <1>14, <2>2 DEF OInv, LibrariesGood
    <3>2. Busy(k) => Busy(k)'
      <4>1. ~Works(Top(t))
        BY <1>1 DEF Works, Doomed, Loading, Deletions, f
      <4>2. \A h \in Frames : h # TopAt(t) /\ FrameOf(h).lib = k /\ Works(FrameOf(h))
                                => Works(FrameOf(h))'
        <5> SUFFICES ASSUME NEW h \in Frames, h # TopAt(t), FrameOf(h).lib = k, Works(FrameOf(h))
                     PROVE  Works(FrameOf(h))'
          OBVIOUS
        <5>1. FrameOf(h)' = FrameOf(h) /\ FrameOf(h).path = library[k].path
          BY <1>8, LibsAssumption DEF OInv, FramesGood, Good, LiveAt
        <5>2. cache'[FrameOf(h).path] = cache[FrameOf(h).path]
          BY <1>6, <1>9, <3>1, <5>1, FrameTyped DEF OInv
        <5> QED BY <5>1, <5>2 DEF Works, Doomed
      <4> QED BY <1>7, <4>1, <4>2, BusyKept
    <3>3. Leaving(k) => Leaving(k)'
      BY <1>1, <1>7, LeavingKept DEF f
    <3> QED BY <1>9, <1>20, <2>2, <3>1, <3>2, <3>3 DEF LibraryGood
  <2> QED BY <2>1, <2>2
<1>22. RefExact'
  <2> SUFFICES ASSUME NEW k \in Libs, Live(k)' PROVE Exact(k)'
    BY DEF RefExact, Exact
  <2>1. CASE k = l
    <3>1. HeldHandles(l) = 0 /\ StaticHandles(l) = {}
      BY <1>2, Unready
    <3>2. HeldHandles(l)' = 0
      BY <1>1, <3>1, HeldSame DEF OInv
    <3>3. StaticHandles(l)' = {}
      BY <1>1, <3>1, BecomeHandles DEF OInv
    <3>4. CallHandles(l)' = {}
      <4> SUFFICES ASSUME NEW h \in Frames, FrameOf(h)'.lib = l,
                          FrameOf(h)'.at \in {"spin", "set_ready", "dispose"}
                   PROVE  FALSE
        BY <1>8 DEF CallHandles
      <4>1. h # TopAt(t)
        BY <1>3, <1>8
      <4>2. FrameOf(h).lib = l
        BY <1>8, <4>1
      <4> QED BY <1>2, <4>2 DEF OInv, FramesGood, Good, LiveAt
    <3>5. Cardinality({}) = 0
      BY FS_EmptySet
    <3>6. Cardinality(StaticHandles(l)') = 0 /\ Cardinality(CallHandles(l)') = 0
      BY <3>3, <3>4, <3>5
    <3> QED BY <1>9, <2>1, <3>2, <3>6 DEF Exact
  <2>2. CASE k # l
    <3>1. Live(k)
      BY <1>14, <2>2
    <3>2. library'[k] = library[k] /\ ref'[k] = ref[k] /\ ref[k] \in Nat
      BY <1>2, <1>9, <2>2
    <3>3. \A h \in Frames : h # TopAt(t) => (Owns(FrameOf(h), k)' <=> Owns(FrameOf(h), k))
      BY <1>8, <3>2 DEF Owns
    <3>4. ~Owns(g, k)' /\ ~Owns(Top(t), k) /\ (Cached(k)' <=> Cached(k))
      BY <1>1, <1>3, <1>20, <3>1 DEF Owns, f
    <3>5. ref'[k] = ref[k] + One(Cached(k)') - One(Cached(k)) + One(Owns(g, k)') - One(Owns(Top(t), k))
      BY <3>2, <3>4 DEF One
    <3> QED BY <1>7, <3>1, <3>3, <3>5, RefStep
  <2> QED BY <2>1, <2>2
<1> QED BY <1>13, <1>15, <1>16, <1>17, <1>18, <1>19, <1>21, <1>22 DEF OInv

-----------------------------------------------------------------------------
(* Calls.                                                                      *)

LEMMA CallFrames ==
  ASSUME IInv, NEW t \in Threads, NEW g, Call(t, g), NEW n, n = Len(stack[t])
  PROVE  /\ n \in Nat
         /\ Frames' = Frames \cup {<<t, n + 1>>} /\ <<t, n + 1>> \notin Frames
         /\ \A f \in Frames : FrameOf(f)' = FrameOf(f)
         /\ FrameOf(<<t, n + 1>>)' = g
         /\ Len(stack'[t]) = n + 1 /\ \A u \in Threads : u # t => Len(stack'[u]) = Len(stack[u])
         /\ \A u \in Threads : Idle(u)' <=> Idle(u) /\ u # t
<1>1. stack \in [Threads -> Seq(Frame)]
  BY DEF IInv, TypeOK
<1>2. n \in Nat /\ stack[t] \in Seq(Frame)
  BY <1>1
<1>3. /\ \A u \in Threads : u # t => stack'[u] = stack[u]
      /\ stack'[t] = Append(stack[t], g) /\ DOMAIN stack' = Threads
  BY <1>1 DEF Call
<1>4. /\ DOMAIN stack'[t] = 1 .. n + 1 /\ Len(stack'[t]) = n + 1
      /\ \A i \in 1 .. n : stack'[t][i] = stack[t][i]
      /\ stack'[t][n + 1] = g /\ stack'[t] # <<>> /\ DOMAIN stack[t] = 1 .. n
  <2>1. stack[t] \in Seq(Frame \cup {g}) /\ DOMAIN stack[t] = 1 .. n
    BY <1>2
  <2>2. stack'[t] \in Seq(Frame \cup {g}) /\ Len(stack'[t]) = n + 1
    BY <1>2, <1>3, <2>1
  <2>3. DOMAIN stack'[t] = 1 .. n + 1
    BY <2>2
  <2>4. stack'[t][n + 1] = g /\ \A i \in 1 .. n : stack'[t][i] = stack[t][i]
    BY <1>2, <1>3, <2>1
  <2>5. stack'[t] # <<>>
    BY <1>2, <2>2
  <2> QED BY <2>1, <2>2, <2>3, <2>4, <2>5
<1>5. 1 .. n + 1 = (1 .. n) \cup {n + 1} /\ n + 1 \notin 1 .. n
  BY <1>2
<1>6. \A y : y \in Frames' <=> y \in Frames \/ y = <<t, n + 1>>
  <2>1. \A y : y \in Frames <=> \E u \in Threads : \E i \in DOMAIN stack[u] : y = <<u, i>>
    BY DEF Frames
  <2>2. \A y : y \in Frames' <=> \E u \in Threads : \E i \in DOMAIN stack'[u] : y = <<u, i>>
    BY DEF Frames
  <2>3. \A u \in Threads : \A i : i \in DOMAIN stack'[u] <=> i \in DOMAIN stack[u] \/ (u = t /\ i = n + 1)
    BY <1>3, <1>4, <1>5
  <2> QED BY <2>1, <2>2, <2>3
<1>7. <<t, n + 1>> \notin Frames
  BY <1>4, <1>5, FramesAre
<1>8. \A f \in Frames : FrameOf(f)' = FrameOf(f)
  <2> TAKE f \in Frames
  <2>1. f = <<f[1], f[2]>> /\ f[1] \in Threads /\ f[2] \in DOMAIN stack[f[1]]
    BY FramesAre
  <2> QED BY <1>3, <1>4, <2>1 DEF FrameOf
<1>9. FrameOf(<<t, n + 1>>)' = g
  BY <1>4 DEF FrameOf
<1>10. Len(stack'[t]) = n + 1 /\ \A u \in Threads : u # t => Len(stack'[u]) = Len(stack[u])
  BY <1>3, <1>4
<1>11. \A u \in Threads : Idle(u)' <=> Idle(u) /\ u # t
  BY <1>3, <1>4 DEF Idle
<1> QED BY <1>2, <1>6, <1>7, <1>8, <1>9, <1>10, <1>11

\* The new frame may own a reference.
LEMMA CallMore ==
  ASSUME IInv, NEW t \in Threads, NEW g, Call(t, g), library' = library, NEW l
  PROVE  Cardinality(CallHandles(l)') = Cardinality(CallHandles(l)) + One(Owns(g, l))
<1>1. PICK n : n = Len(stack[t])
  OBVIOUS
<1>2. /\ Frames' = Frames \cup {<<t, n + 1>>} /\ <<t, n + 1>> \notin Frames
      /\ \A f \in Frames : FrameOf(f)' = FrameOf(f)
      /\ FrameOf(<<t, n + 1>>)' = g
  BY <1>1, CallFrames
<1>3. CallHandles(l) = {f \in Frames : Owns(FrameOf(f), l)}
  BY DEF CallHandles, Owns
<1>4. CallHandles(l)' = {f \in Frames' : Owns(FrameOf(f), l)'}
  BY DEF CallHandles, Owns
<1>5. \A f \in Frames : Owns(FrameOf(f), l)' <=> Owns(FrameOf(f), l)
  BY <1>2 DEF Owns
<1>6. Owns(FrameOf(<<t, n + 1>>), l)' <=> Owns(g, l)
  BY <1>2 DEF Owns
<1>7. IsFiniteSet(CallHandles(l)) /\ Cardinality(CallHandles(l)) \in Nat
  BY HandlesFinite
<1> HIDE DEF CallHandles
<1>8. CASE Owns(g, l)
  <2>1. CallHandles(l)' = CallHandles(l) \cup {<<t, n + 1>>} /\ <<t, n + 1>> \notin CallHandles(l)
    BY <1>2, <1>3, <1>4, <1>5, <1>6, <1>8
  <2>2. Cardinality(CallHandles(l)') = Cardinality(CallHandles(l)) + 1
    BY <1>7, <2>1, FS_AddElement
  <2> QED BY <1>8, <2>2 DEF One
<1>9. CASE ~Owns(g, l)
  <2>1. CallHandles(l)' = CallHandles(l)
    BY <1>2, <1>3, <1>4, <1>5, <1>6, <1>9
  <2> QED BY <1>7, <1>9, <2>1 DEF One
<1> QED BY <1>8, <1>9

\* The static pointer a loop is at is in deletion while the call lasts.
Deletes(t, y) ==
  ~Idle(t) /\ Top(t).at \in {"at_exit", "unregister"} /\ y = <<Top(t).path, Top(t).next>>

LEMMA CallDeletions ==
  ASSUME IInv, NEW t \in Threads, NEW g, Call(t, g)
  PROVE  \A y : y \in InDeletion' <=> y \in InDeletion \/ Deletes(t, y)
<1>1. PICK n : n = Len(stack[t])
  OBVIOUS
<1>2. /\ Frames' = Frames \cup {<<t, n + 1>>} /\ n \in Nat
      /\ \A f \in Frames : FrameOf(f)' = FrameOf(f)
      /\ Len(stack'[t]) = n + 1 /\ \A u \in Threads : u # t => Len(stack'[u]) = Len(stack[u])
  BY <1>1, CallFrames
<1>3. \A f \in Frames : /\ f = <<f[1], f[2]>> /\ f[1] \in Threads /\ f[2] \in Nat
                        /\ Len(stack[f[1]]) \in Nat /\ f[2] <= Len(stack[f[1]])
  BY FramesAre
<1>4. \A y : y \in InDeletion' <=>
        \E f \in Frames' : /\ f[2] < Len(stack'[f[1]])
                           /\ FrameOf(f)'.at \in {"at_exit", "unregister"}
                           /\ y = <<FrameOf(f)'.path, FrameOf(f)'.next>>
  BY DEF InDeletion
<1>5. \A f \in Frames : f[2] < Len(stack'[f[1]]) <=> f[2] < Len(stack[f[1]]) \/ f = <<t, n>>
  <2> TAKE f \in Frames
  <2>1. CASE f[1] = t
    BY <1>1, <1>2, <1>3, <2>1
  <2>2. CASE f[1] # t
    BY <1>2, <1>3, <2>2
  <2> QED BY <2>1, <2>2
<1>6. ~(n + 1 < Len(stack'[t]))
  BY <1>1, <1>2
<1>7. ~Idle(t) <=> <<t, n>> \in Frames
  BY <1>1, <1>2, FramesAre
<1>8. FrameOf(<<t, n>>) = Top(t)
  BY <1>1 DEF FrameOf, Top
<1>9. ASSUME NEW y, y \in InDeletion' PROVE y \in InDeletion \/ Deletes(t, y)
  <2>1. PICK f \in Frames' : /\ f[2] < Len(stack'[f[1]])
                             /\ FrameOf(f)'.at \in {"at_exit", "unregister"}
                             /\ y = <<FrameOf(f)'.path, FrameOf(f)'.next>>
    BY <1>4, <1>9
  <2>2. f \in Frames
    BY <1>2, <1>6, <2>1
  <2>3. CASE f = <<t, n>>
    BY <1>2, <1>7, <1>8, <2>1, <2>2, <2>3 DEF Deletes
  <2>4. CASE f # <<t, n>>
    BY <1>2, <1>5, <2>1, <2>2, <2>4, InDeletionIs
  <2> QED BY <2>3, <2>4
<1>10. ASSUME NEW y, y \in InDeletion PROVE y \in InDeletion'
  <2>1. PICK f \in Frames : /\ f[2] < Len(stack[f[1]])
                            /\ FrameOf(f).at \in {"at_exit", "unregister"}
                            /\ y = <<FrameOf(f).path, FrameOf(f).next>>
    BY <1>10, InDeletionIs
  <2> QED BY <1>2, <1>4, <1>5, <2>1
<1>11. ASSUME NEW y, Deletes(t, y) PROVE y \in InDeletion'
  <2>1. <<t, n>> \in Frames /\ FrameOf(<<t, n>>)' = Top(t)
    BY <1>2, <1>7, <1>8, <1>11 DEF Deletes
  <2>2. n < Len(stack'[t])
    BY <1>1, <1>2
  <2> QED BY <1>2, <1>4, <1>11, <2>1, <2>2 DEF Deletes
<1> QED BY <1>9, <1>10, <1>11

\* What a call keeps, whatever it is.
Calls(t, g) ==
  /\ Call(t, g) /\ UNCHANGED <<initialized, owner, cache, library, ref, statics>>
  /\ \A u \in Threads, k \in Libs : held'[u][k] > 0 => held[u][k] > 0
  /\ g.at \in {"lock", "dispose"} /\ Good(g) /\ ~Works(g)
  /\ \A f \in Frames : f[1] = t /\ FrameOf(f).at \in {"unregister", "at_exit"} => g.at = "dispose"
  /\ ~Idle(t) /\ Top(t).at \in {"unregister", "at_exit"} => g.lib = statics[Top(t).path][Top(t).next]
  /\ initialized

LEMMA CallKeeps ==
  ASSUME OInv, IInv', NEW t \in Threads, NEW g, Calls(t, g)
  PROVE  /\ FramesGood' /\ OwnerAt' /\ Shape' /\ Distinct'
         /\ OnePerPath' /\ CacheLive' /\ StaticsLive' /\ HeldLive' /\ Acyclic'
         /\ LibrariesGood' /\ Closed'
<1>0. PICK n : n = Len(stack[t])
  OBVIOUS
<1>1. /\ Frames' = Frames \cup {<<t, n + 1>>} /\ <<t, n + 1>> \notin Frames /\ n \in Nat
      /\ \A f \in Frames : FrameOf(f)' = FrameOf(f)
      /\ FrameOf(<<t, n + 1>>)' = g
  BY <1>0, CallFrames DEF OInv, Calls
<1>2. UNCHANGED <<initialized, owner, cache, library, ref, statics>>
  BY DEF Calls
<1>3. \A f \in Frames : Good(FrameOf(f))' /\ (Works(FrameOf(f))' <=> Works(FrameOf(f)))
  <2> TAKE f \in Frames
  <2>1. Good(FrameOf(f))
    BY DEF OInv, FramesGood
  <2> QED BY <1>1, <1>2, <2>1, GoodElsewhere
<1>4. \A f : f = <<t, n + 1>> => Good(FrameOf(f))' /\ ~Works(FrameOf(f))'
  <2> SUFFICES ASSUME NEW f, f = <<t, n + 1>> PROVE Good(FrameOf(f))' /\ ~Works(FrameOf(f))'
    OBVIOUS
  <2>1. FrameOf(f)' = g
    BY <1>1
  <2>2. Good(g) /\ ~Works(g)
    BY DEF Calls
  <2> QED BY <1>2, <2>1, <2>2
          DEF Good, LiveAt, CachedAt, FlagsAt, RefAt, StaticsAt, Doomed, Works, Live, Unset
<1>5. FramesGood'
  BY <1>1, <1>3, <1>4 DEF FramesGood
<1>6. OwnerAt'
  BY <1>1, <1>2 DEF OInv, OwnerAt, Calls, Critical
<1>7. Distinct'
  <2> SUFFICES ASSUME NEW f \in Frames', NEW h \in Frames', f # h,
                      Works(FrameOf(f))', Works(FrameOf(h))'
               PROVE  FrameOf(f)'.path # FrameOf(h)'.path
    BY DEF Distinct
  <2>1. f \in Frames /\ h \in Frames
    BY <1>1, <1>4
  <2> QED BY <1>1, <1>3, <2>1 DEF OInv, Distinct
<1>8. Shape'
  <2> SUFFICES ASSUME NEW f \in Frames', FrameOf(f)'.at \in {"unregister", "at_exit"}
               PROVE  /\ \A h \in Frames' : h[1] = f[1] /\ h[2] > f[2] => FrameOf(h)'.at \in Deletions
                      /\ Above(f) \in Frames' => FrameOf(Above(f))'.lib =
                           statics[FrameOf(f)'.path][FrameOf(f)'.next]
    BY <1>2 DEF Shape, Above
  <2>1. f \in Frames
    BY <1>1 DEF Calls
  <2>2. f = <<f[1], f[2]>> /\ f[2] \in Nat /\ FrameOf(f)' = FrameOf(f)
    BY <1>1, <2>1, FramesAre DEF OInv
  <2>3. /\ \A h \in Frames : h[1] = f[1] /\ h[2] > f[2] => FrameOf(h).at \in Deletions
        /\ Above(f) \in Frames => FrameOf(Above(f)).lib =
             statics[FrameOf(f).path][FrameOf(f).next]
    BY <2>1, <2>2 DEF OInv, Shape
  <2>4. ASSUME NEW h \in Frames', h[1] = f[1], h[2] > f[2] PROVE FrameOf(h)'.at \in Deletions
    <3>1. CASE h \in Frames
      BY <1>1, <2>3, <2>4, <3>1
    <3>2. CASE h = <<t, n + 1>>
      BY <1>1, <2>1, <2>2, <2>4, <3>2 DEF Calls, Deletions
    <3> QED BY <1>1, <3>1, <3>2
  <2>5. ASSUME Above(f) \in Frames' PROVE FrameOf(Above(f))'.lib = statics[FrameOf(f)'.path][FrameOf(f)'.next]
    <3>1. PICK h : h = Above(f)
      OBVIOUS
    <3>2. CASE h \in Frames
      BY <1>1, <2>2, <2>3, <3>1, <3>2 DEF Above
    <3>3. CASE h = <<t, n + 1>>
      <4>1. f = <<t, n>>
        BY <1>1, <2>2, <3>1, <3>3 DEF Above
      <4>2. ~Idle(t) /\ FrameOf(f) = Top(t)
        BY <1>0, <2>1, <4>1, FramesAre DEF OInv, FrameOf, Top
      <4>3. g.lib = statics[FrameOf(f).path][FrameOf(f).next]
        BY <2>2, <4>2 DEF Calls
      <4>4. FrameOf(h)' = g
        BY <1>1, <3>3
      <4>5. Above(f)' = h
        BY <3>1 DEF Above
      <4> QED BY <2>2, <3>1, <4>3, <4>4 DEF Above
    <3> QED BY <1>1, <2>5, <3>1, <3>2, <3>3
  <2> QED BY <2>4, <2>5
<1>9. OnePerPath' /\ CacheLive' /\ StaticsLive' /\ HeldLive' /\ Acyclic'
  <2>1. \A u \in Threads, k \in Libs : held'[u][k] > 0 => held[u][k] > 0
    BY DEF Calls
  <2> QED BY <1>2, <2>1, Lasting
<1>10. LibrariesGood'
  <2> SUFFICES ASSUME NEW k \in Libs PROVE LibraryGood(k)'
    BY DEF LibrariesGood
  <2>1. LibraryGood(k)
    BY DEF OInv, LibrariesGood
  <2>2. Busy(k) => Busy(k)'
    BY <1>1, <1>3 DEF Busy
  <2>3. Leaving(k) => Leaving(k)'
    BY <1>1 DEF Leaving
  <2> QED BY <1>2, <2>1, <2>2, <2>3 DEF LibraryGood, Live, Cached
<1>11. Closed'
  BY <1>2 DEF Closed, Calls
<1> QED BY <1>5, <1>6, <1>7, <1>8, <1>9, <1>10, <1>11

LEMMA FinalKept ==
  ASSUME OInv, IInv', Final, ~Idle(Keeper)',
         \A u \in Threads, k \in Libs : held'[u][k] > 0 => held[u][k] > 0,
         \A u \in Threads \ {Keeper} : Idle(u)',
         stack'[Keeper][1].at = stack[Keeper][1].at
  PROVE  Final'
<1>1. Deleting(Keeper)'
  BY DEF Final, Deleting
<1>2. \A u \in Threads \ {Keeper} : \A l \in Libs : held'[u][l] = 0
  <2> SUFFICES ASSUME NEW u \in Threads \ {Keeper}, NEW l \in Libs PROVE held'[u][l] = 0
    OBVIOUS
  <2>1. held'[u][l] \in Nat
    BY DEF IInv, TypeOK
  <2>2. held[u][l] = 0
    BY DEF Final
  <2> QED BY <2>1, <2>2
<1> QED BY <1>1, <1>2 DEF Final

LEMMA CallAlone ==
  ASSUME OInv, IInv', NEW t \in Threads, NEW g, Calls(t, g),
         Discipline = "serial" => ~Idle(t) \/ \A u \in Threads : Idle(u),
         Discipline = "load_only" => g.at = "lock",
         Discipline = "kept" =>
           /\ Final => t = Keeper /\ ~Idle(t)
           /\ \A f \in Frames : Guarded(f) => f[1] # t /\ held'[Keeper][FrameOf(f).lib] > 0
           /\ g.at = "dispose" => \/ t = Keeper /\ (Final \/ Final')
                                  \/ Idle(t) /\ held'[Keeper][g.lib] > 0
  PROVE  Alone'
<1>0. PICK n : n = Len(stack[t])
  OBVIOUS
<1>1. /\ Frames' = Frames \cup {<<t, n + 1>>} /\ n \in Nat
      /\ \A f \in Frames : FrameOf(f)' = FrameOf(f)
      /\ FrameOf(<<t, n + 1>>)' = g
      /\ \A u \in Threads : Idle(u)' <=> Idle(u) /\ u # t
      /\ Len(stack'[t]) = n + 1 /\ \A u \in Threads : u # t => Len(stack'[u]) = Len(stack[u])
  BY <1>0, CallFrames DEF OInv, Calls
<1>2. \A f \in Frames : f[1] \in Threads
  BY FramesAre DEF OInv
<1>3. g.at \in {"lock", "dispose"}
  BY DEF Calls
<1>4. Discipline = "serial" => \A u, v \in Threads : ~Idle(u)' /\ ~Idle(v)' => u = v
  BY <1>1 DEF OInv, Alone
<1>5. Discipline # "serial" => \A f \in Frames' : FrameOf(f)'.at \notin Failing
  BY <1>1, <1>3 DEF OInv, Alone, Failing
<1>6. Discipline = "load_only" => \A f \in Frames' : FrameOf(f)'.at \notin Deletions
  BY <1>1, <1>3 DEF OInv, Alone, Deletions
<1>7. ASSUME Discipline = "kept", t = Keeper, ~Idle(t), Final PROVE Final'
  <2>1. <<Keeper, 1>> \in Frames /\ FrameOf(<<Keeper, 1>>) = stack[Keeper][1]
    <3>1. Len(stack[t]) \in Nat /\ Len(stack[t]) # 0
      BY <1>7, FramesAre DEF OInv
    <3>2. 1 \in 1 .. Len(stack[t])
      BY <3>1
    <3> QED BY <1>7, <3>2, FramesAre DEF OInv, FrameOf
  <2>2. stack'[Keeper][1] = stack[Keeper][1]
    BY <1>1, <2>1 DEF FrameOf
  <2>3. \A u \in Threads \ {Keeper} : Idle(u)'
    BY <1>1, <1>7 DEF Final
  <2>4. \A u \in Threads, k \in Libs : held'[u][k] > 0 => held[u][k] > 0
    BY DEF Calls
  <2>5. ~Idle(Keeper)'
    BY <1>1, <1>7
  <2> QED BY <1>7, <2>2, <2>3, <2>4, <2>5, FinalKept
<1>8. ASSUME Discipline = "kept", NEW f \in Frames', FrameOf(f)'.at \in Deletions
      PROVE  (f[1] = Keeper /\ Final') \/ Guarded(f)'
  <2>1. CASE f \in Frames
    <3>1. (f[1] = Keeper /\ Final) \/ Guarded(f)
      BY <1>1, <1>8, <2>1 DEF OInv, Alone
    <3>2. CASE f[1] = Keeper /\ Final
      BY <1>7, <1>8, <3>2
    <3>3. CASE Guarded(f)
      <4>1. f[1] # t /\ held'[Keeper][FrameOf(f).lib] > 0
        BY <1>8, <2>1, <3>3
      <4> QED BY <1>1, <1>2, <2>1, <3>3, <4>1 DEF Guarded
    <3> QED BY <3>1, <3>2, <3>3
  <2>2. CASE f = <<t, n + 1>>
    <3>1. FrameOf(f)' = g /\ g.at = "dispose" /\ f[1] = t
      BY <1>1, <1>3, <1>8, <2>2 DEF Deletions
    <3>2. CASE t = Keeper /\ (Final \/ Final')
      BY <1>7, <1>8, <3>1, <3>2
    <3>3. CASE Idle(t) /\ held'[Keeper][g.lib] > 0
      <4>1. n = 0
        BY <1>0, <3>3, FramesAre DEF OInv
      <4>2. Len(stack'[f[1]]) = 1
        BY <1>1, <3>1, <4>1
      <4> QED BY <3>1, <3>3, <4>2 DEF Guarded
    <3> QED BY <1>8, <3>1, <3>2, <3>3
  <2> QED BY <1>1, <2>1, <2>2
<1> QED BY <1>4, <1>5, <1>6, <1>8 DEF Alone

\* A load asked for by the application, or by a register function.
LEMMA LoadCalled ==
  ASSUME OInv, IInv', NEW t \in Threads, NEW p \in Paths,
         Call(t, NewCall("lock", p, NoLib)), initialized,
         UNCHANGED <<initialized, owner, cache, library, ref, statics, held>>,
         \/ /\ Idle(t) /\ MayLoad(t, p)
         \/ ~Idle(t) /\ Top(t).at = "register"
  PROVE  OInv'
<1>0. PICK g : g = NewCall("lock", p, NoLib)
  OBVIOUS
<1>1. g.at = "lock" /\ g.path = p /\ g.lib = NoLib /\ Call(t, g)
  BY <1>0 DEF NewCall
<1>2. ~Idle(t) => TopAt(t) \in Frames /\ FrameOf(TopAt(t)) = Top(t) /\ TopAt(t)[1] = t
                  /\ TopAt(t)[2] = Len(stack[t])
  BY TopIsFrame DEF OInv, TopAt
<1>3. \A f \in Frames : f[1] = t => FrameOf(f).at \notin {"unregister", "at_exit"}
  <2> SUFFICES ASSUME NEW f \in Frames, f[1] = t, FrameOf(f).at \in {"unregister", "at_exit"}
               PROVE  FALSE
    OBVIOUS
  <2>1. ~Idle(t) /\ Top(t).at = "register"
    BY FramesAre DEF OInv
  <2>2. f # TopAt(t)
    BY <1>2, <2>1
  <2>3. f[2] < Len(stack[t]) /\ f[2] \in Nat /\ Len(stack[t]) \in Nat
    BY <2>2, BelowTop, FramesAre DEF OInv
  <2>4. Top(t).at \in Deletions
    BY <1>2, <2>1, <2>3 DEF OInv, Shape
  <2> QED BY <2>1, <2>4 DEF Deletions
<1>4. Good(g) /\ ~Works(g)
  BY <1>1 DEF Good, LiveAt, CachedAt, FlagsAt, RefAt, StaticsAt, Doomed, Works, Deletions, Loading
<1>5. Calls(t, g)
  BY <1>1, <1>3, <1>4 DEF Calls
<1>6. Alone'
  <2>1. Discipline = "serial" => ~Idle(t) \/ \A u \in Threads : Idle(u)
    BY DEF MayLoad
  <2>2. ASSUME Discipline = "kept", Final PROVE t = Keeper /\ ~Idle(t)
    <3>1. ~Idle(Keeper) /\ Deleting(Keeper) /\ \A u \in Threads \ {Keeper} : Idle(u)
      BY <2>2 DEF Final, Deleting
    <3> QED BY <2>2, <3>1 DEF MayLoad
  <2>3. ASSUME Discipline = "kept", NEW f \in Frames, Guarded(f)
        PROVE  f[1] # t /\ held'[Keeper][FrameOf(f).lib] > 0
    <3>1. held'[Keeper][FrameOf(f).lib] > 0
      BY <2>3 DEF Guarded
    <3>2. ASSUME f[1] = t PROVE FALSE
      <4>1. ~Idle(t)
        BY <3>2, FramesAre DEF OInv
      <4>2. f = TopAt(t)
        BY <2>3, <3>2, BelowTop DEF OInv, Guarded, Loops
      <4> QED BY <1>2, <2>3, <4>1, <4>2 DEF Guarded
    <3> QED BY <3>1, <3>2
  <2> QED BY <1>1, <1>5, <2>1, <2>2, <2>3, CallAlone
<1>7. RefExact'
  <2> SUFFICES ASSUME NEW l \in Libs, Live(l) PROVE Exact(l)'
    BY DEF RefExact, Exact, Live
  <2>1. Exact(l)
    BY DEF OInv, RefExact, Exact
  <2>2. HeldHandles(l)' = HeldHandles(l)
    BY HeldSame DEF OInv
  <2>3. Cardinality(CallHandles(l)') = Cardinality(CallHandles(l))
    <3>1. ~Owns(g, l)
      BY <1>1 DEF Owns
    <3>2. Cardinality(CallHandles(l)) \in Nat
      BY HandlesFinite DEF OInv
    <3>3. Cardinality(CallHandles(l)') = Cardinality(CallHandles(l)) + One(Owns(g, l))
      BY <1>1, CallMore DEF OInv
    <3> QED BY <3>1, <3>2, <3>3 DEF One
  <2>4. StaticHandles(l)' = StaticHandles(l)
    <3>1. \A y : ~Deletes(t, y)
      BY DEF Deletes
    <3>2. \A y : y \in InDeletion' <=> y \in InDeletion
      BY <1>1, <3>1, CallDeletions DEF OInv
    <3>3. InDeletion' = InDeletion
      BY <3>2
    <3> QED BY <3>3 DEF StaticHandles
  <2> QED BY <2>1, <2>2, <2>3, <2>4 DEF Exact, Live
<1> QED BY <1>5, <1>6, <1>7, CallKeeps DEF OInv

LEMMA StepCallLoad ==
  ASSUME OInv, IInv', NEW t \in Threads, NEW p \in Paths, CallLoad(t, p)
  PROVE  OInv'
BY LoadCalled DEF CallLoad

\* No thread is in a call of a manager that is not initialised.
LEMMA Open ==
  ASSUME OInv, NEW t \in Threads, ~Idle(t)
  PROVE  initialized
BY DEF OInv, Closed, IInv, TypeOK

LEMMA StepRequire ==
  ASSUME OInv, IInv', NEW t \in Threads, RegisterRequired(t)
  PROVE  OInv'
<1>1. /\ ~Idle(t) /\ Top(t).at = "register" /\ Top(t).next <= Top(t).last
      /\ Call(t, NewCall("lock", Requires[Top(t).path][Top(t).next], NoLib))
      /\ UNCHANGED <<initialized, owner, cache, library, ref, statics, held>>
  BY DEF RegisterRequired, At
<1>2. /\ Top(t).path \in Paths /\ Top(t).next \in Nat /\ Top(t).last \in Nat
      /\ Top(t).next >= 1 /\ Top(t).last <= Len(Requires[Top(t).path])
  BY <1>1, TopGood DEF FrameOK, Loops
<1>3. Requires[Top(t).path] \in Seq(Paths)
  BY <1>2, RequiresAssumption
<1>4. PICK p \in Paths : p = Requires[Top(t).path][Top(t).next]
  BY <1>1, <1>2, <1>3
<1> QED BY <1>1, <1>4, Open, LoadCalled

HandlesCounted ==
  \A l \in Libs :
    /\ IsFiniteSet(StaticHandles(l)) /\ IsFiniteSet(CallHandles(l))
    /\ Cardinality(StaticHandles(l)) \in Nat /\ Cardinality(CallHandles(l)) \in Nat
    /\ HeldHandles(l) \in Nat

LEMMA CountsHandles == IInv => HandlesCounted
BY HandlesFinite, HeldIsUnits DEF HandlesCounted, HeldCounted

\* A library in somebody's hands is cached.
LEMMA HandedOutCached ==
  ASSUME OInv, NEW l \in Libs, Live(l), library[l].ready,
         HeldHandles(l) # 0 \/ StaticHandles(l) # {}
  PROVE  Cached(l) /\ library[l].inManager
<1>1. Exact(l) /\ LibraryGood(l)
  BY DEF OInv, RefExact, Exact, LibrariesGood
<1>2. HeldHandles(l) \in Nat
  BY HeldIsUnits DEF HeldCounted, OInv
<1>3. /\ Cardinality(StaticHandles(l)) \in Nat /\ Cardinality(CallHandles(l)) \in Nat
      /\ IsFiniteSet(StaticHandles(l))
  BY HandlesFinite DEF OInv
<1>4. StaticHandles(l) # {} => Cardinality(StaticHandles(l)) # 0
  BY <1>3, FS_EmptySet
<1>5. ref[l] # 0
  <2> DEFINE c == IF cache[library[l].path] = l THEN 1 ELSE 0
             s == Cardinality(StaticHandles(l))
             h == HeldHandles(l)
  <2>1. ref[l] = c + h + s + Cardinality(CallHandles(l)) /\ c \in Nat
    BY <1>1 DEF Exact
  <2>2. h # 0 \/ s # 0
    BY <1>4
  <2>3. h \in Nat /\ s \in Nat
    BY <1>2, <1>3
  <2> HIDE DEF c, s, h
  <2> QED BY <1>3, <2>1, <2>2, <2>3
<1>6. ~Busy(l)
  <2> SUFFICES ASSUME NEW h \in Frames, FrameOf(h).lib = l, Works(FrameOf(h)),
                      FrameOf(h).at # "uncache"
               PROVE  FALSE
    BY DEF Busy
  <2>1. Good(FrameOf(h))
    BY DEF OInv, FramesGood
  <2> QED BY <1>5, <2>1 DEF Works, Good, FlagsAt, RefAt
<1> QED BY <1>1, <1>6 DEF LibraryGood

\* The frame of the deletion of a library that is ready and cached.
LEMMA DisposeGood ==
  ASSUME OInv, NEW l \in Libs, Live(l), library[l].ready, Cached(l), library[l].inManager,
         NEW g, g.at = "dispose", g.path = library[l].path, g.lib = l
  PROVE  Good(g) /\ ~Works(g) /\ \A k \in Libs : Owns(g, k) <=> k = l
<1>1. ~Doomed(g)
  BY DEF Doomed, Cached
<1> QED BY <1>1 DEF Good, LiveAt, CachedAt, FlagsAt, RefAt, StaticsAt, Works, Loading, Owns

LEMMA StepCallDelete ==
  ASSUME OInv, IInv', NEW t \in Threads, NEW l \in Libs, CallDelete(t, l)
  PROVE  OInv'
<1>0. PICK g : g = NewCall("dispose", library[l].path, l)
  OBVIOUS
<1>1. /\ g.at = "dispose" /\ g.path = library[l].path /\ g.lib = l /\ Call(t, g)
      /\ Idle(t) /\ held[t][l] > 0 /\ MayDelete(t, l)
      /\ held' = [held EXCEPT ![t][l] = @ - 1]
      /\ UNCHANGED <<initialized, owner, cache, library, ref, statics>>
  BY <1>0 DEF CallDelete, NewCall
<1>2. Live(l) /\ library[l].ready
  BY <1>1 DEF OInv, HeldLive
<1>3. held \in [Threads -> [Libs -> Nat]] /\ Keeper \in Threads
  BY ThreadsAssumption DEF OInv, IInv, TypeOK
<1>4. HeldHandles(l) # 0
  BY <1>1, <1>3, HeldIsUnits DEF OInv, HeldCounted
<1>5. Cached(l) /\ library[l].inManager
  BY <1>2, <1>4, HandedOutCached
<1>6. Good(g) /\ ~Works(g) /\ \A k \in Libs : Owns(g, k) <=> k = l
  BY <1>1, <1>2, <1>5, DisposeGood
<1>7. \A u \in Threads, k \in Libs : held'[u][k] = IF u = t /\ k = l THEN held[t][l] - 1 ELSE held[u][k]
  BY <1>1, <1>3
<1>8. \A u \in Threads, k \in Libs : held'[u][k] > 0 => held[u][k] > 0
  BY <1>1, <1>3, <1>7
<1>9. Calls(t, g)
  <2>1. initialized
    BY <1>1, <1>3 DEF OInv, Closed, IInv, TypeOK
  <2> QED BY <1>1, <1>6, <1>8, <2>1 DEF Calls
<1>10. \A f \in Frames : f[1] \in Threads /\ ~Idle(f[1])
  BY FramesAre DEF OInv
<1>11. Alone'
  <2>1. Discipline = "serial" => \A u \in Threads : Idle(u)
    BY <1>1 DEF MayDelete
  <2>2. Discipline # "load_only"
    BY <1>1 DEF MayDelete
  <2>3. ASSUME Final PROVE FALSE
    BY <1>1, <2>3 DEF Final, Deleting
  <2>4. ASSUME Discipline = "kept", NEW f \in Frames, Guarded(f)
        PROVE  f[1] # t /\ held'[Keeper][FrameOf(f).lib] > 0
    <3>1. f[1] # t
      BY <1>1, <1>10
    <3>2. FrameOf(f).lib \in Libs
      BY <2>4, GuardedCounts
    <3>3. held[Keeper][FrameOf(f).lib] > 0
      BY <2>4 DEF Guarded
    <3>4. ASSUME t = Keeper PROVE held[t][l] # 1
      BY <1>1, <1>10, <2>4, <3>1, <3>4 DEF MayDelete
    <3> QED BY <1>1, <1>3, <1>7, <3>1, <3>2, <3>3, <3>4
  <2>5. ASSUME Discipline = "kept"
        PROVE  (t = Keeper /\ Final') \/ (Idle(t) /\ held'[Keeper][g.lib] > 0)
    <3>1. CASE t = Keeper /\ held[t][l] = 1
      <4>1. \A u \in Threads \ {Keeper} : Idle(u) /\ \A k \in Libs : held[u][k] = 0
        BY <1>1, <2>5, <3>1 DEF MayDelete
      <4>2. PICK n : n = Len(stack[t])
        OBVIOUS
      <4>3. n = 0
        BY <1>1, <4>2, FramesAre DEF OInv
      <4>4. FrameOf(<<t, n + 1>>)' = g /\ \A u \in Threads : Idle(u)' <=> Idle(u) /\ u # t
        BY <1>1, <4>2, CallFrames DEF OInv
      <4>5. stack'[t][1] = g
        BY <4>3, <4>4 DEF FrameOf
      <4>6. Deleting(Keeper)'
        BY <1>1, <1>3, <3>1, <4>4, <4>5 DEF Deleting
      <4>7. \A u \in Threads \ {Keeper} : Idle(u)' /\ \A k \in Libs : held'[u][k] = 0
        BY <1>7, <3>1, <4>1, <4>4
      <4> QED BY <3>1, <4>6, <4>7 DEF Final
    <3>2. CASE t = Keeper /\ held[t][l] # 1
      BY <1>1, <1>3, <1>7, <3>2
    <3>3. CASE t # Keeper
      <4>1. PICK k \in Libs : held[Keeper][k] > 0 /\ library[k].path = library[l].path
        BY <1>1, <2>5, <3>3 DEF MayDelete, Holds
      <4>2. Live(k)
        BY <1>3, <4>1 DEF OInv, HeldLive
      <4>3. k = l
        BY <1>2, <4>1, <4>2 DEF OInv, OnePerPath
      <4> QED BY <1>1, <1>3, <1>7, <3>3, <4>1, <4>3
    <3> QED BY <3>1, <3>2, <3>3
  <2> QED BY <1>9, <2>1, <2>2, <2>3, <2>4, <2>5, CallAlone
<1>12. RefExact'
  <2> SUFFICES ASSUME NEW k \in Libs, Live(k) PROVE Exact(k)'
    BY <1>1 DEF RefExact, Exact, Live
  <2>1. Exact(k)
    BY DEF OInv, RefExact, Exact
  <2>2. HeldHandles(k) = HeldHandles(k)' + (IF k = l THEN 1 ELSE 0)
    BY <1>1, HeldLess DEF OInv
  <2>3. Cardinality(CallHandles(k)') = Cardinality(CallHandles(k)) + (IF k = l THEN 1 ELSE 0)
    <3>1. Cardinality(CallHandles(k)') = Cardinality(CallHandles(k)) + One(Owns(g, k))
      BY <1>1, CallMore DEF OInv
    <3> QED BY <1>6, <3>1 DEF One
  <2>4. StaticHandles(k)' = StaticHandles(k)
    <3>1. \A y : ~Deletes(t, y)
      BY <1>1 DEF Deletes
    <3>2. \A y : y \in InDeletion' <=> y \in InDeletion
      BY <1>1, <3>1, CallDeletions DEF OInv
    <3>3. InDeletion' = InDeletion
      BY <3>2
    <3> QED BY <1>1, <3>3 DEF StaticHandles
  <2>5. HeldHandles(k)' \in Nat
    <3>1. HeldCounted'
      BY HeldIsUnits, PTL DEF OInv
    <3> QED BY <3>1 DEF HeldCounted
  <2>6. Cardinality(StaticHandles(k)) \in Nat /\ Cardinality(CallHandles(k)) \in Nat
    BY HandlesFinite DEF OInv
  <2> DEFINE d == IF k = l THEN 1 ELSE 0
             c == IF cache[library[k].path] = k THEN 1 ELSE 0
  <2>7. d \in Nat /\ c \in Nat
    OBVIOUS
  <2>8. ref[k] = c + HeldHandles(k) + Cardinality(StaticHandles(k)) + Cardinality(CallHandles(k))
    BY <2>1 DEF Exact
  <2> HIDE DEF d
  <2>9. ref[k] = c + HeldHandles(k)' + Cardinality(StaticHandles(k)) + Cardinality(CallHandles(k)')
    <3> HIDE DEF c
    <3>1. HeldHandles(k) = HeldHandles(k)' + d /\ Cardinality(CallHandles(k)') = Cardinality(CallHandles(k)) + d
      BY <2>2, <2>3 DEF d
    <3> QED BY <2>5, <2>6, <2>7, <2>8, <3>1
  <2> QED BY <1>1, <2>4, <2>9 DEF Exact, Live
<1> QED BY <1>9, <1>11, <1>12, CallKeeps DEF OInv

\* The static pointer an exit function is about to delete.
LEMMA StaticDeleted ==
  ASSUME OInv, NEW t \in Threads, ~Idle(t), Top(t).at \in {"at_exit", "unregister"},
         Top(t).next <= Top(t).last, NEW p, p = Top(t).path, NEW n, n = Top(t).next,
         NEW l, l = statics[p][n], l # NoLib
  PROVE  /\ p \in Paths /\ n \in Elements(p)
         /\ l \in Libs /\ Live(l) /\ library[l].ready /\ Cached(l)
         /\ <<p, n>> \in StaticHandles(l)
<1>1. /\ p \in Paths /\ n \in Nat /\ Top(t).last \in Nat
      /\ n >= 1 /\ Top(t).last <= Len(Requires[p])
  BY TopGood DEF FrameOK, Loops
<1>2. n \in Elements(p) /\ DOMAIN statics[p] = Elements(p) /\ statics[p] \in [Elements(p) -> Libs \cup {NoLib}]
  <2>1. Requires[p] \in Seq(Paths)
    BY <1>1, RequiresAssumption
  <2>2. Len(Requires[p]) \in Nat /\ DOMAIN Requires[p] = Elements(p)
    BY <2>1 DEF Elements
  <2>3. n \in Elements(p)
    BY <1>1, <2>2 DEF Elements
  <2>4. statics[p] \in [DOMAIN Requires[p] -> Libs \cup {NoLib}]
    BY <1>1 DEF OInv, IInv, TypeOK
  <2> QED BY <2>2, <2>3, <2>4
<1>3. l \in Libs /\ Live(l) /\ library[l].ready
  BY <1>1, <1>2 DEF OInv, StaticsLive, Unset
<1>4. TopAt(t) \in Frames /\ FrameOf(TopAt(t)) = Top(t) /\ TopAt(t)[1] = t /\ TopAt(t)[2] = Len(stack[t])
  BY TopIsFrame DEF OInv, TopAt
<1>5. <<p, n>> \notin InDeletion
  <2> SUFFICES ASSUME <<p, n>> \in InDeletion PROVE FALSE
    OBVIOUS
  <2>1. PICK f \in Frames : /\ f[2] < Len(stack[f[1]])
                            /\ FrameOf(f).at \in {"at_exit", "unregister"}
                            /\ FrameOf(f).path = p
    BY InDeletionIs
  <2>2. f # TopAt(t)
    BY <1>4, <2>1, FramesAre DEF OInv
  <2>3. \A h \in Frames : FrameOf(h).at \in {"at_exit", "unregister"} => Works(FrameOf(h))
    BY DEF OInv, FramesGood, Good, CachedAt, Works, Doomed, Loading, Deletions
  <2> QED BY <1>4, <2>1, <2>2, <2>3 DEF OInv, Distinct
<1>6. <<p, n>> \in StaticHandles(l)
  <2>1. <<p, n>> \in UNION {{<<q, i>> : i \in DOMAIN statics[q]} : q \in Paths}
    BY <1>1, <1>2
  <2> QED BY <1>5, <2>1 DEF StaticHandles
<1>7. Cached(l)
  BY <1>3, <1>6, HandedOutCached
<1> QED BY <1>1, <1>2, <1>3, <1>6, <1>7

LEMMA StepDeleteRequired ==
  ASSUME OInv, IInv', NEW t \in Threads, DeleteRequired(t),
         statics[Top(t).path][Top(t).next] # NoLib
  PROVE  OInv'
<1>0. PICK p, n, l : p = Top(t).path /\ n = Top(t).next /\ l = statics[p][n]
  OBVIOUS
<1>1. PICK g : g = NewCall("dispose", library[l].path, l)
  OBVIOUS
<1>2. /\ g.at = "dispose" /\ g.path = library[l].path /\ g.lib = l /\ Call(t, g)
      /\ ~Idle(t) /\ Top(t).at \in {"at_exit", "unregister"} /\ n <= Top(t).last
      /\ UNCHANGED <<initialized, owner, cache, library, ref, statics, held>>
  BY <1>0, <1>1 DEF DeleteRequired, NewCall, At
<1>3. /\ p \in Paths /\ n \in Elements(p)
      /\ l \in Libs /\ Live(l) /\ library[l].ready /\ Cached(l)
      /\ <<p, n>> \in StaticHandles(l)
  BY <1>0, <1>2, StaticDeleted
<1>6. /\ TopAt(t) \in Frames /\ FrameOf(TopAt(t)) = Top(t) /\ TopAt(t)[1] = t
      /\ TopAt(t)[2] = Len(stack[t])
  BY <1>2, TopIsFrame DEF OInv, TopAt
<1>8. \A k \in Libs : <<p, n>> \in StaticHandles(k) <=> k = l
  BY <1>0, <1>3 DEF StaticHandles
<1>9. Cached(l) /\ library[l].inManager
  BY <1>3, HandedOutCached
<1>10. Good(g) /\ ~Works(g) /\ \A k \in Libs : Owns(g, k) <=> k = l
  BY <1>2, <1>3, <1>9, DisposeGood
<1>11. Calls(t, g)
  <2>1. initialized
    BY <1>2, Open
  <2> QED BY <1>0, <1>2, <1>10, <2>1 DEF Calls
<1>12. Alone'
  <2>1. Discipline # "load_only"
    BY <1>2, <1>6 DEF OInv, Alone, Deletions, Failing
  <2>2. Discipline = "kept" => t = Keeper /\ Final
    BY <1>2, <1>6 DEF OInv, Alone, Deletions, Failing, Guarded
  <2>3. ASSUME Discipline = "kept", NEW f \in Frames, Guarded(f)
        PROVE  f[1] # t /\ held'[Keeper][FrameOf(f).lib] > 0
    <3>1. held'[Keeper][FrameOf(f).lib] > 0
      BY <1>2, <2>3 DEF Guarded
    <3>2. ASSUME f[1] = t PROVE FALSE
      <4>1. f = TopAt(t)
        BY <2>3, <3>2, BelowTop DEF OInv, Guarded, Loops
      <4> QED BY <1>2, <1>6, <2>3, <4>1 DEF Guarded
    <3> QED BY <3>1, <3>2
  <2> QED BY <1>2, <1>11, <2>1, <2>2, <2>3, CallAlone
<1>13. RefExact'
  <2> SUFFICES ASSUME NEW k \in Libs, Live(k) PROVE Exact(k)'
    BY <1>2 DEF RefExact, Exact, Live
  <2>1. Exact(k)
    BY DEF OInv, RefExact, Exact
  <2>2. HeldHandles(k)' = HeldHandles(k)
    BY <1>2, HeldSame DEF OInv
  <2>3. Cardinality(CallHandles(k)') = Cardinality(CallHandles(k)) + (IF k = l THEN 1 ELSE 0)
    <3>1. Cardinality(CallHandles(k)') = Cardinality(CallHandles(k)) + One(Owns(g, k))
      BY <1>2, CallMore DEF OInv
    <3> QED BY <1>10, <3>1 DEF One
  <2>4. Cardinality(StaticHandles(k)) = Cardinality(StaticHandles(k)') + (IF k = l THEN 1 ELSE 0)
    <3>1. \A y : y \in InDeletion' <=> y \in InDeletion \/ y = <<p, n>>
      <4>1. \A y : y \in InDeletion' <=> y \in InDeletion \/ Deletes(t, y)
        BY <1>2, CallDeletions DEF OInv
      <4> QED BY <1>0, <1>2, <4>1 DEF Deletes
    <3>2. \A y : y \in StaticHandles(k)' <=> y \in StaticHandles(k) /\ y # <<p, n>>
      BY <1>2, <3>1 DEF StaticHandles
    <3>3. IsFiniteSet(StaticHandles(k)) /\ IsFiniteSet(StaticHandles(k)')
      <4>1. HandlesCounted /\ HandlesCounted'
        BY CountsHandles, PTL DEF OInv
      <4> QED BY <4>1 DEF HandlesCounted
    <3> DEFINE S == StaticHandles(k)
               T == StaticHandles(k)'
               x == <<p, n>>
    <3>4. x \notin T /\ (x \in S <=> k = l) /\ \A y : y # x => (y \in S <=> y \in T)
      BY <1>8, <3>2
    <3>5. IsFiniteSet(S) /\ IsFiniteSet(T)
      BY <3>3
    <3>6. Cardinality(S) \in Nat /\ Cardinality(T) \in Nat
      BY <3>5, FS_CardinalityType
    <3> HIDE DEF S, T, x
    <3>7. Cardinality(T) = Cardinality(S) + One(x \in T) - One(x \in S)
      BY <3>4, <3>5, DifferInOne
    <3>8. Cardinality(S) = Cardinality(T) + (IF k = l THEN 1 ELSE 0)
      BY <3>4, <3>6, <3>7 DEF One
    <3> QED BY <3>8 DEF S, T
  <2>5. HeldHandles(k) \in Nat
    BY HeldIsUnits DEF HeldCounted, OInv
  <2>6. /\ Cardinality(StaticHandles(k)) \in Nat /\ Cardinality(CallHandles(k)) \in Nat
        /\ Cardinality(StaticHandles(k)') \in Nat
    <3>1. HandlesCounted /\ HandlesCounted'
      BY CountsHandles, PTL DEF OInv
    <3> QED BY <3>1 DEF HandlesCounted
  <2> DEFINE d == IF k = l THEN 1 ELSE 0
             c == IF cache[library[k].path] = k THEN 1 ELSE 0
  <2>7. d \in Nat /\ c \in Nat
    OBVIOUS
  <2>8. ref[k] = c + HeldHandles(k) + Cardinality(StaticHandles(k)) + Cardinality(CallHandles(k))
    BY <2>1 DEF Exact
  <2> HIDE DEF d
  <2>9. ref[k] = c + HeldHandles(k) + Cardinality(StaticHandles(k)') + Cardinality(CallHandles(k)')
    <3> HIDE DEF c
    <3>1. /\ Cardinality(StaticHandles(k)) = Cardinality(StaticHandles(k)') + d
          /\ Cardinality(CallHandles(k)') = Cardinality(CallHandles(k)) + d
      BY <2>3, <2>4 DEF d
    <3> QED BY <2>5, <2>6, <2>7, <2>8, <3>1
  <2> QED BY <1>2, <2>2, <2>9 DEF Exact, Live
<1> QED BY <1>11, <1>12, <1>13, CallKeeps DEF OInv

-----------------------------------------------------------------------------
(* Returns.                                                                    *)

LEMMA ReturnFrames ==
  ASSUME IInv, NEW t \in Threads, ~Idle(t), NEW l, Return(t, l), NEW n, n = Len(stack[t])
  PROVE  /\ n \in Nat /\ n >= 1 /\ <<t, n>> = TopAt(t)
         /\ Frames' = Frames \ {<<t, n>>}
         /\ \A f \in Frames' : f # <<t, n - 1>> => FrameOf(f)' = FrameOf(f)
         /\ n > 1 => /\ <<t, n - 1>> \in Frames /\ <<t, n - 1>> \in Frames'
                     /\ FrameOf(<<t, n - 1>>) = Caller(t)
                     /\ FrameOf(<<t, n - 1>>)' = Resumed(Caller(t), l)
         /\ <<t, n - 1>> \in Frames' => n > 1
         /\ Len(stack'[t]) = n - 1 /\ \A u \in Threads : u # t => Len(stack'[u]) = Len(stack[u])
         /\ \A u \in Threads : Idle(u)' <=> Idle(u) \/ (u = t /\ n = 1)
<1>1. stack \in [Threads -> Seq(Frame)]
  BY DEF IInv, TypeOK
<1>2. n \in Nat /\ stack[t] \in Seq(Frame) /\ n # 0 /\ DOMAIN stack[t] = 1 .. n
  BY <1>1, FramesAre
<1>3. n >= 1 /\ <<t, n>> = TopAt(t)
  BY <1>2 DEF TopAt
<1>4. \A u \in Threads : u # t => stack'[u] = stack[u]
  BY <1>1 DEF Return
<1>5. /\ DOMAIN stack'[t] = 1 .. n - 1 /\ Len(stack'[t]) = n - 1
      /\ \A i \in 1 .. n - 1 : i # n - 1 => stack'[t][i] = stack[t][i]
      /\ n > 1 => stack'[t][n - 1] = Resumed(Caller(t), l)
      /\ stack'[t] = <<>> <=> n = 1
  <2>1. CASE n = 1
    <3>1. stack'[t] = <<>>
      BY <1>1, <2>1 DEF Return
    <3> QED BY <2>1, <3>1
  <2>2. CASE n # 1
    <3>1. n > 1
      <4>1. \A m \in Nat : m # 0 /\ m # 1 => m > 1
        OBVIOUS
      <4> QED BY <1>2, <2>2, <4>1
    <3> DEFINE r == Resumed(Caller(t), l)
               s == SubSeq(stack[t], 1, n - 1)
    <3>2. stack'[t] = [s EXCEPT ![n - 1] = r]
      BY <1>1, <2>2 DEF Return, Pop
    <3> HIDE DEF r
    <3>3. s \in Seq(Frame) /\ Len(s) = n - 1 /\ \A i \in 1 .. n - 1 : s[i] = stack[t][i]
      BY <1>2, <3>1
    <3> HIDE DEF s
    <3>4. DOMAIN s = 1 .. n - 1 /\ n - 1 \in 1 .. n - 1
      BY <1>2, <3>1, <3>3
    <3>5. stack'[t] = [i \in 1 .. n - 1 |-> IF i = n - 1 THEN r ELSE s[i]]
      BY <3>2, <3>4
    <3>6. stack'[t] \in Seq(Frame \cup {r})
      BY <1>2, <3>1, <3>3, <3>4, <3>5
    <3>7. DOMAIN stack'[t] = 1 .. n - 1
      BY <3>5
    <3>8. Len(stack'[t]) = n - 1
      BY <1>2, <3>6, <3>7
    <3>9. stack'[t][n - 1] = r
      BY <3>4, <3>5
    <3>9a. stack'[t] # <<>>
      <4>1. n - 1 # 0
        BY <1>2, <2>2
      <4> QED BY <3>8, <4>1
    <3>10. \A i \in 1 .. n - 1 : i # n - 1 => stack'[t][i] = stack[t][i]
      BY <3>3, <3>5
    <3> QED BY <2>2, <3>7, <3>8, <3>9, <3>9a, <3>10 DEF r
  <2> QED BY <2>1, <2>2
<1>6. \A y : y \in Frames' <=> y \in Frames /\ y # <<t, n>>
  <2>1. \A y : y \in Frames <=> \E u \in Threads : \E i \in DOMAIN stack[u] : y = <<u, i>>
    BY DEF Frames
  <2>2. \A y : y \in Frames' <=> \E u \in Threads : \E i \in DOMAIN stack'[u] : y = <<u, i>>
    BY DEF Frames
  <2>3. \A u \in Threads : \A i : i \in DOMAIN stack'[u] <=> i \in DOMAIN stack[u] /\ ~(u = t /\ i = n)
    <3> SUFFICES ASSUME NEW u \in Threads, NEW i
                 PROVE  i \in DOMAIN stack'[u] <=> i \in DOMAIN stack[u] /\ ~(u = t /\ i = n)
      OBVIOUS
    <3>1. CASE u = t
      <4>1. i \in 1 .. n - 1 <=> i \in 1 .. n /\ i # n
        BY <1>2
      <4> QED BY <1>2, <1>5, <3>1, <4>1
    <3>2. CASE u # t
      BY <1>4, <3>2
    <3> QED BY <3>1, <3>2
  <2> QED BY <2>1, <2>2, <2>3
<1>7. ASSUME NEW f \in Frames', f # <<t, n - 1>> PROVE FrameOf(f)' = FrameOf(f)
  <2>1. f \in Frames /\ f # <<t, n>>
    BY <1>6, <1>7
  <2>2. f = <<f[1], f[2]>> /\ f[1] \in Threads /\ f[2] \in 1 .. Len(stack[f[1]])
    BY <2>1, FramesAre
  <2>3. CASE f[1] = t
    <3>1. f[2] # n /\ f[2] # n - 1 /\ f[2] \in 1 .. n
      BY <1>7, <2>1, <2>2, <2>3
    <3>2. f[2] \in 1 .. n - 1
      BY <1>2, <3>1
    <3> QED BY <1>5, <2>3, <3>1, <3>2 DEF FrameOf
  <2>4. CASE f[1] # t
    BY <1>4, <2>2, <2>4 DEF FrameOf
  <2> QED BY <2>3, <2>4
<1>8. ASSUME n > 1
      PROVE  /\ <<t, n - 1>> \in Frames /\ <<t, n - 1>> \in Frames'
             /\ FrameOf(<<t, n - 1>>) = Caller(t)
             /\ FrameOf(<<t, n - 1>>)' = Resumed(Caller(t), l)
  <2>1. n - 1 \in 1 .. n /\ n - 1 # n
    BY <1>2, <1>8
  <2>2. <<t, n - 1>> \in Frames
    BY <2>1, FramesAre
  <2>3. <<t, n - 1>> \in Frames'
    BY <1>6, <2>1, <2>2
  <2> QED BY <1>5, <1>8, <2>2, <2>3 DEF FrameOf, Caller
<1>9. ASSUME <<t, n - 1>> \in Frames' PROVE n > 1
  <2>1. <<t, n - 1>> \in Frames
    BY <1>6, <1>9
  <2>2. n - 1 \in 1 .. n
    BY <2>1, FramesAre
  <2> QED BY <1>2, <2>2
<1>10. \A u \in Threads : Idle(u)' <=> Idle(u) \/ (u = t /\ n = 1)
  BY <1>2, <1>4, <1>5 DEF Idle
<1>11. Frames' = Frames \ {<<t, n>>}
  BY <1>6
<1>12. \A u \in Threads : u # t => Len(stack'[u]) = Len(stack[u])
  BY <1>4
<1> QED BY <1>2, <1>3, <1>5, <1>7, <1>8, <1>9, <1>10, <1>11, <1>12

\* Loops load or free a library.
LEMMA LoopsWork ==
  ASSUME OInv, NEW h \in Frames, FrameOf(h).at \in Loops
  PROVE  Works(FrameOf(h))
BY DEF OInv, FramesGood, Good, CachedAt, Works, Doomed, Loading, Deletions, Loops

\* The caller of a nested call.
LEMMA CallerIs ==
  ASSUME OInv, NEW t \in Threads, ~Idle(t), NEW n, n = Len(stack[t]), n > 1,
         NEW e, e = <<t, n - 1>>, NEW c, c = FrameOf(e)
  PROVE  /\ e \in Frames /\ c = Caller(t) /\ e # TopAt(t) /\ e[1] = t /\ Above(e) = TopAt(t)
         /\ c.at \in Loops /\ Works(c) /\ Good(c) /\ c \in Frame
         /\ c.path \in Paths /\ c.lib \in Libs /\ c.next \in Elements(c.path)
         /\ c.next \in Nat /\ c.last \in Nat /\ c.next <= c.last
         /\ Live(c.lib) /\ library[c.lib].path = c.path
         /\ DOMAIN statics[c.path] = Elements(c.path)
         /\ statics[c.path] \in [Elements(c.path) -> Libs \cup {NoLib}]
<1>1. n \in Nat
  BY FramesAre DEF OInv
<1>2. n - 1 \in 1 .. n /\ n - 1 # n /\ n - 1 < n
  BY <1>1
<1>3. e \in Frames /\ e[1] = t /\ e # TopAt(t)
  BY <1>2, FramesAre DEF OInv, TopAt
<1>4. Above(e) = TopAt(t)
  BY <1>1 DEF Above, TopAt
<1>5. c = Caller(t)
  BY DEF FrameOf, Caller
<1>6. c.at \in Loops /\ Calling(c)
  BY <1>3, BelowTop DEF OInv
<1>7. Works(c) /\ Good(c)
  BY <1>3, <1>6, LoopsWork DEF OInv, FramesGood
<1>8. FrameOK(c) /\ c.path \in Paths /\ c.next \in Nat /\ c.last \in Nat
  BY <1>3, FrameTyped DEF OInv
<1>9. c.lib \in Libs /\ c \in Frame /\ c.next >= 1 /\ c.last <= Len(Requires[c.path])
  BY <1>6, <1>8 DEF FrameOK, Loops, NoLibraryYet
<1>10. Requires[c.path] \in Seq(Paths)
  BY <1>8, RequiresAssumption
<1>11. Len(Requires[c.path]) \in Nat /\ DOMAIN Requires[c.path] = Elements(c.path)
  BY <1>10 DEF Elements
<1>12. c.next \in Elements(c.path)
  BY <1>6, <1>8, <1>9, <1>11 DEF Calling, Elements
<1>13. statics[c.path] \in [DOMAIN Requires[c.path] -> Libs \cup {NoLib}]
  BY <1>8 DEF OInv, IInv, TypeOK
<1>14. Live(c.lib) /\ library[c.lib].path = c.path
  BY <1>7, <1>9, LibsAssumption DEF Good, LiveAt
<1> QED BY <1>3, <1>4, <1>5, <1>6, <1>7, <1>8, <1>9, <1>11, <1>12, <1>13, <1>14 DEF Calling

\* The frame a caller resumes in.
LEMMA ResumedIs ==
  ASSUME NEW c, c \in Frame, c.at \in Loops, NEW l
  PROVE  /\ Resumed(c, l).path = c.path /\ Resumed(c, l).lib = c.lib
         /\ Resumed(c, l).at \in Loops
         /\ c.at # "register" \/ l # NoLib =>
              /\ Resumed(c, l).at = c.at /\ Resumed(c, l).next = c.next + 1
              /\ Resumed(c, l).last = c.last
         /\ c.at = "register" /\ l = NoLib =>
              /\ Resumed(c, l).at = "unregister" /\ Resumed(c, l).next = 1
              /\ Resumed(c, l).last = c.next - 1
<1>1. CASE c.at = "register" /\ l = NoLib
  BY <1>1 DEF Resumed, Frame, Loops
<1>2. CASE ~(c.at = "register" /\ l = NoLib)
  BY <1>2 DEF Resumed, Frame, Loops
<1> QED BY <1>1, <1>2

\* Only the frame that returns owned a reference.
LEMMA ReturnCalls ==
  ASSUME OInv, IInv', NEW t \in Threads, ~Idle(t), NEW l, Return(t, l), NEW k \in Libs,
         library'[k].inManager = library[k].inManager
  PROVE  Cardinality(CallHandles(k)') = Cardinality(CallHandles(k)) - One(Owns(Top(t), k))
<1>0. PICK n : n = Len(stack[t])
  OBVIOUS
<1>1. /\ n \in Nat /\ <<t, n>> = TopAt(t)
      /\ Frames' = Frames \ {<<t, n>>}
      /\ \A f \in Frames' : f # <<t, n - 1>> => FrameOf(f)' = FrameOf(f)
      /\ n > 1 => FrameOf(<<t, n - 1>>)' = Resumed(Caller(t), l)
      /\ <<t, n - 1>> \in Frames' => n > 1
  BY <1>0, ReturnFrames DEF OInv
<1>2. TopAt(t) \in Frames /\ FrameOf(TopAt(t)) = Top(t)
  BY TopIsFrame DEF OInv
<1>3. CallHandles(k) = {f \in Frames : Owns(FrameOf(f), k)}
  BY DEF CallHandles, Owns
<1>4. CallHandles(k)' = {f \in Frames' : Owns(FrameOf(f), k)'}
  BY DEF CallHandles, Owns
<1>5. \A f \in Frames' : Owns(FrameOf(f), k)' <=> Owns(FrameOf(f), k)
  <2> SUFFICES ASSUME NEW f \in Frames' PROVE Owns(FrameOf(f), k)' <=> Owns(FrameOf(f), k)
    OBVIOUS
  <2>1. CASE f # <<t, n - 1>>
    BY <1>1, <2>1 DEF Owns
  <2>2. CASE f = <<t, n - 1>>
    <3>1. PICK c : c = FrameOf(f)
      OBVIOUS
    <3>2. n > 1 /\ c = Caller(t) /\ c.at \in Loops /\ c \in Frame
      BY <1>0, <1>1, <2>2, <3>1, CallerIs
    <3>3. FrameOf(f)'.at \in Loops
      BY <1>1, <2>2, <3>2, ResumedIs
    <3> QED BY <3>1, <3>2, <3>3 DEF Owns, Loops
  <2> QED BY <2>1, <2>2
<1>6. HandlesCounted /\ HandlesCounted'
  BY CountsHandles, PTL DEF OInv
<1> DEFINE A == CallHandles(k)
           B == CallHandles(k)'
           x == TopAt(t)
<1>7. IsFiniteSet(A) /\ IsFiniteSet(B)
  BY <1>6 DEF HandlesCounted
<1>8. x \notin B /\ (x \in A <=> Owns(Top(t), k)) /\ \A y : y # x => (y \in A <=> y \in B)
  BY <1>1, <1>2, <1>3, <1>4, <1>5
<1>9. Cardinality(A) \in Nat
  BY <1>7, FS_CardinalityType
<1> HIDE DEF A, B, x
<1>10. Cardinality(B) = Cardinality(A) + One(x \in B) - One(x \in A)
  BY <1>7, <1>8, DifferInOne
<1>11. Cardinality(B) = Cardinality(A) - One(Owns(Top(t), k))
  BY <1>8, <1>9, <1>10 DEF One
<1> QED BY <1>11 DEF A, B

\* The static pointer whose deletion returns is not in deletion any more.
Deleted(t, y) ==
  /\ Len(stack[t]) > 1 /\ Caller(t).at \in {"at_exit", "unregister"}
  /\ y = <<Caller(t).path, Caller(t).next>>

LEMMA ReturnDeletions ==
  ASSUME OInv, IInv', NEW t \in Threads, ~Idle(t), NEW l, Return(t, l)
  PROVE  \A y : y \in InDeletion' <=> y \in InDeletion /\ ~Deleted(t, y)
<1>0. PICK n, e, c : n = Len(stack[t]) /\ e = <<t, n - 1>> /\ c = FrameOf(e)
  OBVIOUS
<1>1. /\ n \in Nat /\ n >= 1 /\ <<t, n>> = TopAt(t)
      /\ Frames' = Frames \ {<<t, n>>}
      /\ \A f \in Frames' : f # e => FrameOf(f)' = FrameOf(f)
      /\ e \in Frames' => n > 1
      /\ Len(stack'[t]) = n - 1 /\ \A u \in Threads : u # t => Len(stack'[u]) = Len(stack[u])
  BY <1>0, ReturnFrames DEF OInv
<1>2. \A f \in Frames : /\ f = <<f[1], f[2]>> /\ f[1] \in Threads /\ f[2] \in Nat
                        /\ Len(stack[f[1]]) \in Nat /\ f[2] <= Len(stack[f[1]])
  BY FramesAre DEF OInv
<1>3. n > 1 => e \in Frames /\ c = Caller(t) /\ Works(c) /\ e[1] = t /\ e[2] = n - 1
  BY <1>0, CallerIs
<1>4. \A y : y \in InDeletion' <=>
        \E f \in Frames' : /\ f[2] < Len(stack'[f[1]])
                           /\ FrameOf(f)'.at \in {"at_exit", "unregister"}
                           /\ y = <<FrameOf(f)'.path, FrameOf(f)'.next>>
  BY DEF InDeletion
<1>5. ASSUME NEW f \in Frames', f[2] < Len(stack'[f[1]])
      PROVE  f \in Frames /\ f # e /\ f[2] < Len(stack[f[1]]) /\ FrameOf(f)' = FrameOf(f)
  <2>1. f \in Frames
    BY <1>1
  <2>2. CASE f[1] = t
    <3>1. f[2] < n - 1 /\ n = Len(stack[f[1]])
      BY <1>0, <1>1, <1>5, <2>2
    <3>2. f # e
      BY <1>0, <3>1
    <3> QED BY <1>1, <1>2, <2>1, <3>1, <3>2
  <2>3. CASE f[1] # t
    <3>1. f # e /\ f[2] < Len(stack[f[1]])
      BY <1>0, <1>1, <1>2, <1>5, <2>1, <2>3
    <3> QED BY <1>1, <2>1, <3>1
  <2> QED BY <2>2, <2>3
<1>6. \A h \in Frames : FrameOf(h).at \in {"at_exit", "unregister"} => Works(FrameOf(h))
  BY LoopsWork DEF Loops
<1>7. ASSUME NEW y, y \in InDeletion' PROVE y \in InDeletion /\ ~Deleted(t, y)
  <2>1. PICK f \in Frames' : /\ f[2] < Len(stack'[f[1]])
                             /\ FrameOf(f)'.at \in {"at_exit", "unregister"}
                             /\ y = <<FrameOf(f)'.path, FrameOf(f)'.next>>
    BY <1>4, <1>7
  <2>2. /\ f \in Frames /\ f # e /\ f[2] < Len(stack[f[1]]) /\ FrameOf(f)' = FrameOf(f)
        /\ Works(FrameOf(f))
    BY <1>5, <1>6, <2>1
  <2>3. y \in InDeletion
    BY <2>1, <2>2, InDeletionIs
  <2>4. ASSUME Deleted(t, y) PROVE FALSE
    <3>1. n > 1 /\ FrameOf(f).path = c.path
      BY <1>0, <1>3, <2>1, <2>2, <2>4 DEF Deleted
    <3> QED BY <1>0, <1>3, <2>2, <3>1 DEF OInv, Distinct
  <2> QED BY <2>3, <2>4
<1>8. ASSUME NEW y, y \in InDeletion, ~Deleted(t, y) PROVE y \in InDeletion'
  <2>1. PICK f \in Frames : /\ f[2] < Len(stack[f[1]])
                            /\ FrameOf(f).at \in {"at_exit", "unregister"}
                            /\ y = <<FrameOf(f).path, FrameOf(f).next>>
    BY <1>8, InDeletionIs
  <2>2. f # e
    <3> SUFFICES ASSUME f = e PROVE FALSE
      OBVIOUS
    <3>0. f[1] = t /\ f[2] = n - 1
      BY <1>0
    <3>1. n - 1 \in 1 .. Len(stack[t]) /\ Len(stack[t]) \in Nat
      BY <2>1, <3>0, FramesAre DEF OInv
    <3>2. n > 1
      BY <1>1, <3>1
    <3> QED BY <1>0, <1>3, <1>8, <2>1, <3>2 DEF Deleted
  <2>3. f # <<t, n>>
    BY <1>0, <1>1, <2>1
  <2>4. f \in Frames' /\ FrameOf(f)' = FrameOf(f)
    BY <1>1, <2>2, <2>3
  <2>5. f[2] < Len(stack'[f[1]])
    <3>1. CASE f[1] = t
      <4>1. f[2] # n - 1
        BY <1>0, <1>2, <2>2, <3>1
      <4> QED BY <1>0, <1>1, <1>2, <2>1, <3>1, <4>1
    <3>2. CASE f[1] # t
      BY <1>1, <1>2, <2>1, <3>2
    <3> QED BY <3>1, <3>2
  <2> QED BY <1>4, <2>1, <2>4, <2>5
<1> QED BY <1>7, <1>8

\* What a return assigns.
LEMMA ReturnAssigns ==
  ASSUME OInv, NEW t \in Threads, ~Idle(t), NEW l \in Libs \cup {NoLib}, Return(t, l),
         NEW c, c = Caller(t)
  PROVE  /\ Len(stack[t]) \in Nat /\ Len(stack[t]) >= 1
         /\ Len(stack[t]) = 1 => /\ statics' = statics
                                 /\ l = NoLib => held' = held
                                 /\ l # NoLib => held' = [held EXCEPT ![t][l] = @ + 1]
         /\ Len(stack[t]) > 1 =>
              /\ held' = held
              /\ statics'[c.path][c.next] = l
              /\ \A p \in Paths : \A i \in Elements(p) :
                   p # c.path \/ i # c.next => statics'[p][i] = statics[p][i]
<1>1. Len(stack[t]) \in Nat /\ Len(stack[t]) >= 1
  <2>1. Len(stack[t]) \in Nat /\ Len(stack[t]) # 0
    BY FramesAre DEF OInv
  <2> QED BY <2>1
<1>2. CASE Len(stack[t]) = 1
  BY <1>1, <1>2 DEF Return
<1>3. CASE Len(stack[t]) # 1
  <2>1. PICK n, e : n = Len(stack[t]) /\ e = <<t, n - 1>>
    OBVIOUS
  <2>2. n > 1
    <3>1. \A m \in Nat : m >= 1 /\ m # 1 => m > 1
      OBVIOUS
    <3> QED BY <1>1, <1>3, <2>1, <3>1
  <2>3. FrameOf(e) = c
    BY <2>1 DEF FrameOf, Caller
  <2>4. /\ c.path \in Paths /\ c.next \in Elements(c.path)
        /\ DOMAIN statics[c.path] = Elements(c.path)
    BY <2>1, <2>2, <2>3, CallerIs
  <2>5. DOMAIN statics = Paths
    BY DEF OInv, IInv, TypeOK
  <2>6. held' = held /\ statics' = [statics EXCEPT ![c.path][c.next] = l]
    BY <1>3 DEF Return
  <2> QED BY <1>1, <1>3, <2>4, <2>5, <2>6
<1> QED BY <1>1, <1>2, <1>3

\* A load never returns to a loop that deletes, and a deletion to one that loads only
\* when that load has failed.
LEMMA CallerAt ==
  ASSUME OInv, Orderly, NEW t \in Threads, ~Idle(t), Len(stack[t]) > 1
  PROVE  /\ Top(t).at \notin Deletions => Caller(t).at = "register"
         /\ Top(t).at \in Deletions /\ Caller(t).at = "register" => Discipline = "serial"
<1>1. PICK n, e, c : n = Len(stack[t]) /\ e = <<t, n - 1>> /\ c = FrameOf(e)
  OBVIOUS
<1>0. n > 1
  BY <1>1
<1>2. e \in Frames /\ c = Caller(t) /\ c.at \in Loops
  BY <1>1, CallerIs
<1>3. TopAt(t) \in Frames /\ FrameOf(TopAt(t)) = Top(t) /\ TopAt(t) = <<t, n>> /\ n \in Nat
  BY <1>1, TopIsFrame, FramesAre DEF OInv, TopAt
<1>4. /\ TopAt(t)[1] = t /\ TopAt(t)[2] = n /\ e[1] = t /\ e[2] = n - 1
      /\ TopAt(t)[1] = e[1] /\ TopAt(t)[2] > e[2] /\ n # 1
  <2>1. \A m \in Nat : m > m - 1 /\ (m > 1 => m # 1)
    OBVIOUS
  <2>2. TopAt(t)[1] = t /\ TopAt(t)[2] = n /\ e[1] = t /\ e[2] = n - 1
    BY <1>1, <1>3
  <2> QED BY <1>0, <1>3, <2>1, <2>2
<1>5. Top(t).at \notin Deletions => c.at = "register"
  BY <1>1, <1>2, <1>3, <1>4 DEF OInv, Shape, Loops
<1>6. ASSUME Top(t).at \in Deletions, c.at = "register", Discipline # "serial" PROVE FALSE
  <2>1. Discipline = "kept"
    BY <1>3, <1>6 DEF Orderly, OInv, Alone
  <2>2. ~Guarded(TopAt(t))
    BY <1>1, <1>4 DEF Guarded
  <2>3. t = Keeper /\ Final
    BY <1>3, <1>6, <2>1, <2>2 DEF OInv, Alone
  <2>4. PICK f : f = <<t, 1>>
    OBVIOUS
  <2>5. f \in Frames
    <3>1. 1 \in 1 .. n
      BY <1>1, <1>3
    <3> QED BY <1>1, <2>4, <3>1, FramesAre DEF OInv
  <2>6. FrameOf(f).at \in Deletions
    BY <2>3, <2>4 DEF Final, Deleting, Deletions, FrameOf
  <2>7. f # e
    BY <1>1, <1>6, <2>6 DEF Deletions
  <2>8. f # TopAt(t) /\ f[1] = t /\ f[2] = 1
    BY <1>4, <2>4
  <2>9. FrameOf(f).at = "at_exit"
    BY <2>5, <2>6, <2>8, BelowTop DEF OInv, Loops, Deletions
  <2>10. e[1] = f[1] /\ e[2] > f[2]
    <3>1. n - 1 # 1
      BY <1>1, <2>4, <2>7
    <3>2. \A m \in Nat : m > 1 /\ m - 1 # 1 => m - 1 > 1
      OBVIOUS
    <3> QED BY <1>1, <1>3, <1>4, <2>8, <3>1, <3>2
  <2>11. c.at \in Deletions
    BY <1>1, <1>2, <2>5, <2>9, <2>10 DEF OInv, Shape
  <2> QED BY <1>6, <2>11 DEF Deletions
<1> QED BY <1>2, <1>5, <1>6

\* What a return, with a library or without, finds.
Returns(t, l) ==
  /\ t \in Threads /\ l \in Libs \cup {NoLib}
  /\ ~Idle(t) /\ Return(t, l) /\ UNCHANGED <<initialized, owner, cache, ref>>
  /\ l = NoLib => Top(t).at \in Deletions \/ (Top(t).at = "lookup" /\ Discipline = "serial")
  /\ l # NoLib => Top(t).at \in {"spin", "set_ready"} /\ Top(t).lib = l
  /\ \A h \in Frames : \A x : h # TopAt(t) /\ x = FrameOf(h) =>
       /\ LiveAt(x)' /\ FlagsAt(x)'
       /\ x.lib \in Libs => library'[x.lib].dso = library[x.lib].dso

\* The frames that remain are as good as before.
LEMMA ReturnGood ==
  ASSUME OInv, IInv', Orderly, NEW t, NEW l, Returns(t, l)
  PROVE  FramesGood'
<1>0. PICK n, e, c, g : n = Len(stack[t]) /\ e = <<t, n - 1>> /\ c = FrameOf(e) /\ g = Resumed(c, l)
  OBVIOUS
<1>1. /\ t \in Threads /\ l \in Libs \cup {NoLib} /\ ~Idle(t) /\ Return(t, l)
      /\ UNCHANGED <<initialized, owner, cache, ref>>
      /\ l = NoLib => Top(t).at \in Deletions \/ (Top(t).at = "lookup" /\ Discipline = "serial")
      /\ l # NoLib => Top(t).at \in {"spin", "set_ready"} /\ Top(t).lib = l
  BY DEF Returns
<1>2. /\ n \in Nat /\ n >= 1 /\ <<t, n>> = TopAt(t)
      /\ Frames' = Frames \ {<<t, n>>}
      /\ \A f \in Frames' : f # e => FrameOf(f)' = FrameOf(f)
      /\ e \in Frames' => n > 1 /\ FrameOf(e)' = g
      /\ n > 1 => c = Caller(t)
  BY <1>0, <1>1, ReturnFrames DEF OInv
<1>3. n > 1 => /\ e \in Frames /\ c = Caller(t) /\ c.at \in Loops /\ Works(c) /\ Good(c)
               /\ c.path \in Paths /\ c.next \in Elements(c.path) /\ c \in Frame
               /\ c.next \in Nat /\ c.lib \in Libs
  BY <1>0, <1>1, CallerIs
<1>4. n = 1 => statics' = statics
  BY <1>0, <1>1, ReturnAssigns
<1>5. n > 1 => /\ statics'[c.path][c.next] = l
               /\ \A p \in Paths : \A i \in Elements(p) :
                    p # c.path \/ i # c.next => statics'[p][i] = statics[p][i]
  BY <1>0, <1>1, <1>3, ReturnAssigns
<1>6. \A p \in Paths : \A i \in Elements(p) : Unset(p, i) =>
        Unset(p, i)' \/ (n > 1 /\ l # NoLib /\ p = c.path /\ i = c.next)
  <2>1. CASE n = 1
    BY <1>4, <2>1 DEF Unset
  <2>2. CASE n # 1
    <3>1. n > 1
      BY <1>2, <2>2
    <3> QED BY <1>5, <3>1 DEF Unset
  <2> QED BY <2>1, <2>2
<1>7. ASSUME NEW f \in Frames', NEW x, x = FrameOf(f)
      PROVE  /\ f \in Frames /\ Good(x) /\ x.path \in Paths
             /\ LiveAt(x)' /\ FlagsAt(x)' /\ CachedAt(x)' /\ RefAt(x)'
             /\ Doomed(x)' <=> Doomed(x)
             /\ Doomed(x) => library'[x.lib].dso = library[x.lib].dso
  <2>1. f \in Frames /\ f # TopAt(t)
    BY <1>2
  <2>2. LiveAt(x)' /\ FlagsAt(x)' /\ (x.lib \in Libs => library'[x.lib].dso = library[x.lib].dso)
    BY <1>7, <2>1 DEF Returns
  <2>3. Good(x) /\ x.path \in Paths /\ (Doomed(x) => x.lib \in Libs)
    BY <1>7, <2>1, FrameTyped DEF OInv, FramesGood, FrameOK, NoLibraryYet, Deletions, Doomed
  <2>4. CachedAt(x)' /\ RefAt(x)' /\ (Doomed(x)' <=> Doomed(x))
    BY <1>1, <2>3 DEF Good, CachedAt, RefAt, Doomed
  <2> QED BY <2>1, <2>2, <2>3, <2>4
<1>8. ASSUME NEW f \in Frames', NEW x, x = FrameOf(f), f # e PROVE Good(x)'
  <2>1. CASE n > 1 /\ l # NoLib /\ x.path = c.path
    <3>1. ~Works(x)
      BY <1>0, <1>3, <1>7, <1>8, <2>1 DEF OInv, Distinct
    <3>2. StaticsAt(x)'
      BY <1>7, <1>8, <3>1 DEF StaticsAt, Works, Loading, Good, CachedAt, Doomed, Deletions
    <3> QED BY <1>7, <1>8, <3>2 DEF Good
  <2>2. CASE ~(n > 1 /\ l # NoLib /\ x.path = c.path)
    <3>1. \A i \in Elements(x.path) : Unset(x.path, i) => Unset(x.path, i)'
      BY <1>6, <1>7, <1>8, <2>2
    <3>2. StaticsAt(x)'
      BY <1>7, <1>8, <3>1 DEF StaticsAt, Good
    <3> QED BY <1>7, <1>8, <3>2 DEF Good
  <2> QED BY <2>1, <2>2
<1>9. ASSUME e \in Frames' PROVE Good(g)'
  <2>1. /\ n > 1 /\ e \in Frames /\ c = Caller(t) /\ c.at \in Loops /\ Works(c) /\ Good(c)
        /\ c.path \in Paths /\ c.next \in Elements(c.path) /\ c \in Frame /\ c.next \in Nat
    BY <1>2, <1>3, <1>9
  <2>2. LiveAt(c)' /\ FlagsAt(c)' /\ CachedAt(c)' /\ RefAt(c)'
    BY <1>0, <1>7, <1>9
  <2>3. g.path = c.path /\ g.lib = c.lib
    BY <1>0, <2>1, ResumedIs
  <2>4. statics'[c.path][c.next] = l
        /\ \A i \in Elements(c.path) : Unset(c.path, i) => Unset(c.path, i)' \/ (l # NoLib /\ i = c.next)
    BY <1>5, <1>6, <2>1
  <2>5. CASE c.at = "register" /\ l # NoLib
    <3>1. g.at = "register" /\ g.next = c.next + 1 /\ g.last = c.last
      BY <1>0, <2>1, <2>5, ResumedIs
    <3>2. \A i \in Elements(c.path) : i >= c.next + 1 => Unset(c.path, i)'
      <4> SUFFICES ASSUME NEW i \in Elements(c.path), i >= c.next + 1 PROVE Unset(c.path, i)'
        OBVIOUS
      <4>1. i >= c.next /\ i # c.next
        BY <2>1 DEF Elements
      <4>2. Unset(c.path, i)
        BY <2>1, <2>5, <4>1 DEF Good, StaticsAt
      <4> QED BY <2>4, <4>1, <4>2
    <3>3. c.last = Len(Requires[c.path])
      BY <2>1, <2>5 DEF Good, StaticsAt
    <3>4. StaticsAt(g)'
      BY <2>3, <3>1, <3>2, <3>3 DEF StaticsAt, Doomed, Deletions
    <3> QED BY <2>2, <2>3, <2>5, <3>1, <3>4
            DEF Good, LiveAt, CachedAt, FlagsAt, RefAt, Doomed, Deletions, Loading
  <2>6. CASE c.at = "register" /\ l = NoLib
    <3>1. g.at = "unregister" /\ g.next = 1 /\ g.last = c.next - 1
      BY <1>0, <2>1, <2>6, ResumedIs
    <3>2. \A i \in Elements(c.path) : i < 1 \/ i > c.next - 1 => Unset(c.path, i)'
      <4> SUFFICES ASSUME NEW i \in Elements(c.path), i < 1 \/ i > c.next - 1 PROVE Unset(c.path, i)'
        OBVIOUS
      <4>1. i >= c.next
        BY <2>1 DEF Elements
      <4>2. Unset(c.path, i)
        BY <2>1, <2>6, <4>1 DEF Good, StaticsAt
      <4> QED BY <2>4, <2>6, <4>2
    <3>4. StaticsAt(g)'
      BY <2>3, <3>1, <3>2 DEF StaticsAt, Doomed, Deletions
    <3> QED BY <2>2, <2>3, <2>6, <3>1, <3>4
            DEF Good, LiveAt, CachedAt, FlagsAt, RefAt, Doomed, Deletions, Loading
  <2>7. CASE c.at # "register"
    <3>1. g.at = c.at /\ g.next = c.next + 1 /\ g.last = c.last /\ c.at \in {"unregister", "at_exit"}
      BY <1>0, <2>1, <2>7, ResumedIs DEF Loops
    <3>2. l = NoLib
      <4>1. Top(t).at \in Deletions
        BY <1>0, <1>1, <2>1, <2>7, CallerAt
      <4> QED BY <1>1, <4>1 DEF Deletions
    <3>3. \A i \in Elements(c.path) : Unset(c.path, i) => Unset(c.path, i)'
      BY <2>4, <3>2
    <3>4. Unset(c.path, c.next)'
      BY <2>4, <3>2 DEF Unset
    <3>5. \A i \in Elements(c.path) : i < c.next + 1 => i < c.next \/ i = c.next
      BY <2>1 DEF Elements
    <3>6. StaticsAt(c)
      BY <2>1 DEF Good
    <3>7. Doomed(c)' <=> Doomed(c)
      BY <1>1 DEF Doomed
    <3>8. CASE c.at = "unregister"
      <4>1. \A i \in Elements(c.path) : i < c.next + 1 \/ i > c.last => Unset(c.path, i)'
        BY <3>3, <3>4, <3>5, <3>6, <3>8 DEF StaticsAt
      <4>2. StaticsAt(g)'
        BY <2>3, <3>1, <3>8, <4>1 DEF StaticsAt, Doomed, Deletions
      <4> QED BY <2>2, <2>3, <3>1, <3>8, <4>2
              DEF Good, LiveAt, CachedAt, FlagsAt, RefAt, Doomed, Deletions, Loading
    <3>9. CASE c.at = "at_exit"
      <4>1. \A i \in Elements(c.path) : i < c.next + 1 => Unset(c.path, i)'
        BY <3>3, <3>4, <3>5, <3>6, <3>9 DEF StaticsAt
      <4>2. c.last = Len(Requires[c.path])
        BY <3>6, <3>9 DEF StaticsAt
      <4>3. Doomed(g)' /\ ~library'[g.lib].dso => \A i \in Elements(c.path) : Unset(c.path, i)'
        <5>1. Doomed(g)' <=> Doomed(c)'
          BY <2>3, <3>1 DEF Doomed
        <5>2. Doomed(c) => library'[c.lib].dso = library[c.lib].dso
          BY <1>0, <1>7, <1>9
        <5> QED BY <2>3, <3>3, <3>6, <3>7, <5>1, <5>2 DEF StaticsAt
      <4>4. StaticsAt(g)'
        BY <2>3, <3>1, <3>9, <4>1, <4>2, <4>3 DEF StaticsAt
      <4> QED BY <2>2, <2>3, <3>1, <3>9, <4>4
              DEF Good, LiveAt, CachedAt, FlagsAt, RefAt, Doomed, Deletions, Loading
    <3> QED BY <3>1, <3>8, <3>9
  <2> QED BY <2>5, <2>6, <2>7
<1> SUFFICES ASSUME NEW f \in Frames' PROVE Good(FrameOf(f))'
  BY DEF FramesGood
<1>10. PICK x : x = FrameOf(f)
  OBVIOUS
<1>11. CASE f # e
  <2>1. Good(x)' /\ FrameOf(f)' = x
    BY <1>2, <1>8, <1>10, <1>11
  <2> QED BY <2>1 DEF Good, LiveAt, CachedAt, FlagsAt, RefAt, StaticsAt, Doomed, Live, Unset
<1>12. CASE f = e
  <2>1. Good(g)' /\ FrameOf(f)' = g
    BY <1>2, <1>9, <1>12
  <2> QED BY <2>1 DEF Good, LiveAt, CachedAt, FlagsAt, RefAt, StaticsAt, Doomed, Live, Unset
<1> QED BY <1>11, <1>12

LEMMA ReturnShape ==
  ASSUME OInv, IInv', Orderly, NEW t, NEW l, Returns(t, l)
  PROVE  OwnerAt' /\ Distinct' /\ Shape' /\ Closed'
<1>0. PICK n, e, c, g : n = Len(stack[t]) /\ e = <<t, n - 1>> /\ c = FrameOf(e) /\ g = Resumed(c, l)
  OBVIOUS
<1>1. /\ t \in Threads /\ l \in Libs \cup {NoLib} /\ ~Idle(t) /\ Return(t, l)
      /\ UNCHANGED <<initialized, owner, cache, ref>>
      /\ l = NoLib => Top(t).at \in Deletions \/ (Top(t).at = "lookup" /\ Discipline = "serial")
      /\ l # NoLib => Top(t).at \in {"spin", "set_ready"} /\ Top(t).lib = l
  BY DEF Returns
<1>2. /\ n \in Nat /\ n >= 1 /\ <<t, n>> = TopAt(t)
      /\ Frames' = Frames \ {<<t, n>>}
      /\ \A f \in Frames' : f # e => FrameOf(f)' = FrameOf(f)
      /\ e \in Frames' => n > 1 /\ FrameOf(e)' = g
      /\ n > 1 => c = Caller(t)
  BY <1>0, <1>1, ReturnFrames DEF OInv
<1>3. n > 1 => /\ e \in Frames /\ c = Caller(t) /\ c.at \in Loops /\ Works(c) /\ Good(c)
               /\ c.path \in Paths /\ c.next \in Elements(c.path) /\ c \in Frame
               /\ c.lib \in Libs
  BY <1>0, <1>1, CallerIs
<1>4. n > 1 => /\ g.path = c.path /\ g.lib = c.lib /\ g.at \in Loops
               /\ c.at = "register" => g.at \in {"register", "unregister"}
               /\ c.at # "register" => g.at = c.at
  BY <1>0, <1>3, ResumedIs
<1>5. OwnerAt'
  <2> SUFFICES ASSUME NEW f \in Frames', FrameOf(f)'.at \in Critical PROVE owner' = f[1]
    BY DEF OwnerAt
  <2>1. f # e
    BY <1>2, <1>4 DEF Loops, Critical
  <2> QED BY <1>1, <1>2, <2>1 DEF OInv, OwnerAt
<1>6. \A f \in Frames' : /\ f \in Frames /\ FrameOf(f)'.path = FrameOf(f).path
                         /\ FrameOf(f)'.lib = FrameOf(f).lib
                         /\ FrameOf(f)'.at \in {"unregister", "at_exit"} => FrameOf(f).at \in Loops
                         /\ FrameOf(f).at \in Deletions => FrameOf(f)'.at \in Deletions
                         /\ Works(FrameOf(f))' => Works(FrameOf(f))
  <2> SUFFICES ASSUME NEW f \in Frames'
               PROVE  /\ f \in Frames /\ FrameOf(f)'.path = FrameOf(f).path
                      /\ FrameOf(f)'.lib = FrameOf(f).lib
                      /\ FrameOf(f)'.at \in {"unregister", "at_exit"} => FrameOf(f).at \in Loops
                      /\ FrameOf(f).at \in Deletions => FrameOf(f)'.at \in Deletions
                      /\ Works(FrameOf(f))' => Works(FrameOf(f))
    OBVIOUS
  <2>1. CASE f # e
    BY <1>1, <1>2, <2>1 DEF Works, Doomed, Loops
  <2>2. CASE f = e
    BY <1>0, <1>2, <1>3, <1>4, <2>2 DEF Deletions
  <2> QED BY <2>1, <2>2
<1>7. Distinct'
  BY <1>6 DEF OInv, Distinct
<1>8. Closed'
  BY <1>1, Open DEF Closed
<1>9. Shape'
  <2> SUFFICES ASSUME NEW f \in Frames', FrameOf(f)'.at \in {"unregister", "at_exit"}
               PROVE  /\ \A h \in Frames' : h[1] = f[1] /\ h[2] > f[2] => FrameOf(h)'.at \in Deletions
                      /\ Above(f) \in Frames' => FrameOf(Above(f))'.lib =
                           statics'[FrameOf(f)'.path][FrameOf(f)'.next]
    BY DEF Shape, Above
  <2>1. f \in Frames /\ f = <<f[1], f[2]>> /\ f[1] \in Threads /\ f[2] \in 1 .. Len(stack[f[1]])
    BY <1>6, FramesAre DEF OInv
  <2>2. \A h \in Frames' : h \in Frames /\ h # <<t, n>> /\ h = <<h[1], h[2]>> /\ h[2] \in 1 .. Len(stack[h[1]])
    BY <1>2, FramesAre DEF OInv
  <2>3. CASE f = e
    <3>1. ASSUME NEW h \in Frames', h[1] = f[1], h[2] > f[2] PROVE FALSE
      <4>1. h[1] = t /\ h[2] \in 1 .. n /\ h[2] > n - 1 /\ h[2] # n
        BY <1>0, <2>2, <2>3, <3>1
      <4> QED BY <1>2, <4>1
    <3>2. Above(f)[1] = f[1] /\ Above(f)[2] = f[2] + 1
      BY DEF Above
    <3>3. f[2] + 1 > f[2]
      BY <1>0, <1>2, <2>3
    <3> QED BY <3>1, <3>2, <3>3
  <2>4. CASE f # e
    <3>1. FrameOf(f)' = FrameOf(f) /\ FrameOf(f).at \in {"unregister", "at_exit"}
      BY <1>2, <2>4
    <3>2. /\ \A h \in Frames : h[1] = f[1] /\ h[2] > f[2] => FrameOf(h).at \in Deletions
          /\ Above(f) \in Frames =>
               FrameOf(Above(f)).lib = statics[FrameOf(f).path][FrameOf(f).next]
      BY <2>1, <3>1 DEF OInv, Shape
    <3>3. \A h \in Frames' : h[1] = f[1] /\ h[2] > f[2] => FrameOf(h)'.at \in Deletions
      BY <1>6, <3>2
    <3>4. ASSUME Above(f) \in Frames'
          PROVE  FrameOf(Above(f))'.lib = statics'[FrameOf(f).path][FrameOf(f).next]
      <4>1. PICK h : h = Above(f)
        OBVIOUS
      <4>2. h \in Frames' /\ h \in Frames /\ Above(f)' = h
        BY <1>6, <3>4, <4>1 DEF Above
      <4>3. FrameOf(h)'.lib = FrameOf(h).lib
        BY <1>6, <4>2
      <4>4. f # TopAt(t) /\ (f[1] = t => f[2] < n)
        BY <1>0, <1>2, <2>1, <2>2
      <4>5. f # TopAt(f[1])
        <5>1. f[2] + 1 \in 1 .. Len(stack[f[1]])
          BY <4>1, <4>2, FramesAre DEF Above, OInv
        <5>2. f[2] # Len(stack[f[1]])
          BY <2>1, <5>1, FramesAre DEF OInv
        <5> QED BY <5>2 DEF TopAt
      <4>6. PICK p, i : p = FrameOf(f).path /\ i = FrameOf(f).next
        OBVIOUS
      <4>7. p \in Paths /\ i \in Elements(p) /\ Works(FrameOf(f))
        <5>1. /\ FrameOf(f).path \in Paths /\ FrameOf(f).next \in Nat /\ FrameOf(f).last \in Nat
              /\ FrameOK(FrameOf(f)) /\ Calling(FrameOf(f))
          BY <2>1, <4>5, FrameTyped, BelowTop DEF OInv
        <5>2. Requires[p] \in Seq(Paths)
          BY <4>6, <5>1, RequiresAssumption
        <5>3. Len(Requires[p]) \in Nat /\ i >= 1 /\ i <= FrameOf(f).last /\ FrameOf(f).last <= Len(Requires[p])
          BY <4>6, <5>1, <5>2 DEF FrameOK, Calling
        <5>4. i \in Elements(p)
          BY <4>6, <5>1, <5>3 DEF Elements
        <5> QED BY <2>1, <3>1, <4>6, <5>1, <5>4, LoopsWork DEF Loops
      <4>8. statics'[p][i] = statics[p][i]
        <5>1. CASE n = 1
          BY <1>0, <1>1, <5>1, ReturnAssigns
        <5>2. CASE n > 1
          <6>1. p # c.path
            BY <1>0, <1>3, <2>1, <2>4, <4>6, <4>7, <5>2 DEF OInv, Distinct
          <6> QED BY <1>0, <1>1, <1>3, <4>7, <5>2, <6>1, ReturnAssigns
        <5>3. n = 1 \/ n > 1
          BY <1>2
        <5> QED BY <5>1, <5>2, <5>3
      <4> QED BY <3>2, <4>1, <4>2, <4>3, <4>6, <4>8
    <3> QED BY <3>1, <3>3, <3>4
  <2> QED BY <2>3, <2>4
<1> QED BY <1>5, <1>7, <1>8, <1>9

LEMMA ReturnAlone ==
  ASSUME OInv, IInv', Orderly, NEW t, NEW l, Returns(t, l)
  PROVE  Alone'
<1>0. PICK n, e, c, g : n = Len(stack[t]) /\ e = <<t, n - 1>> /\ c = FrameOf(e) /\ g = Resumed(c, l)
  OBVIOUS
<1>1. /\ t \in Threads /\ l \in Libs \cup {NoLib} /\ ~Idle(t) /\ Return(t, l)
      /\ l = NoLib => Top(t).at \in Deletions \/ (Top(t).at = "lookup" /\ Discipline = "serial")
      /\ l # NoLib => Top(t).at \in {"spin", "set_ready"} /\ Top(t).lib = l
  BY DEF Returns
<1>i. IInv
  BY DEF OInv
<1>2. /\ n \in Nat /\ n >= 1 /\ <<t, n>> = TopAt(t)
      /\ Frames' = Frames \ {<<t, n>>}
      /\ \A f \in Frames' : f # e => FrameOf(f)' = FrameOf(f)
      /\ e \in Frames' => n > 1 /\ FrameOf(e)' = g
      /\ n > 1 => c = Caller(t) /\ e \in Frames'
      /\ \A u \in Threads : u # t => Len(stack'[u]) = Len(stack[u])
      /\ \A u \in Threads : Idle(u)' <=> Idle(u) \/ (u = t /\ n = 1)
  <2>0. t \in Threads /\ ~Idle(t) /\ Return(t, l) /\ n = Len(stack[t])
    BY <1>0, <1>1
  <2>1. /\ n \in Nat /\ n >= 1 /\ <<t, n>> = TopAt(t)
        /\ Frames' = Frames \ {<<t, n>>}
        /\ \A f \in Frames' : f # <<t, n - 1>> => FrameOf(f)' = FrameOf(f)
        /\ n > 1 => /\ <<t, n - 1>> \in Frames'
                    /\ FrameOf(<<t, n - 1>>) = Caller(t)
                    /\ FrameOf(<<t, n - 1>>)' = Resumed(Caller(t), l)
        /\ <<t, n - 1>> \in Frames' => n > 1
        /\ \A u \in Threads : u # t => Len(stack'[u]) = Len(stack[u])
        /\ \A u \in Threads : Idle(u)' <=> Idle(u) \/ (u = t /\ n = 1)
    BY <2>0, <1>i, ReturnFrames
  <2> QED BY <1>0, <2>1
<1>3. n > 1 => /\ e \in Frames /\ c = Caller(t) /\ c.at \in Loops /\ c \in Frame
  BY <1>0, <1>1, CallerIs
<1>4. n > 1 => /\ g.path = c.path /\ g.lib = c.lib /\ g.at \in Loops
               /\ c.at = "register" /\ l = NoLib => g.at = "unregister"
               /\ c.at # "register" \/ l # NoLib => g.at = c.at
  BY <1>0, <1>3, ResumedIs
<1>5. n > 1 /\ c.at = "register" /\ l = NoLib => Discipline = "serial"
  BY <1>0, <1>1, <1>2, CallerAt
<1>6. \A f \in Frames' : /\ f \in Frames /\ FrameOf(f)'.lib = FrameOf(f).lib
                         /\ FrameOf(f)'.at = FrameOf(f).at \/ Discipline = "serial"
  <2> SUFFICES ASSUME NEW f \in Frames'
               PROVE  /\ f \in Frames /\ FrameOf(f)'.lib = FrameOf(f).lib
                      /\ FrameOf(f)'.at = FrameOf(f).at \/ Discipline = "serial"
    OBVIOUS
  <2>1. CASE f # e
    BY <1>2, <2>1
  <2>2. CASE f = e
    BY <1>0, <1>2, <1>3, <1>4, <1>5, <2>2
  <2> QED BY <2>1, <2>2
<1>7. Discipline = "serial" => \A u, v \in Threads : ~Idle(u)' /\ ~Idle(v)' => u = v
  BY <1>2 DEF OInv, Alone
<1>8. Discipline # "serial" => \A f \in Frames' : FrameOf(f)'.at \notin Failing
  BY <1>6 DEF OInv, Alone
<1>9. Discipline = "load_only" => \A f \in Frames' : FrameOf(f)'.at \notin Deletions
  BY <1>6 DEF OInv, Alone
<1>10. \A u \in Threads, k \in Libs : /\ held'[u][k] >= held[u][k]
                                      /\ u # t => held'[u][k] = held[u][k]
  <2>1. held \in [Threads -> [Libs -> Nat]]
    BY DEF OInv, IInv, TypeOK
  <2>2. held' = held \/ (l \in Libs /\ held' = [held EXCEPT ![t][l] = @ + 1])
    <3>1. CASE n = 1
      BY <1>0, <1>1, <3>1, ReturnAssigns
    <3>2. CASE n > 1
      BY <1>0, <1>1, <3>2, ReturnAssigns
    <3>3. n = 1 \/ n > 1
      BY <1>2
    <3> QED BY <3>1, <3>2, <3>3
  <2>3. CASE held' = held
    BY <2>1, <2>3
  <2>4. CASE l \in Libs /\ held' = [held EXCEPT ![t][l] = @ + 1]
    BY <1>1, <2>1, <2>4
  <2> QED BY <2>2, <2>3, <2>4
<1>11. ASSUME Discipline = "kept", NEW f \in Frames', FrameOf(f)'.at \in Deletions
       PROVE  (f[1] = Keeper /\ Final') \/ Guarded(f)'
  <2>1. f \in Frames /\ FrameOf(f).at \in Deletions /\ FrameOf(f)'.at = FrameOf(f).at
        /\ FrameOf(f)'.lib = FrameOf(f).lib /\ f # <<t, n>>
    BY <1>2, <1>6, <1>11
  <2>2. (f[1] = Keeper /\ Final) \/ Guarded(f)
    BY <1>11, <2>1 DEF OInv, Alone
  <2>3. CASE f[1] = Keeper /\ Final
    <3>1. Keeper \in Threads /\ t = Keeper /\ ~Idle(Keeper)
      BY <1>1, <2>3, ThreadsAssumption DEF Final
    <3>2. PICK b : b = <<Keeper, 1>>
      OBVIOUS
    <3>3. n > 1
      <4>1. f = <<t, f[2]>> /\ f[2] \in 1 .. n
        BY <1>0, <2>1, <2>3, <3>1, FramesAre DEF OInv
      <4>2. f[2] # n
        BY <2>1, <4>1
      <4> QED BY <1>2, <4>1, <4>2
    <3>4. ~Idle(Keeper)'
      BY <1>2, <3>1, <3>3
    <3>5. b \in Frames' /\ b \in Frames
      <4>1. 1 \in 1 .. n /\ n # 1
        BY <1>2, <3>3
      <4>2. b \in Frames
        BY <1>0, <3>1, <3>2, <4>1, FramesAre DEF OInv
      <4> QED BY <1>2, <3>1, <3>2, <4>1, <4>2
    <3>6. FrameOf(b).at = stack[Keeper][1].at /\ FrameOf(b)'.at = stack'[Keeper][1].at
      BY <3>2 DEF FrameOf
    <3>7. stack'[Keeper][1].at = stack[Keeper][1].at
      BY <1>6, <1>11, <3>5, <3>6
    <3>8. Deleting(Keeper)'
      BY <2>3, <3>4, <3>7 DEF Final, Deleting
    <3>9. \A u \in Threads \ {Keeper} : Idle(u)' /\ \A k \in Libs : held'[u][k] = 0
      BY <1>2, <1>10, <2>3, <3>1 DEF Final
    <3> QED BY <2>3, <3>8, <3>9 DEF Final
  <2>4. CASE Guarded(f)
    <3>1. FrameOf(f).lib \in Libs
      BY <2>1, <2>4, GuardedCounts
    <3>2. f[1] # t
      <4> SUFFICES ASSUME f[1] = t PROVE FALSE
        OBVIOUS
      <4>1. n = 1 /\ f = <<t, f[2]>> /\ f[2] \in 1 .. n
        BY <1>0, <2>1, <2>4, FramesAre DEF OInv, Guarded
      <4>2. f[2] = n
        BY <4>1
      <4> QED BY <2>1, <4>1, <4>2
    <3>3. f[1] \in Threads
      BY <2>1, FramesAre DEF OInv
    <3>4. held'[Keeper][FrameOf(f).lib] > 0
      <4>1. /\ held[Keeper][FrameOf(f).lib] > 0 /\ held[Keeper][FrameOf(f).lib] \in Nat
            /\ held'[Keeper][FrameOf(f).lib] \in Nat
        BY <2>4, <3>1, ThreadsAssumption DEF Guarded, OInv, IInv, TypeOK
      <4>2. held'[Keeper][FrameOf(f).lib] >= held[Keeper][FrameOf(f).lib]
        BY <1>10, <3>1, ThreadsAssumption
      <4> QED BY <4>1, <4>2
    <3> QED BY <1>2, <2>1, <2>4, <3>2, <3>3, <3>4 DEF Guarded
  <2> QED BY <2>2, <2>3, <2>4
<1> QED BY <1>7, <1>8, <1>9, <1>11 DEF Alone

\* Whoever works on a library, or is about to look at its count, still does.
LEMMA ReturnBusy ==
  ASSUME OInv, NEW t, NEW l, Returns(t, l), NEW k
  PROVE  /\ ~(Top(t).lib = k /\ Works(Top(t)) /\ Top(t).at # "uncache") => (Busy(k) => Busy(k)')
         /\ ~(Top(t).lib = k /\ Top(t).at \in {"check", "uncache"}) => (Leaving(k) => Leaving(k)')
<1>0. PICK n, e, c, g : n = Len(stack[t]) /\ e = <<t, n - 1>> /\ c = FrameOf(e) /\ g = Resumed(c, l)
  OBVIOUS
<1>1. t \in Threads /\ l \in Libs \cup {NoLib} /\ ~Idle(t) /\ Return(t, l) /\ cache' = cache
  BY DEF Returns
<1>2. /\ n \in Nat /\ n >= 1 /\ <<t, n>> = TopAt(t)
      /\ Frames' = Frames \ {<<t, n>>}
      /\ \A f \in Frames' : f # e => FrameOf(f)' = FrameOf(f)
      /\ e \in Frames' => n > 1 /\ FrameOf(e)' = g
      /\ n > 1 => c = Caller(t)
  BY <1>0, <1>1, ReturnFrames DEF OInv
<1>3. n > 1 => c.at \in Loops /\ Works(c) /\ c \in Frame
  BY <1>0, <1>1, CallerIs
<1>4. n > 1 => /\ g.path = c.path /\ g.lib = c.lib /\ g.at \in Loops
               /\ c.at = "register" => g.at \in {"register", "unregister"}
               /\ c.at # "register" => g.at = c.at
  BY <1>0, <1>3, ResumedIs
<1>5. FrameOf(TopAt(t)) = Top(t)
  BY <1>1, TopIsFrame DEF OInv
<1>6. ASSUME NEW f \in Frames, f # TopAt(t)
      PROVE  /\ f \in Frames' /\ FrameOf(f)'.lib = FrameOf(f).lib
             /\ Works(FrameOf(f)) => Works(FrameOf(f))'
             /\ FrameOf(f)'.at \in {"check", "uncache"} <=> FrameOf(f).at \in {"check", "uncache"}
             /\ FrameOf(f)'.at = "uncache" <=> FrameOf(f).at = "uncache"
  <2>1. f \in Frames'
    BY <1>2, <1>6
  <2>2. CASE f # e
    BY <1>1, <1>2, <2>1, <2>2 DEF Works, Doomed
  <2>3. CASE f = e
    <3>1. n > 1 /\ FrameOf(f)' = g /\ c = FrameOf(f)
      BY <1>0, <1>2, <2>1, <2>3
    <3>2. Works(g)'
      BY <1>1, <1>3, <1>4, <3>1 DEF Works, Doomed, Loading, Loops, Deletions
    <3>3. Works(FrameOf(f))'
      BY <3>1, <3>2 DEF Works, Doomed
    <3> QED BY <1>3, <1>4, <2>1, <3>1, <3>3 DEF Loops
  <2> QED BY <2>2, <2>3
<1>7. ASSUME ~(Top(t).lib = k /\ Works(Top(t)) /\ Top(t).at # "uncache"), Busy(k) PROVE Busy(k)'
  <2>1. PICK f \in Frames : /\ FrameOf(f).lib = k
                            /\ Works(FrameOf(f)) /\ FrameOf(f).at # "uncache"
    BY <1>7 DEF Busy
  <2>2. f # TopAt(t)
    BY <1>5, <1>7, <2>1
  <2> QED BY <1>6, <2>1, <2>2 DEF Busy
<1>8. ASSUME ~(Top(t).lib = k /\ Top(t).at \in {"check", "uncache"}), Leaving(k) PROVE Leaving(k)'
  <2>1. PICK f \in Frames : FrameOf(f).lib = k /\ FrameOf(f).at \in {"check", "uncache"}
    BY <1>8 DEF Leaving
  <2>2. f # TopAt(t)
    BY <1>5, <1>8, <2>1
  <2> QED BY <1>6, <2>1, <2>2 DEF Leaving
<1> QED BY <1>7, <1>8

\* A return without a library unsets the static pointer whose deletion it ends.
LEMMA NoneStatics ==
  ASSUME OInv, IInv', NEW t \in Threads, ~Idle(t), Return(t, NoLib)
  PROVE  /\ held' = held
         /\ \A p \in Paths : \A i \in Elements(p) :
              statics'[p][i] = statics[p][i] \/ statics'[p][i] = NoLib
         /\ \A k \in Libs : StaticHandles(k)' = StaticHandles(k)
<1>0. PICK n, e, c : n = Len(stack[t]) /\ e = <<t, n - 1>> /\ c = Caller(t)
  OBVIOUS
<1>1. /\ n \in Nat /\ n >= 1
      /\ n = 1 => statics' = statics /\ held' = held
      /\ n > 1 => /\ held' = held
                  /\ statics'[c.path][c.next] = NoLib
                  /\ \A p \in Paths : \A i \in Elements(p) :
                       p # c.path \/ i # c.next => statics'[p][i] = statics[p][i]
  BY <1>0, ReturnAssigns
<1>2. n = 1 \/ n > 1
  BY <1>1
<1>3. n > 1 => /\ e \in Frames /\ FrameOf(e) = c /\ c.at \in Loops /\ Good(c)
               /\ c.path \in Paths /\ c.next \in Elements(c.path)
  <2>1. PICK d : d = FrameOf(e)
    OBVIOUS
  <2> QED BY <1>0, <2>1, CallerIs
<1>4. e[1] = t /\ e[2] = n - 1 /\ n - 1 < n
  BY <1>0, <1>1
<1>5. n > 1 /\ c.at \in {"at_exit", "unregister"} => <<c.path, c.next>> \in InDeletion
  BY <1>0, <1>3, <1>4, InDeletionIs
<1>6. n > 1 /\ c.at = "register" => statics[c.path][c.next] = NoLib
  <2> SUFFICES ASSUME n > 1, c.at = "register" PROVE Unset(c.path, c.next)
    BY DEF Unset
  <2>1. c.next >= c.next /\ c.next \in Elements(c.path)
    BY <1>3 DEF Elements
  <2> QED BY <1>3, <2>1 DEF Good, StaticsAt
<1>7. \A y : y \in InDeletion' <=> y \in InDeletion /\ ~Deleted(t, y)
  BY ReturnDeletions
<1>8. \A p \in Paths : DOMAIN statics'[p] = Elements(p) /\ DOMAIN statics[p] = Elements(p)
  <2>1. \A p \in Paths : Requires[p] \in Seq(Paths)
    BY RequiresAssumption
  <2>2. \A p \in Paths : DOMAIN Requires[p] = Elements(p)
    BY <2>1 DEF Elements
  <2> QED BY <2>2 DEF OInv, IInv, TypeOK
<1>9. ASSUME NEW k \in Libs PROVE StaticHandles(k)' = StaticHandles(k)
  <2>1. \A y : y \in StaticHandles(k) <=>
          \E p \in Paths : \E i \in Elements(p) : y = <<p, i>> /\ statics[p][i] = k /\ y \notin InDeletion
    BY <1>8 DEF StaticHandles
  <2>2. \A y : y \in StaticHandles(k)' <=>
          \E p \in Paths : \E i \in Elements(p) : y = <<p, i>> /\ statics'[p][i] = k /\ y \notin InDeletion'
    BY <1>8 DEF StaticHandles
  <2>3. k # NoLib
    BY LibsAssumption
  <2>4. ASSUME NEW p \in Paths, NEW i \in Elements(p), statics'[p][i] = k, <<p, i>> \notin InDeletion'
        PROVE  statics[p][i] = k /\ <<p, i>> \notin InDeletion
    <3>1. CASE n = 1
      BY <1>0, <1>1, <1>7, <2>4, <3>1 DEF Deleted
    <3>2. CASE n > 1
      <4>1. p # c.path \/ i # c.next
        BY <1>1, <2>3, <2>4, <3>2
      <4>2. ~Deleted(t, <<p, i>>)
        BY <1>0, <4>1 DEF Deleted
      <4> QED BY <1>1, <1>7, <2>4, <3>2, <4>1, <4>2
    <3> QED BY <1>2, <3>1, <3>2
  <2>5. ASSUME NEW p \in Paths, NEW i \in Elements(p), statics[p][i] = k, <<p, i>> \notin InDeletion
        PROVE  statics'[p][i] = k /\ <<p, i>> \notin InDeletion'
    <3>1. <<p, i>> \notin InDeletion'
      BY <1>7, <2>5
    <3>2. CASE n = 1
      BY <1>1, <2>5, <3>1, <3>2
    <3>3. CASE n > 1
      <4>1. ASSUME p = c.path, i = c.next PROVE FALSE
        <5>1. c.at \notin {"at_exit", "unregister"}
          BY <1>5, <2>5, <3>3, <4>1
        <5>2. c.at = "register"
          BY <1>3, <3>3, <5>1 DEF Loops
        <5> QED BY <1>6, <2>3, <2>5, <3>3, <4>1, <5>2
      <4> QED BY <1>1, <2>5, <3>1, <3>3, <4>1
    <3> QED BY <1>2, <3>2, <3>3
  <2>6. \A y : y \in StaticHandles(k)' <=> y \in StaticHandles(k)
    BY <2>1, <2>2, <2>4, <2>5
  <2> QED BY <2>6
<1>10. \A p \in Paths : \A i \in Elements(p) : statics'[p][i] = statics[p][i] \/ statics'[p][i] = NoLib
  BY <1>1, <1>2
<1> QED BY <1>1, <1>2, <1>9, <1>10

\* What steps keep that unset static pointers and free libraries nobody uses.
LEMMA Lessening ==
  ASSUME OInv, IInv', cache' = cache, held' = held,
         \A p \in Paths : \A i \in Elements(p) :
           statics'[p][i] = statics[p][i] \/ statics'[p][i] = NoLib,
         \A k \in Libs : /\ library'[k].path = library[k].path
                         /\ library'[k].state = "live" =>
                              Live(k) /\ (library[k].ready => library'[k].ready),
         \A k \in Libs : Live(k) /\ library'[k].state # "live" =>
           /\ \A p \in Paths : cache[p] # k /\ \A i \in Elements(p) : statics'[p][i] # k
           /\ \A u \in Threads : held[u][k] = 0
           /\ \A i \in Elements(library[k].path) : Unset(library[k].path, i)
  PROVE  OnePerPath' /\ CacheLive' /\ StaticsLive' /\ HeldLive' /\ Acyclic'
<1>1. /\ \A p \in Paths : cache[p] # NoLib => cache[p] \in Libs
      /\ \A p \in Paths : \A i \in Elements(p) : ~Unset(p, i) => statics[p][i] \in Libs
  <2>1. \A p \in Paths : statics[p] \in [Elements(p) -> Libs \cup {NoLib}]
    BY RequiresAssumption DEF OInv, IInv, TypeOK, Elements
  <2> QED BY <2>1 DEF OInv, IInv, TypeOK, Unset
<1>2. OnePerPath'
  BY DEF OInv, OnePerPath, Live
<1>3. CacheLive'
  <2> SUFFICES ASSUME NEW p \in Paths, cache[p] # NoLib
               PROVE  library'[cache[p]].state = "live" /\ library'[cache[p]].path = p
    BY DEF CacheLive, Live
  <2>1. PICK k \in Libs : k = cache[p]
    BY <1>1
  <2>2. Live(k) /\ library[k].path = p
    BY <2>1 DEF OInv, CacheLive
  <2> QED BY <2>1, <2>2
<1>4. StaticsLive'
  <2> SUFFICES ASSUME NEW p \in Paths, NEW i \in Elements(p), statics'[p][i] # NoLib
               PROVE  /\ library'[statics'[p][i]].state = "live" /\ library'[statics'[p][i]].ready
                      /\ \E k \in Libs : library'[k].state = "live" /\ library'[k].path = p
    BY DEF StaticsLive, Unset, Live
  <2>1. PICK m \in Libs : m = statics[p][i] /\ m = statics'[p][i]
    BY <1>1 DEF Unset
  <2>2. ~Unset(p, i) /\ Live(m) /\ library[m].ready
    BY <2>1, LibsAssumption DEF OInv, StaticsLive, Unset
  <2>3. PICK k \in Libs : Live(k) /\ library[k].path = p
    BY <2>2 DEF OInv, StaticsLive
  <2>4. library'[m].state = "live" /\ library'[m].ready
    BY <2>1, <2>2
  <2>5. library'[k].state = "live" /\ library'[k].path = p
    BY <2>2, <2>3
  <2> QED BY <2>1, <2>4, <2>5
<1>5. HeldLive'
  <2> SUFFICES ASSUME NEW u \in Threads, NEW k \in Libs, held[u][k] > 0
               PROVE  library'[k].state = "live" /\ library'[k].ready
    BY DEF HeldLive, Live
  <2>1. Live(k) /\ library[k].ready /\ held[u][k] # 0
    BY DEF OInv, HeldLive, IInv, TypeOK
  <2> QED BY <2>1
<1>6. Acyclic'
  <2> SUFFICES ASSUME NEW S \in SUBSET Libs, S # {}, \A k \in S : library'[k].state = "live"
               PROVE  \E l \in S : \A k \in S : \A i \in Elements(library'[k].path) :
                        statics'[library'[k].path][i] # l
    BY DEF Acyclic, Live
  <2>1. \A k \in S : Live(k) /\ library'[k].path = library[k].path
    OBVIOUS
  <2>2. \E l \in S : \A k \in S : \A i \in Elements(library[k].path) :
          statics[library[k].path][i] # l
    BY <2>1 DEF OInv, Acyclic
  <2>3. PICK l \in S : \A k \in S : \A i \in Elements(library[k].path) :
          statics[library[k].path][i] # l
    BY <2>2
  <2>4. ASSUME NEW k \in S, NEW i \in Elements(library'[k].path)
        PROVE  statics'[library'[k].path][i] # l
    <3>1. library'[k].path = library[k].path /\ library[k].path \in Paths
      BY <2>1 DEF OInv, IInv, TypeOK, Library
    <3>2. i \in Elements(library[k].path)
      BY <3>1
    <3>3. statics[library[k].path][i] # l /\ l # NoLib
      BY <2>3, <3>2, LibsAssumption
    <3>4. PICK p \in Paths : p = library[k].path
      BY <3>1
    <3>5. statics'[p][i] = statics[p][i] \/ statics'[p][i] = NoLib
      BY <3>2, <3>4
    <3> QED BY <3>1, <3>3, <3>4, <3>5
  <2> QED BY <2>4
<1> QED BY <1>2, <1>3, <1>4, <1>5, <1>6

\* Handles when a call returns nothing.
LEMMA NoneExact ==
  ASSUME OInv, IInv', NEW t \in Threads, ~Idle(t), Return(t, NoLib),
         UNCHANGED <<cache, ref>>, NEW k \in Libs, Live(k), library'[k] = library[k],
         ~Owns(Top(t), k)
  PROVE  Exact(k)'
<1>1. held' = held /\ StaticHandles(k)' = StaticHandles(k)
  BY NoneStatics
<1>2. HeldHandles(k)' = HeldHandles(k)
  BY <1>1, HeldSame DEF OInv
<1>3. Cardinality(CallHandles(k)') = Cardinality(CallHandles(k)) - One(Owns(Top(t), k))
  BY ReturnCalls
<1>4. Cardinality(CallHandles(k)) \in Nat
  BY HandlesFinite DEF OInv
<1>5. Cardinality(CallHandles(k)') = Cardinality(CallHandles(k))
  BY <1>3, <1>4 DEF One
<1>6. Exact(k)
  BY DEF OInv, RefExact, Exact
<1> QED BY <1>1, <1>2, <1>5, <1>6 DEF Exact, Live

LEMMA ReturnNone ==
  ASSUME OInv, IInv', Orderly, NEW t \in Threads, ~Idle(t), Return(t, NoLib),
         UNCHANGED <<initialized, owner, cache, library, ref>>,
         \/ Top(t).at = "lookup" /\ Discipline = "serial"
         \/ Top(t).at = "test" /\ ~Works(Top(t))
  PROVE  OInv'
<1>1. Returns(t, NoLib)
  <2>1. ASSUME NEW h \in Frames, NEW x, x = FrameOf(h) PROVE LiveAt(x)' /\ FlagsAt(x)'
    <3>1. Good(x)
      BY <2>1 DEF OInv, FramesGood
    <3> QED BY <3>1 DEF Good, LiveAt, FlagsAt, Doomed, Live
  <2> QED BY <2>1 DEF Returns, Deletions
<1>2. FramesGood' /\ OwnerAt' /\ Distinct' /\ Shape' /\ Closed' /\ Alone'
  BY <1>1, ReturnGood, ReturnShape, ReturnAlone
<1>3. OnePerPath' /\ CacheLive' /\ StaticsLive' /\ HeldLive' /\ Acyclic'
  <2>1. /\ held' = held
        /\ \A p \in Paths : \A i \in Elements(p) :
              statics'[p][i] = statics[p][i] \/ statics'[p][i] = NoLib
    BY NoneStatics
  <2>2. \A k \in Libs : /\ library'[k].path = library[k].path
                        /\ library'[k].state = "live" =>
                             Live(k) /\ (library[k].ready => library'[k].ready)
    BY DEF Live
  <2>3. \A k \in Libs : ~(Live(k) /\ library'[k].state # "live")
    BY DEF Live
  <2> QED BY <2>1, <2>2, <2>3, Lessening
<1>4. LibrariesGood'
  <2> SUFFICES ASSUME NEW k \in Libs PROVE LibraryGood(k)'
    BY DEF LibrariesGood
  <2>1. LibraryGood(k)
    BY DEF OInv, LibrariesGood
  <2>2. ~Works(Top(t)) /\ Top(t).at \notin {"check", "uncache"}
    BY DEF Works, Loading, Deletions, Doomed
  <2>3. (Busy(k) => Busy(k)') /\ (Leaving(k) => Leaving(k)')
    BY <1>1, <2>2, ReturnBusy
  <2> QED BY <2>1, <2>3 DEF LibraryGood, Live, Cached
<1>5. RefExact'
  <2> SUFFICES ASSUME NEW k \in Libs, Live(k) PROVE Exact(k)'
    BY DEF RefExact, Exact, Live
  <2>1. ~Owns(Top(t), k)
    BY DEF Owns
  <2> QED BY <2>1, NoneExact
<1> QED BY <1>2, <1>3, <1>4, <1>5 DEF OInv

LEMMA StepResolveFails ==
  ASSUME OInv, IInv', Orderly, NEW t \in Threads, ResolveFails(t)
  PROVE  OInv'
<1>1. /\ ~Idle(t) /\ Top(t).at = "lookup" /\ Fault[Top(t).path] = "resolve" /\ Return(t, NoLib)
      /\ UNCHANGED <<initialized, owner, cache, library, ref>>
  BY DEF ResolveFails, At
<1>2. Discipline = "serial"
  BY <1>1, TopGood DEF Orderly
<1> QED BY <1>1, <1>2, ReturnNone

\* The deletion of a library that has users left.
LEMMA StepTestKept ==
  ASSUME OInv, IInv', Orderly, NEW t \in Threads, TestUnreferenced(t), ref[Top(t).lib] # 0
  PROVE  OInv'
<1>1. /\ ~Idle(t) /\ Top(t).at = "test" /\ Return(t, NoLib)
      /\ UNCHANGED <<initialized, owner, cache, library, ref>>
  BY DEF TestUnreferenced, At
<1>2. ~Works(Top(t))
  BY <1>1, TopGood DEF Works, Loading, Good, RefAt
<1> QED BY <1>1, <1>2, ReturnNone

\* The library that is freed is in nobody's hands.
LEMMA FreedUnused ==
  ASSUME OInv, Orderly, NEW t \in Threads, ~Idle(t), Top(t).at = "free",
         NEW l, l = Top(t).lib
  PROVE  /\ l \in Libs /\ Live(l) /\ library[l].path = Top(t).path
         /\ \A p \in Paths : cache[p] # l
         /\ \A u \in Threads : held[u][l] = 0
         /\ \A i \in Elements(library[l].path) : Unset(library[l].path, i)
         /\ \A h \in Frames : h # TopAt(t) => FrameOf(h).lib # l
         /\ StaticHandles(l) = {}
<1>1. /\ l \in Libs /\ Live(l) /\ library[l].path = Top(t).path /\ Good(Top(t))
      /\ Top(t).path \in Paths
  BY TopGood DEF NoLibraryYet
<1>2. cache[Top(t).path] # l /\ Works(Top(t)) /\ Doomed(Top(t)) /\ ref[l] = 0
  BY <1>1 DEF Good, CachedAt, RefAt, Doomed, Works, Deletions
<1>3. \A p \in Paths : cache[p] # l
  BY <1>1, <1>2, LibsAssumption DEF OInv, CacheLive
<1>4. \A i \in Elements(library[l].path) : Unset(library[l].path, i)
  BY <1>1 DEF Good, StaticsAt
<1>5. TopAt(t) \in Frames /\ FrameOf(TopAt(t)) = Top(t) /\ TopAt(t)[1] = t
  BY TopIsFrame DEF OInv, TopAt
<1>6. \A h \in Frames : h[1] = t
  BY <1>5, Undisturbed
<1>7. \A h \in Frames : h # TopAt(t) => FrameOf(h).lib # l
  BY <1>2, <1>6, AloneFrames
<1>8. HandlesCounted
  BY CountsHandles DEF OInv
<1>9. HeldHandles(l) = 0 /\ Cardinality(StaticHandles(l)) = 0
  <2>1. Exact(l)
    BY <1>1 DEF OInv, RefExact, Exact
  <2> DEFINE d == IF cache[library[l].path] = l THEN 1 ELSE 0
  <2>2. 0 = d + HeldHandles(l) + Cardinality(StaticHandles(l)) + Cardinality(CallHandles(l))
    BY <1>1, <1>2, <2>1 DEF Exact
  <2>3. d \in Nat
    OBVIOUS
  <2> HIDE DEF d
  <2> QED BY <1>1, <1>8, <2>2, <2>3 DEF HandlesCounted
<1>10. StaticHandles(l) = {}
  BY <1>1, <1>8, <1>9, FS_EmptySet DEF HandlesCounted
<1>11. \A u \in Threads : held[u][l] = 0
  BY <1>1, <1>9, HeldIsUnits DEF HeldCounted, OInv
<1> QED BY <1>1, <1>3, <1>4, <1>7, <1>10, <1>11

LEMMA StepFree ==
  ASSUME OInv, IInv', Orderly, NEW t \in Threads, FreeLibrary(t)
  PROVE  OInv'
<1>0. PICK l, c : l = Top(t).lib /\ c = Caller(t)
  OBVIOUS
<1>1. /\ ~Idle(t) /\ Top(t).at = "free" /\ Return(t, NoLib)
      /\ library' = [library EXCEPT ![l].state = "freed", ![l].ready = FALSE,
                                    ![l].inManager = FALSE, ![l].dso = FALSE]
      /\ UNCHANGED <<initialized, owner, cache, ref>>
  BY <1>0 DEF FreeLibrary, At
<1>2. /\ l \in Libs /\ Live(l) /\ library[l].path = Top(t).path
      /\ \A p \in Paths : cache[p] # l
      /\ \A u \in Threads : held[u][l] = 0
      /\ \A i \in Elements(library[l].path) : Unset(library[l].path, i)
      /\ \A h \in Frames : h # TopAt(t) => FrameOf(h).lib # l
      /\ StaticHandles(l) = {}
  BY <1>0, <1>1, FreedUnused
<1>3. /\ library \in [Libs -> Library]
      /\ \A k \in Libs : k # l => library'[k] = library[k]
      /\ library'[l].state = "freed" /\ library'[l].path = library[l].path
  <2>1. library \in [Libs -> Library]
    BY DEF OInv, IInv, TypeOK
  <2> QED BY <1>1, <1>2, <2>1 DEF Library
<1>4. Returns(t, NoLib)
  <2>1. ASSUME NEW h \in Frames, NEW x, h # TopAt(t), x = FrameOf(h)
        PROVE  /\ LiveAt(x)' /\ FlagsAt(x)'
               /\ x.lib \in Libs => library'[x.lib].dso = library[x.lib].dso
    <3>1. Good(x) /\ x.lib # l /\ x.lib \in Libs \cup {NoLib}
          /\ (x.at \notin NoLibraryYet => x.lib \in Libs)
      BY <1>2, <2>1, FrameTyped DEF OInv, FramesGood, FrameOK
    <3>2. CASE x.lib \in Libs
      <4>1. library'[x.lib] = library[x.lib]
        BY <1>3, <3>1, <3>2
      <4> QED BY <1>1, <3>1, <4>1 DEF Good, LiveAt, FlagsAt, Doomed, Live
    <3>3. CASE x.lib \notin Libs
      <4>1. x.lib = NoLib /\ x.at \in NoLibraryYet
        BY <3>1, <3>3
      <4> QED BY <3>3, <4>1 DEF LiveAt, FlagsAt, Doomed, NoLibraryYet, Loading, Deletions
    <3> QED BY <3>2, <3>3
  <2> QED BY <1>1, <2>1 DEF Returns, Deletions
<1>5. FramesGood' /\ OwnerAt' /\ Distinct' /\ Shape' /\ Closed' /\ Alone'
  BY <1>4, ReturnGood, ReturnShape, ReturnAlone
<1>6. /\ held' = held
      /\ \A p \in Paths : \A i \in Elements(p) :
            statics'[p][i] = statics[p][i] \/ statics'[p][i] = NoLib
  BY <1>1, NoneStatics
<1>7. \A p \in Paths : \A i \in Elements(p) : statics'[p][i] # l
  <2> SUFFICES ASSUME NEW p \in Paths, NEW i \in Elements(p), statics'[p][i] = l PROVE FALSE
    OBVIOUS
  <2>1. statics[p][i] = l /\ l # NoLib
    BY <1>2, <1>6, LibsAssumption
  <2>2. DOMAIN statics[p] = Elements(p)
    <3>1. Requires[p] \in Seq(Paths)
      BY RequiresAssumption
    <3>2. DOMAIN Requires[p] = Elements(p)
      BY <3>1 DEF Elements
    <3> QED BY <3>2 DEF OInv, IInv, TypeOK
  <2>3. <<p, i>> \in InDeletion
    BY <1>2, <2>1, <2>2 DEF StaticHandles
  <2>4. PICK f \in Frames : /\ f[2] < Len(stack[f[1]])
                            /\ FrameOf(f).at \in {"at_exit", "unregister"}
                            /\ <<p, i>> = <<FrameOf(f).path, FrameOf(f).next>>
    BY <2>3, InDeletionIs
  <2>5. f = <<f[1], f[2]>> /\ f[1] \in Threads /\ f[2] \in Nat /\ Len(stack[f[1]]) \in Nat
        /\ f[2] >= 1
    BY <2>4, FramesAre DEF OInv
  <2>6. f # TopAt(f[1])
    BY <2>4, <2>5 DEF TopAt
  <2>7. Above(f) \in Frames /\ FrameOf(Above(f)).lib = l
    <3>1. Above(f) \in Frames
      BY <2>6, BelowTop DEF OInv
    <3> QED BY <2>1, <2>4, <3>1 DEF OInv, Shape
  <2>8. Above(f) = TopAt(t)
    BY <1>2, <2>7
  <2>9. f[1] = t /\ f[2] + 1 = Len(stack[t])
    BY <2>5, <2>8 DEF Above, TopAt
  <2>10. FrameOf(f) = c /\ Len(stack[t]) > 1
    <3>1. f[2] = Len(stack[t]) - 1
      BY <2>5, <2>9
    <3>2. FrameOf(f) = c
      BY <1>0, <2>9, <3>1 DEF FrameOf, Caller
    <3>3. Len(stack[t]) > 1
      BY <2>5, <2>9
    <3> QED BY <3>2, <3>3
  <2>11. statics'[c.path][c.next] = NoLib
    BY <1>0, <1>1, <2>10, ReturnAssigns
  <2> QED BY <2>1, <2>4, <2>10, <2>11
<1>8. OnePerPath' /\ CacheLive' /\ StaticsLive' /\ HeldLive' /\ Acyclic'
  <2>1. \A k \in Libs : /\ library'[k].path = library[k].path
                        /\ library'[k].state = "live" =>
                             Live(k) /\ (library[k].ready => library'[k].ready)
    BY <1>3 DEF Live
  <2>2. \A k \in Libs : Live(k) /\ library'[k].state # "live" => k = l
    BY <1>3 DEF Live
  <2>3. \A k \in Libs : Live(k) /\ library'[k].state # "live" =>
          /\ \A p \in Paths : cache[p] # k /\ \A i \in Elements(p) : statics'[p][i] # k
          /\ \A u \in Threads : held[u][k] = 0
          /\ \A i \in Elements(library[k].path) : Unset(library[k].path, i)
    BY <1>2, <1>7, <2>2
  <2> QED BY <1>1, <1>6, <2>1, <2>3, Lessening
<1>9. LibrariesGood'
  <2> SUFFICES ASSUME NEW k \in Libs, Live(k)' PROVE LibraryGood(k)'
    BY DEF LibrariesGood, LibraryGood
  <2>1. k # l /\ Live(k) /\ library'[k] = library[k]
    BY <1>3 DEF Live
  <2>2. LibraryGood(k)
    BY DEF OInv, LibrariesGood
  <2>3. (Busy(k) => Busy(k)') /\ (Leaving(k) => Leaving(k)')
    BY <1>0, <1>4, <2>1, ReturnBusy
  <2> QED BY <1>1, <2>1, <2>2, <2>3 DEF LibraryGood, Live, Cached
<1>10. RefExact'
  <2> SUFFICES ASSUME NEW k \in Libs, Live(k)' PROVE Exact(k)'
    BY DEF RefExact, Exact
  <2>1. k # l /\ Live(k) /\ library'[k] = library[k]
    BY <1>3 DEF Live
  <2>2. ~Owns(Top(t), k)
    BY <1>0, <2>1 DEF Owns
  <2> QED BY <1>1, <2>1, <2>2, NoneExact
<1> QED BY <1>5, <1>8, <1>9, <1>10 DEF OInv

\* A library that is ready goes from the call that returns it to the code that asked
\* for it: a thread's own, or a register function's static pointer.
HandsOver(t, l) ==
  /\ t \in Threads /\ l \in Libs /\ ~Idle(t) /\ l = Top(t).lib
  /\ Top(t).at \in {"spin", "set_ready"} /\ Return(t, l)
  /\ UNCHANGED <<initialized, owner, cache, ref>>
  /\ \A k \in Libs : /\ k # l => library'[k] = library[k]
                     /\ library'[k].state = library[k].state
                     /\ library'[k].path = library[k].path
                     /\ library'[k].inManager = library[k].inManager
                     /\ library'[k].dso = library[k].dso
  /\ library'[l].ready
  /\ Top(t).at = "spin" => library[l].ready

LEMMA HandsOverIs ==
  ASSUME OInv, NEW t, NEW l, HandsOver(t, l)
  PROVE  /\ Live(l) /\ library[l].path = Top(t).path /\ Cached(l)
         /\ library[l].inManager /\ library[l].dso
         /\ \A k \in Libs : Owns(Top(t), k) <=> k = l
         /\ TopAt(t) \in Frames /\ FrameOf(TopAt(t)) = Top(t)
<1>1. /\ t \in Threads /\ ~Idle(t) /\ l \in Libs /\ l = Top(t).lib
      /\ Top(t).at \in {"spin", "set_ready"}
      /\ Top(t).at = "spin" => library[l].ready
  BY DEF HandsOver
<1>2. Live(l) /\ library[l].path = Top(t).path /\ Good(Top(t))
  BY <1>1, TopGood DEF NoLibraryYet
<1>3. Cached(l)
  BY <1>1, <1>2 DEF Good, CachedAt, Cached, Loading
<1>4. library[l].inManager /\ library[l].dso
  <2>1. LibraryGood(l)
    BY <1>1 DEF OInv, LibrariesGood
  <2>2. library[l].inManager
    BY <1>1, <1>2, <2>1 DEF LibraryGood, Good, FlagsAt
  <2> QED BY <1>2, <2>1, <2>2 DEF LibraryGood
<1>5. \A k \in Libs : Owns(Top(t), k) <=> k = l
  BY <1>1 DEF Owns
<1> QED BY <1>1, <1>2, <1>3, <1>4, <1>5, TopIsFrame DEF OInv

LEMMA HandsOverReturns ==
  ASSUME OInv, NEW t, NEW l, HandsOver(t, l)
  PROVE  Returns(t, l) /\ l # NoLib
<1>1. /\ t \in Threads /\ ~Idle(t) /\ l \in Libs /\ l = Top(t).lib
      /\ Top(t).at \in {"spin", "set_ready"} /\ Return(t, l)
      /\ Top(t).at = "spin" => library[l].ready
      /\ UNCHANGED <<initialized, owner, cache, ref>>
      /\ library'[l].ready
  BY DEF HandsOver
<1>2. \A k \in Libs : /\ k # l => library'[k] = library[k]
                      /\ library'[k].state = library[k].state
                      /\ library'[k].path = library[k].path
                      /\ library'[k].inManager = library[k].inManager
                      /\ library'[k].dso = library[k].dso
  BY DEF HandsOver
<1>3. ASSUME NEW h \in Frames, NEW x, h # TopAt(t), x = FrameOf(h)
      PROVE  /\ LiveAt(x)' /\ FlagsAt(x)'
             /\ x.lib \in Libs => library'[x.lib].dso = library[x.lib].dso
  <2>1. Good(x) /\ x.lib \in Libs \cup {NoLib}
        /\ (x.at \notin NoLibraryYet => x.lib \in Libs)
    BY <1>3, FrameTyped DEF OInv, FramesGood, FrameOK
  <2>2. LiveAt(x)'
    BY <1>2, <2>1 DEF Good, LiveAt, Live
  <2>3. CASE x.lib \notin Libs
    <3>1. x.lib = NoLib /\ x.at \in NoLibraryYet
      BY <2>1, <2>3
    <3> QED BY <2>2, <2>3, <3>1 DEF FlagsAt, Doomed, NoLibraryYet, Loading, Deletions
  <2>4. CASE x.lib \in Libs /\ (library[x.lib].ready <=> library'[x.lib].ready)
    <3>1. /\ library'[x.lib].inManager = library[x.lib].inManager
          /\ library'[x.lib].dso = library[x.lib].dso
      BY <1>2, <2>4
    <3> QED BY <1>1, <2>1, <2>2, <2>4, <3>1 DEF Good, FlagsAt, Doomed
  <2>5. CASE x.lib = l /\ ~library[l].ready
    <3>1. Top(t).at = "set_ready" /\ Works(Top(t)) /\ ~Doomed(Top(t))
      BY <1>1, <2>5 DEF Works, Doomed, Deletions, Loading
    <3>2. ~Works(x) /\ x.at \notin {"dispose", "check", "uncache", "test"}
      BY <1>1, <1>3, <2>5, <3>1, WorksAlone
    <3>3. FlagsAt(x)'
      BY <3>2 DEF FlagsAt, Works, Loading
    <3> QED BY <1>1, <1>2, <2>2, <2>5, <3>3
  <2> QED BY <1>1, <1>2, <2>1, <2>3, <2>4, <2>5
<1>4. l # NoLib
  BY <1>1, LibsAssumption
<1> QED BY <1>1, <1>3, <1>4 DEF Returns

\* Where the library goes.
LEMMA HandsOverTo ==
  ASSUME OInv, IInv', Orderly, NEW t, NEW l, HandsOver(t, l), NEW c, c = Caller(t)
  PROVE  /\ Len(stack[t]) = 1 \/ Len(stack[t]) > 1
         /\ Len(stack[t]) = 1 => statics' = statics /\ held' = [held EXCEPT ![t][l] = @ + 1]
         /\ Len(stack[t]) > 1 =>
              /\ held' = held
              /\ c.at = "register" /\ c.path \in Paths /\ c.next \in Elements(c.path)
              /\ c.lib \in Libs /\ Live(c.lib) /\ library[c.lib].path = c.path
              /\ ~library[c.lib].ready /\ c.lib # l
              /\ statics[c.path][c.next] = NoLib /\ statics'[c.path][c.next] = l
              /\ <<c.path, c.next>> \notin InDeletion
              /\ \A p \in Paths : \A i \in Elements(p) :
                   p # c.path \/ i # c.next => statics'[p][i] = statics[p][i]
         /\ InDeletion' = InDeletion
<1>0. PICK n, e : n = Len(stack[t]) /\ e = <<t, n - 1>>
  OBVIOUS
<1>1. /\ t \in Threads /\ ~Idle(t) /\ l \in Libs /\ l = Top(t).lib
      /\ Top(t).at \in {"spin", "set_ready"} /\ Return(t, l) /\ l # NoLib
      /\ Top(t).at = "spin" => library[l].ready
  BY HandsOverReturns DEF HandsOver
<1>2. /\ n \in Nat /\ n >= 1
      /\ n = 1 => statics' = statics /\ held' = [held EXCEPT ![t][l] = @ + 1]
      /\ n > 1 => /\ held' = held
                  /\ statics'[c.path][c.next] = l
                  /\ \A p \in Paths : \A i \in Elements(p) :
                       p # c.path \/ i # c.next => statics'[p][i] = statics[p][i]
  BY <1>0, <1>1, ReturnAssigns
<1>3. n = 1 \/ n > 1
  BY <1>2
<1>4. ASSUME n > 1
      PROVE  /\ e \in Frames /\ e # TopAt(t) /\ FrameOf(e) = c /\ Good(c) /\ Works(c) /\ c.at = "register"
             /\ c.path \in Paths /\ c.next \in Elements(c.path) /\ c.next \in Nat
             /\ c.lib \in Libs /\ Live(c.lib) /\ library[c.lib].path = c.path
             /\ e[1] = t /\ e[2] = n - 1
  <2>1. PICK d : d = FrameOf(e)
    OBVIOUS
  <2>2. d = c
    BY <1>0, <1>1, <1>4, <2>1, CallerIs
  <2>3. c.at = "register"
    BY <1>0, <1>1, <1>4, CallerAt DEF Deletions
  <2> QED BY <1>0, <1>1, <1>4, <2>1, <2>2, <2>3, CallerIs
<1>5. ASSUME n > 1 PROVE ~library[c.lib].ready /\ c.lib # l
  <2>1. ~library[c.lib].ready
    BY <1>4, <1>5 DEF Good, FlagsAt, Loading
  <2>2. ASSUME c.lib = l PROVE FALSE
    <3>1. Top(t).at = "set_ready"
      BY <1>1, <2>1, <2>2
    <3>2. /\ TopAt(t) \in Frames /\ FrameOf(TopAt(t)) = Top(t) /\ Works(Top(t))
          /\ Top(t).path = library[l].path
      BY <1>1, <3>1, TopIsFrame, TopGood DEF OInv, Works, Loading, NoLibraryYet
    <3> QED BY <1>4, <1>5, <2>2, <3>2 DEF OInv, Distinct
  <2> QED BY <2>1, <2>2
<1>6. ASSUME n > 1 PROVE statics[c.path][c.next] = NoLib
  <2>1. c.next >= c.next
    BY <1>4, <1>6
  <2> QED BY <1>4, <1>6, <2>1 DEF Good, StaticsAt, Unset
<1>7. ASSUME n > 1 PROVE <<c.path, c.next>> \notin InDeletion
  <2> SUFFICES ASSUME <<c.path, c.next>> \in InDeletion PROVE FALSE
    OBVIOUS
  <2>1. PICK f \in Frames : /\ FrameOf(f).at \in {"at_exit", "unregister"}
                            /\ <<c.path, c.next>> = <<FrameOf(f).path, FrameOf(f).next>>
    BY InDeletionIs
  <2>2. Works(FrameOf(f)) /\ f # e
    BY <1>4, <1>7, <2>1, LoopsWork DEF Loops
  <2> QED BY <1>4, <1>7, <2>1, <2>2 DEF OInv, Distinct
<1>8. InDeletion' = InDeletion
  <2>1. \A y : ~Deleted(t, y)
    BY <1>0, <1>4 DEF Deleted
  <2>2. \A y : y \in InDeletion' <=> y \in InDeletion
    BY <1>1, <2>1, ReturnDeletions
  <2> QED BY <2>2
<1> QED BY <1>0, <1>2, <1>3, <1>4, <1>5, <1>6, <1>7, <1>8

LEMMA HandsOverLasts ==
  ASSUME OInv, IInv', Orderly, NEW t, NEW l, HandsOver(t, l)
  PROVE  OnePerPath' /\ CacheLive' /\ StaticsLive' /\ HeldLive' /\ Acyclic'
<1>0. PICK c, n : c = Caller(t) /\ n = Len(stack[t])
  OBVIOUS
<1>1. /\ t \in Threads /\ l \in Libs /\ cache' = cache /\ Live(l) /\ library'[l].ready
      /\ \A k \in Libs : /\ k # l => library'[k] = library[k]
                         /\ library'[k].state = library[k].state
                         /\ library'[k].path = library[k].path
  BY HandsOverIs DEF HandsOver
<1>2. \A k \in Libs : (Live(k)' <=> Live(k)) /\ (library[k].ready => library'[k].ready)
  BY <1>1 DEF Live
<1>3. /\ n = 1 \/ n > 1
      /\ n = 1 => statics' = statics /\ held' = [held EXCEPT ![t][l] = @ + 1]
      /\ n > 1 =>
           /\ held' = held
           /\ c.path \in Paths /\ c.next \in Elements(c.path)
           /\ c.lib \in Libs /\ Live(c.lib) /\ library[c.lib].path = c.path
           /\ ~library[c.lib].ready /\ c.lib # l
           /\ statics'[c.path][c.next] = l
           /\ \A p \in Paths : \A i \in Elements(p) :
                p # c.path \/ i # c.next => statics'[p][i] = statics[p][i]
  <2>1. /\ Len(stack[t]) = 1 \/ Len(stack[t]) > 1
        /\ Len(stack[t]) = 1 => statics' = statics /\ held' = [held EXCEPT ![t][l] = @ + 1]
        /\ Len(stack[t]) > 1 =>
             /\ held' = held
             /\ c.at = "register" /\ c.path \in Paths /\ c.next \in Elements(c.path)
             /\ c.lib \in Libs /\ Live(c.lib) /\ library[c.lib].path = c.path
             /\ ~library[c.lib].ready /\ c.lib # l
             /\ statics[c.path][c.next] = NoLib /\ statics'[c.path][c.next] = l
             /\ <<c.path, c.next>> \notin InDeletion
             /\ \A p \in Paths : \A i \in Elements(p) :
                  p # c.path \/ i # c.next => statics'[p][i] = statics[p][i]
        /\ InDeletion' = InDeletion
    BY <1>0, <1>1, HandsOverTo
  <2> QED BY <1>0, <2>1, Zenon
<1>4. OnePerPath'
  BY <1>1, <1>2 DEF OInv, OnePerPath
<1>5. /\ \A p \in Paths : cache[p] # NoLib => cache[p] \in Libs
      /\ \A p \in Paths : \A i \in Elements(p) : statics[p][i] # NoLib => statics[p][i] \in Libs
  <2>1. \A p \in Paths : statics[p] \in [Elements(p) -> Libs \cup {NoLib}]
    BY RequiresAssumption DEF OInv, IInv, TypeOK, Elements
  <2> QED BY <2>1 DEF OInv, IInv, TypeOK
<1>6. CacheLive'
  BY <1>1, <1>2, <1>5 DEF OInv, CacheLive, Live
<1>7. HeldLive'
  <2> SUFFICES ASSUME NEW u \in Threads, NEW k \in Libs, held'[u][k] > 0
               PROVE  Live(k)' /\ library'[k].ready
    BY DEF HeldLive
  <2>1. held \in [Threads -> [Libs -> Nat]]
    BY DEF OInv, IInv, TypeOK
  <2>2. k = l \/ held'[u][k] = held[u][k]
    BY <1>1, <1>3, <2>1
  <2>3. CASE k = l
    BY <1>1, <1>2, <2>3
  <2>4. CASE held'[u][k] = held[u][k]
    BY <1>2, <2>4 DEF OInv, HeldLive
  <2> QED BY <2>2, <2>3, <2>4
<1>8. StaticsLive'
  <2> SUFFICES ASSUME NEW p \in Paths, NEW i \in Elements(p), statics'[p][i] # NoLib
               PROVE  /\ library'[statics'[p][i]].state = "live" /\ library'[statics'[p][i]].ready
                      /\ \E k \in Libs : library'[k].state = "live" /\ library'[k].path = p
    BY DEF StaticsLive, Unset, Live
  <2>1. CASE n > 1 /\ p = c.path /\ i = c.next
    BY <1>1, <1>2, <1>3, <2>1 DEF Live
  <2>2. CASE ~(n > 1 /\ p = c.path /\ i = c.next)
    <3>1. statics'[p][i] = statics[p][i]
      BY <1>3, <2>2
    <3>2. PICK m \in Libs : m = statics[p][i]
      BY <1>5, <3>1
    <3>3. Live(m) /\ library[m].ready /\ \E k \in Libs : Live(k) /\ library[k].path = p
      BY <3>1, <3>2 DEF OInv, StaticsLive, Unset
    <3>4. library'[m].state = "live" /\ library'[m].ready
      BY <1>1, <1>2, <3>2, <3>3 DEF Live
    <3>5. \E k \in Libs : library'[k].state = "live" /\ library'[k].path = p
      BY <1>1, <3>3 DEF Live
    <3> QED BY <3>1, <3>2, <3>4, <3>5
  <2> QED BY <2>1, <2>2
<1>9. Acyclic'
  <2> SUFFICES ASSUME NEW S \in SUBSET Libs, S # {}, \A k \in S : library'[k].state = "live"
               PROVE  \E m \in S : \A k \in S : \A i \in Elements(library'[k].path) :
                        statics'[library'[k].path][i] # m
    BY DEF Acyclic, Live
  <2>1. \A k \in S : Live(k) /\ library'[k].path = library[k].path /\ library[k].path \in Paths
    BY <1>1 DEF OInv, IInv, TypeOK, Library, Live
  <2>2. CASE n > 1 /\ c.lib \in S
    <3>1. PICK m \in S : m = c.lib
      BY <2>2
    <3>2. \A p \in Paths : \A i \in Elements(p) : statics[p][i] # m
      BY <1>3, <2>2, <3>1, Unready
    <3>3. \A p \in Paths : \A i \in Elements(p) : statics'[p][i] # m
      BY <1>3, <2>2, <3>1, <3>2
    <3>4. \A k \in S : \A i \in Elements(library'[k].path) : statics'[library'[k].path][i] # m
      BY <2>1, <3>3
    <3> QED BY <3>1, <3>4
  <2>3. CASE ~(n > 1 /\ c.lib \in S)
    <3>1. \E m \in S : \A k \in S : \A i \in Elements(library[k].path) :
            statics[library[k].path][i] # m
      BY <2>1 DEF OInv, Acyclic
    <3>2. PICK m \in S : \A k \in S : \A i \in Elements(library[k].path) :
            statics[library[k].path][i] # m
      BY <3>1
    <3>3. ASSUME NEW k \in S, NEW i \in Elements(library'[k].path)
          PROVE  statics'[library'[k].path][i] # m
      <4>1. library'[k].path = library[k].path /\ library[k].path \in Paths /\ Live(k) /\ k \in Libs
        BY <2>1
      <4>2. i \in Elements(library[k].path)
        BY <4>1
      <4>3. statics[library[k].path][i] # m
        BY <3>2, <4>2
      <4>4. PICK p \in Paths : p = library[k].path
        BY <4>1
      <4>5. n > 1 => p # c.path
        BY <1>3, <2>3, <4>1, <4>4 DEF OInv, OnePerPath
      <4>6. statics'[p][i] = statics[p][i]
        BY <1>3, <4>2, <4>4, <4>5
      <4> QED BY <4>1, <4>3, <4>4, <4>6
    <3> QED BY <3>2, <3>3
  <2> QED BY <2>2, <2>3
<1> QED BY <1>4, <1>6, <1>7, <1>8, <1>9

LEMMA HandsOverCounts ==
  ASSUME OInv, IInv', Orderly, NEW t, NEW l, HandsOver(t, l)
  PROVE  RefExact' /\ ref[l] >= 2
<1>0. PICK c, n : c = Caller(t) /\ n = Len(stack[t])
  OBVIOUS
<1>1. /\ t \in Threads /\ l \in Libs /\ ~Idle(t) /\ Return(t, l) /\ cache' = cache /\ ref' = ref
      /\ Live(l) /\ Cached(l)
      /\ \A k \in Libs : Owns(Top(t), k) <=> k = l
      /\ TopAt(t) \in Frames /\ FrameOf(TopAt(t)) = Top(t)
      /\ \A k \in Libs : /\ library'[k].state = library[k].state
                         /\ library'[k].path = library[k].path
                         /\ library'[k].inManager = library[k].inManager
  BY HandsOverIs DEF HandsOver
<1>2. /\ n = 1 \/ n > 1
      /\ n = 1 => statics' = statics /\ held' = [held EXCEPT ![t][l] = @ + 1]
      /\ n > 1 =>
           /\ held' = held
           /\ c.path \in Paths /\ c.next \in Elements(c.path)
           /\ statics[c.path][c.next] = NoLib /\ statics'[c.path][c.next] = l
           /\ <<c.path, c.next>> \notin InDeletion
           /\ \A p \in Paths : \A i \in Elements(p) :
                p # c.path \/ i # c.next => statics'[p][i] = statics[p][i]
      /\ InDeletion' = InDeletion
  BY <1>0, HandsOverTo
<1>3. HandlesCounted /\ HandlesCounted'
  BY CountsHandles, PTL DEF OInv
<1>4. ASSUME NEW k \in Libs
      PROVE  Cardinality(CallHandles(k)) = Cardinality(CallHandles(k)') + (IF k = l THEN 1 ELSE 0)
  <2>1. Cardinality(CallHandles(k)') = Cardinality(CallHandles(k)) - One(Owns(Top(t), k))
    BY <1>1, ReturnCalls
  <2>2. Cardinality(CallHandles(k)) \in Nat
    BY <1>3 DEF HandlesCounted
  <2> QED BY <1>1, <2>1, <2>2 DEF One
<1>5. \A p \in Paths : DOMAIN statics'[p] = Elements(p) /\ DOMAIN statics[p] = Elements(p)
  <2>1. \A p \in Paths : Requires[p] \in Seq(Paths)
    BY RequiresAssumption
  <2>2. \A p \in Paths : DOMAIN Requires[p] = Elements(p)
    BY <2>1 DEF Elements
  <2> QED BY <2>2 DEF OInv, IInv, TypeOK
<1>6. ASSUME NEW k \in Libs
      PROVE  HeldHandles(k)' + Cardinality(StaticHandles(k)') =
               HeldHandles(k) + Cardinality(StaticHandles(k)) + (IF k = l THEN 1 ELSE 0)
  <2> DEFINE d == IF k = l THEN 1 ELSE 0
  <2>1. /\ HeldHandles(k) \in Nat /\ Cardinality(StaticHandles(k)) \in Nat
        /\ HeldHandles(k)' \in Nat /\ Cardinality(StaticHandles(k)') \in Nat
        /\ IsFiniteSet(StaticHandles(k)) /\ IsFiniteSet(StaticHandles(k)')
    BY <1>3 DEF HandlesCounted
  <2>2. CASE n = 1
    <3>1. StaticHandles(k)' = StaticHandles(k)
      BY <1>2, <2>2 DEF StaticHandles
    <3>2. HeldHandles(k)' = HeldHandles(k) + d
      BY <1>1, <1>2, <2>2, HeldMore DEF OInv
    <3>3. d \in Nat
      OBVIOUS
    <3> HIDE DEF d
    <3>4. HeldHandles(k)' + Cardinality(StaticHandles(k)') = HeldHandles(k) + Cardinality(StaticHandles(k)) + d
      BY <2>1, <3>1, <3>2, <3>3
    <3> QED BY <3>4 DEF d
  <2>3. CASE n > 1
    <3>1. HeldHandles(k)' = HeldHandles(k)
      BY <1>2, <2>3, HeldSame DEF OInv
    <3>2. \A y : y \in StaticHandles(k) <=>
            \E p \in Paths : \E i \in Elements(p) : y = <<p, i>> /\ statics[p][i] = k /\ y \notin InDeletion
      BY <1>5 DEF StaticHandles
    <3>3. \A y : y \in StaticHandles(k)' <=>
            \E p \in Paths : \E i \in Elements(p) : y = <<p, i>> /\ statics'[p][i] = k /\ y \notin InDeletion
      BY <1>2, <1>5 DEF StaticHandles
    <3> DEFINE A == StaticHandles(k)
               B == StaticHandles(k)'
               x == <<c.path, c.next>>
    <3>4. x \notin A /\ (x \in B <=> k = l)
      <4>1. k # NoLib
        BY LibsAssumption
      <4>2. x \notin A
        BY <1>2, <2>3, <3>2, <4>1
      <4>3. x \in B <=> k = l
        BY <1>2, <2>3, <3>3
      <4> QED BY <4>2, <4>3
    <3>5. \A y : y # x => (y \in A <=> y \in B)
      BY <1>2, <2>3, <3>2, <3>3
    <3>6. IsFiniteSet(A) /\ IsFiniteSet(B) /\ Cardinality(A) \in Nat
      BY <2>1
    <3> HIDE DEF A, B, x
    <3>7. Cardinality(B) = Cardinality(A) + One(x \in B) - One(x \in A)
      BY <3>5, <3>6, DifferInOne
    <3>8. Cardinality(B) = Cardinality(A) + d
      BY <3>4, <3>6, <3>7 DEF One
    <3>9. d \in Nat
      OBVIOUS
    <3>10. Cardinality(StaticHandles(k)') = Cardinality(StaticHandles(k)) + d
      BY <3>8 DEF A, B
    <3> HIDE DEF d
    <3>11. HeldHandles(k)' + Cardinality(StaticHandles(k)') = HeldHandles(k) + Cardinality(StaticHandles(k)) + d
      BY <2>1, <3>1, <3>9, <3>10
    <3> QED BY <3>11 DEF d
  <2> QED BY <1>2, <2>2, <2>3
<1>7. RefExact'
  <2> SUFFICES ASSUME NEW k \in Libs, Live(k) PROVE Exact(k)'
    BY <1>1 DEF RefExact, Exact, Live
  <2> DEFINE d == IF k = l THEN 1 ELSE 0
             b == IF cache[library[k].path] = k THEN 1 ELSE 0
  <2>1. ref[k] = b + HeldHandles(k) + Cardinality(StaticHandles(k)) + Cardinality(CallHandles(k))
    BY DEF OInv, RefExact
  <2>2. d \in Nat /\ b \in Nat
    OBVIOUS
  <2>3. Cardinality(CallHandles(k)) = Cardinality(CallHandles(k)') + d
    BY <1>4
  <2>4. HeldHandles(k)' + Cardinality(StaticHandles(k)') = HeldHandles(k) + Cardinality(StaticHandles(k)) + d
    BY <1>6
  <2>5. /\ HeldHandles(k) \in Nat /\ Cardinality(StaticHandles(k)) \in Nat /\ Cardinality(CallHandles(k)) \in Nat
        /\ HeldHandles(k)' \in Nat /\ Cardinality(StaticHandles(k)') \in Nat /\ Cardinality(CallHandles(k)') \in Nat
    BY <1>3 DEF HandlesCounted
  <2> HIDE DEF d
  <2>6. ref[k] = b + HeldHandles(k)' + Cardinality(StaticHandles(k)') + Cardinality(CallHandles(k)')
    <3> HIDE DEF b
    <3> QED BY <2>1, <2>2, <2>3, <2>4, <2>5
  <2> QED BY <1>1, <2>6 DEF Exact, Live
<1>8. ref[l] >= 2
  <2>1. ref[l] = 1 + HeldHandles(l) + Cardinality(StaticHandles(l)) + Cardinality(CallHandles(l))
    BY <1>1 DEF OInv, RefExact, Cached
  <2>2. /\ HeldHandles(l) \in Nat /\ Cardinality(StaticHandles(l)) \in Nat
        /\ Cardinality(CallHandles(l)) \in Nat /\ Cardinality(CallHandles(l)') \in Nat
    BY <1>1, <1>3 DEF HandlesCounted
  <2>3. Cardinality(CallHandles(l)) = Cardinality(CallHandles(l)') + 1
    BY <1>1, <1>4
  <2> QED BY <2>1, <2>2, <2>3
<1> QED BY <1>7, <1>8

LEMMA HandsOverKeeps ==
  ASSUME OInv, IInv', Orderly, NEW t, NEW l, HandsOver(t, l)
  PROVE  OInv'
<1>1. Returns(t, l)
  BY HandsOverReturns
<1>2. FramesGood' /\ OwnerAt' /\ Distinct' /\ Shape' /\ Closed' /\ Alone'
  BY <1>1, ReturnGood, ReturnShape, ReturnAlone
<1>3. OnePerPath' /\ CacheLive' /\ StaticsLive' /\ HeldLive' /\ Acyclic'
  BY HandsOverLasts
<1>4. RefExact' /\ ref[l] >= 2
  BY HandsOverCounts
<1>5. LibrariesGood'
  <2> SUFFICES ASSUME NEW k \in Libs PROVE LibraryGood(k)'
    BY DEF LibrariesGood
  <2>1. /\ l = Top(t).lib /\ cache' = cache /\ ref' = ref /\ library'[l].ready
        /\ k # l => library'[k] = library[k]
        /\ library'[k].path = library[k].path
        /\ library'[k].inManager = library[k].inManager
        /\ library'[k].dso = library[k].dso
    BY DEF HandsOver
  <2>2. LibraryGood(k)
    BY DEF OInv, LibrariesGood
  <2>3. CASE k = l
    <3>1. Cached(l) /\ library[l].inManager /\ library[l].dso
      BY HandsOverIs
    <3>2. Cached(l)'
      BY <2>1, <2>3, <3>1 DEF Cached
    <3> QED BY <1>4, <2>1, <2>3, <3>1, <3>2 DEF LibraryGood
  <2>4. CASE k # l
    <3>1. (Busy(k) => Busy(k)') /\ (Leaving(k) => Leaving(k)')
      BY <1>1, <2>1, <2>4, ReturnBusy
    <3> QED BY <2>1, <2>2, <2>4, <3>1 DEF LibraryGood, Live, Cached
  <2> QED BY <2>3, <2>4
<1> QED BY <1>2, <1>3, <1>4, <1>5 DEF OInv

LEMMA StepSpinEnds ==
  ASSUME OInv, IInv', Orderly, NEW t \in Threads, SpinEnds(t)
  PROVE  OInv'
<1>1. PICK l : l = Top(t).lib
  OBVIOUS
<1>2. l \in Libs
  BY <1>1, TopGood DEF SpinEnds, At, NoLibraryYet
<1>3. HandsOver(t, l)
  BY <1>1, <1>2 DEF SpinEnds, At, HandsOver
<1> QED BY <1>3, HandsOverKeeps

LEMMA StepSetReady ==
  ASSUME OInv, IInv', Orderly, NEW t \in Threads, SetReady(t)
  PROVE  OInv'
<1>1. PICK l : l = Top(t).lib
  OBVIOUS
<1>2. l \in Libs /\ library \in [Libs -> Library]
  BY <1>1, TopGood DEF SetReady, At, NoLibraryYet, OInv, IInv, TypeOK
<1>3. library' = [library EXCEPT ![l].ready = TRUE]
  BY <1>1 DEF SetReady
<1>4. library'[l].ready /\ \A k \in Libs :
        /\ k # l => library'[k] = library[k]
        /\ library'[k].state = library[k].state
        /\ library'[k].path = library[k].path
        /\ library'[k].inManager = library[k].inManager
        /\ library'[k].dso = library[k].dso
  BY <1>2, <1>3 DEF Library
<1>5. HandsOver(t, l)
  BY <1>1, <1>2, <1>4 DEF SetReady, At, HandsOver
<1> QED BY <1>5, HandsOverKeeps

-----------------------------------------------------------------------------
(* The whole next-state relation.                                              *)

LEMMA OStep ==
  ASSUME OInv, IInv', Orderly, NEW t \in Threads, Step(t)
  PROVE  OInv'
<1>1. CASE LockManager(t)
  BY <1>1, QuietLock
<1>2. CASE ResolveFails(t)
  BY <1>2, StepResolveFails
<1>3. CASE LookupHit(t)
  BY <1>3, QuietLookupHit
<1>4. CASE ShareLibrary(t)
  BY <1>4, StepShare
<1>5. CASE SpinEnds(t)
  BY <1>5, StepSpinEnds
<1>6. CASE LookupMiss(t)
  BY <1>6, QuietLookupMiss
<1>7. CASE CreateLibrary(t)
  BY <1>7, StepCreate
<1>8. CASE LoadLibrary(t)
  BY <1>8, QuietLoad
<1>9. CASE RegisterRequired(t)
  BY <1>9, StepRequire
<1>10. CASE RegisterClasses(t)
  BY <1>10, QuietUnregister, StepRegister
<1>11. CASE PublishLibrary(t)
  BY <1>11, StepPublish
<1>12. CASE SetReady(t)
  BY <1>12, StepSetReady
<1>13. CASE DiscardLibrary(t)
  BY <1>13, StepDiscard
<1>14. CASE DecRef(t)
  BY <1>14, StepDecRefDoomed, StepDecRefCached
<1>15. CASE CheckLastReference(t)
  BY <1>15, QuietCheck
<1>16. CASE UncacheLibrary(t)
  BY <1>16, StepUncache
<1>17. CASE ZeroRef(t)
  BY <1>17, StepZero
<1>18. CASE TestUnreferenced(t)
  BY <1>18, QuietTest, StepTestKept
<1>19. CASE DestroyLibrary(t)
  BY <1>19, QuietDestroy
<1>20. CASE DeleteRequired(t)
  BY <1>20, QuietSkip, StepDeleteRequired
<1>21. CASE RequiredDeleted(t)
  BY <1>21, QuietDeleted
<1>22. CASE FreeLibrary(t)
  BY <1>22, StepFree
<1> QED
  BY <1>1, <1>2, <1>3, <1>4, <1>5, <1>6, <1>7, <1>8, <1>9, <1>10, <1>11, <1>12,
     <1>13, <1>14, <1>15, <1>16, <1>17, <1>18, <1>19, <1>20, <1>21, <1>22 DEF Step

AllQuiet == \A t \in Threads : Idle(t) /\ \A l \in Libs : held[t][l] = 0

\* Without calls there are no frames.
LEMMA QuietFrames ==
  ASSUME IInv, AllQuiet
  PROVE  Frames = {}
BY FramesAre DEF AllQuiet, Frames

\* When nothing is held and no call is under way, every live library is required by
\* another live one; as plug-ins do not require each other in circles, none is live.
LEMMA QuietEmpty ==
  ASSUME OInv, AllQuiet
  PROVE  /\ \A p \in Paths : cache[p] = NoLib
         /\ \A l \in Libs : ~Live(l)
<1>1. Frames = {}
  BY QuietFrames DEF OInv
<1>2. ASSUME NEW l \in Libs, Live(l)
      PROVE  \E p \in Paths : \E i \in Elements(p) : statics[p][i] = l
  <2>1. ref[l] >= 2 /\ cache[library[l].path] = l
    BY <1>1, <1>2 DEF OInv, LibrariesGood, LibraryGood, Busy, Leaving, Cached
  <2>2. CallHandles(l) = {} /\ Cardinality(CallHandles(l)) = 0
    BY <1>1, FS_EmptySet DEF CallHandles
  <2>3. HeldHandles(l) = 0
    <3>1. IInv
      BY DEF OInv
    <3> QED BY <3>1, <1>2, HeldIsUnits DEF HeldCounted, AllQuiet
  <2>4. ref[l] = 1 + HeldHandles(l) + Cardinality(StaticHandles(l)) + Cardinality(CallHandles(l))
    BY <1>2, <2>1 DEF OInv, RefExact
  <2>5. StaticHandles(l) # {}
    BY <2>1, <2>2, <2>3, <2>4, FS_EmptySet
  <2> QED BY <2>5, RequiresAssumption DEF StaticHandles, OInv, IInv, TypeOK, Elements
<1>3. \A l \in Libs : ~Live(l)
  <2> DEFINE S == {l \in Libs : Live(l)}
  <2> SUFFICES ASSUME S # {} PROVE FALSE
    OBVIOUS
  <2>1. PICK l \in S : \A k \in S : \A i \in Elements(library[k].path) :
                         statics[library[k].path][i] # l
    <3>1. S \in SUBSET Libs /\ \A k \in S : Live(k)
      OBVIOUS
    <3> HIDE DEF S
    <3> QED BY <3>1 DEF OInv, Acyclic
  <2>2. PICK p \in Paths : \E i \in Elements(p) : statics[p][i] = l
    BY <1>2
  <2>3. PICK i \in Elements(p) : statics[p][i] = l
    BY <2>2
  <2>4. PICK k \in Libs : Live(k) /\ library[k].path = p
    BY <2>3, LibsAssumption DEF OInv, StaticsLive, Unset
  <2> QED BY <2>1, <2>3, <2>4
<1> QED BY <1>3 DEF OInv, IInv, TypeOK, CacheLive

LEMMA LeavesNothing == OInv => NothingLeft
BY QuietEmpty DEF NothingLeft, AllQuiet

\* The state before the first load and after the last deletion.
Empty ==
  /\ AllQuiet
  /\ \A p \in Paths : cache[p] = NoLib /\ \A i \in Elements(p) : Unset(p, i)
  /\ \A l \in Libs : ~Live(l)

LEMMA EmptyGood == IInv /\ Empty => OInv
<1> SUFFICES ASSUME IInv, Empty PROVE OInv
  OBVIOUS
<1>1. Frames = {}
  BY QuietFrames DEF Empty
<1>2. FramesGood /\ OwnerAt /\ Shape /\ Distinct
  BY <1>1 DEF FramesGood, OwnerAt, Shape, Distinct
<1>3. Alone
  BY <1>1 DEF Alone, Empty, AllQuiet
<1>4. OnePerPath /\ CacheLive /\ LibrariesGood /\ RefExact
  BY DEF Empty, OnePerPath, CacheLive, LibrariesGood, LibraryGood, RefExact
<1>5. StaticsLive
  BY DEF Empty, StaticsLive
<1>6. HeldLive
  BY DEF Empty, AllQuiet, HeldLive
<1>7. Acyclic
  BY DEF Empty, Acyclic
<1>8. Closed
  BY DEF Empty, AllQuiet, Closed
<1> QED BY <1>2, <1>3, <1>4, <1>5, <1>6, <1>7, <1>8 DEF OInv

LEMMA QuietIsEmpty ==
  ASSUME OInv, AllQuiet
  PROVE  Empty
BY QuietEmpty DEF Empty, OInv, StaticsLive

LEMMA OInit == Init => OInv
<1> SUFFICES ASSUME Init PROVE OInv
  OBVIOUS
<1>1. IInv
  BY Initially
<1>2. AllQuiet
  BY DEF Init, AllQuiet, Idle
<1>3. \A p \in Paths : cache[p] = NoLib
  BY DEF Init
<1>4. \A p \in Paths : \A i \in Elements(p) : Unset(p, i)
  BY RequiresAssumption DEF Init, Unset, Elements
<1>5. \A l \in Libs : ~Live(l)
  BY DEF Init, Live
<1> QED BY <1>1, <1>2, <1>3, <1>4, <1>5, EmptyGood DEF Empty

\* The engine is initialised and quit with no plug-in loaded.
LEMMA OManager ==
  ASSUME OInv, IInv', InitManager \/ QuitManager
  PROVE  OInv'
<1>1. AllQuiet
  BY DEF InitManager, QuitManager, OInv, Closed, AllQuiet
<1>2. Empty
  BY <1>1, QuietIsEmpty
<1>3. /\ stack' = stack /\ held' = held /\ statics' = statics
      /\ \A p \in Paths : cache'[p] = NoLib
  BY DEF InitManager, QuitManager
<1>4. \A l \in Libs : library'[l] = library[l]
  BY <1>2, LibsAssumption DEF InitManager, QuitManager, Empty
<1>5. Empty'
  BY <1>2, <1>3, <1>4 DEF Empty, AllQuiet, Idle, Unset, Live
<1> QED BY <1>5, EmptyGood, PTL

LEMMA OStutters ==
  ASSUME OInv, IInv', UNCHANGED vars
  PROVE  OInv'
<1>0. /\ initialized' = initialized /\ owner' = owner /\ cache' = cache
      /\ library' = library /\ ref' = ref /\ statics' = statics /\ held' = held
      /\ stack' = stack
  BY DEF vars
<1>1. /\ Frames' = Frames /\ \A f : FrameOf(f)' = FrameOf(f)
      /\ \A l : Live(l)' <=> Live(l)
      /\ \A l : StaticHandles(l)' = StaticHandles(l)
      /\ \A l : CallHandles(l)' = CallHandles(l)
  BY <1>0 DEF Frames, FrameOf, Live, StaticHandles, CallHandles, InDeletion
<1>2. \A l \in Libs : HeldHandles(l)' = HeldHandles(l)
  BY <1>0, HeldSame DEF OInv
<1>3. FramesGood'
  <2> SUFFICES ASSUME NEW f \in Frames PROVE Good(FrameOf(f))'
    BY <1>1 DEF FramesGood
  <2>1. Good(FrameOf(f)) /\ FrameOf(f)' = FrameOf(f)
    BY <1>1 DEF OInv, FramesGood
  <2>2. Good(FrameOf(f))' <=> Good(FrameOf(f))
    BY <1>0, <2>1 DEF Doomed, Good, LiveAt, CachedAt, FlagsAt, RefAt, StaticsAt, Live, Unset
  <2> QED BY <2>1, <2>2
<1>4. \A f \in Frames : Works(FrameOf(f))' <=> Works(FrameOf(f))
  BY <1>0, <1>1 DEF Works, Doomed
<1>5. OwnerAt' /\ Shape' /\ Distinct'
  <2>1. OwnerAt /\ Shape /\ Distinct
    BY DEF OInv
  <2>2. OwnerAt'
    BY <1>0, <1>1, <2>1 DEF OwnerAt
  <2>3. Shape'
    BY <1>0, <1>1, <2>1 DEF Shape, Above
  <2>4. Distinct'
    BY <1>1, <1>4, <2>1 DEF Distinct
  <2> QED BY <2>2, <2>3, <2>4
<1>6. Alone'
  <2>1. Alone
    BY DEF OInv
  <2>2. Deleting(Keeper)' <=> Deleting(Keeper)
    BY <1>0 DEF Deleting, Idle
  <2>3. Final' <=> Final
    BY <1>0, <2>2 DEF Final, Idle
  <2>4. \A f \in Frames : Guarded(f)' <=> Guarded(f)
    BY <1>0, <1>1 DEF Guarded
  <2>5. \A u : Idle(u)' <=> Idle(u)
    BY <1>0 DEF Idle
  <2> QED BY <1>1, <2>1, <2>3, <2>4, <2>5 DEF Alone
<1>7. OnePerPath' /\ CacheLive'
  BY <1>0, <1>1 DEF OInv, OnePerPath, CacheLive
<1>8. LibrariesGood'
  <2>1. LibrariesGood
    BY DEF OInv
  <2>2. \A l \in Libs : (Busy(l)' <=> Busy(l)) /\ (Leaving(l)' <=> Leaving(l))
    BY <1>1, <1>4 DEF Busy, Leaving
  <2> QED BY <1>0, <1>1, <2>1, <2>2 DEF LibrariesGood, LibraryGood, Cached
<1>9. StaticsLive' /\ HeldLive' /\ Closed'
  <2>1. StaticsLive /\ HeldLive /\ Closed
    BY DEF OInv
  <2>2. StaticsLive'
    BY <1>0, <1>1, <2>1 DEF StaticsLive, Unset
  <2> QED BY <1>0, <1>1, <2>1, <2>2 DEF HeldLive, Closed, Idle
<1>10. Acyclic'
  <2> SUFFICES ASSUME NEW S \in SUBSET Libs, S # {}, \A l \in S : Live(l)'
               PROVE  (\E l \in S : \A k \in S : \A i \in Elements(library[k].path) :
                         statics[library[k].path][i] # l)'
    BY DEF Acyclic
  <2>1. \A l \in S : Live(l)
    BY <1>0, <1>1 DEF Live
  <2>2. \E l \in S : \A k \in S : \A i \in Elements(library[k].path) :
         statics[library[k].path][i] # l
    BY <2>1 DEF OInv, Acyclic
  <2> QED BY <1>0, <1>1, <2>2
<1>11. RefExact'
  BY <1>0, <1>1, <1>2 DEF OInv, RefExact
<1> QED
  BY <1>3, <1>5, <1>6, <1>7, <1>8, <1>9, <1>10, <1>11 DEF OInv

LEMMA ONext == Orderly /\ OInv /\ IInv' /\ [Next]_vars => OInv'
<1> SUFFICES ASSUME Orderly, OInv, IInv', [Next]_vars PROVE OInv'
  OBVIOUS
<1>1. CASE InitManager \/ QuitManager
  BY <1>1, OManager
<1>2. ASSUME NEW t \in Threads, NEW p \in Paths, CallLoad(t, p)
      PROVE  OInv'
  BY <1>2, StepCallLoad
<1>3. ASSUME NEW t \in Threads, NEW l \in Libs, CallDelete(t, l)
      PROVE  OInv'
  BY <1>3, StepCallDelete
<1>4. ASSUME NEW t \in Threads, Step(t)
      PROVE  OInv'
  BY <1>4, OStep
<1>5. CASE UNCHANGED vars
  BY <1>5, OStutters
<1> QED BY <1>1, <1>2, <1>3, <1>4, <1>5 DEF Next

LEMMA OrderlyInv ==
  ASSUME Orderly
  PROVE  Spec => []OInv
<1>1. IInv /\ OInv /\ [Next]_vars => IInv' /\ OInv'
  BY NextPreserves, ONext
<1> QED BY <1>1, Initially, OInit, PTL DEF Spec

LEMMA NoPointerDangles == OInv => NoDangling
<1> SUFFICES ASSUME OInv PROVE NoDangling
  OBVIOUS
<1>1. \A p \in Paths : cache[p] # NoLib => Live(cache[p])
  BY DEF OInv, CacheLive
<1>2. \A t \in Threads, l \in Libs : held[t][l] > 0 => Live(l)
  BY DEF OInv, HeldLive
<1>3. \A l \in Libs : StaticHandles(l) # {} => Live(l)
  BY Unready
<1>4. \A f \in Frames : FrameOf(f).lib # NoLib => Live(FrameOf(f).lib)
  BY DEF OInv, FramesGood, Good, LiveAt
<1> QED BY <1>1, <1>2, <1>3, <1>4 DEF NoDangling

\* A library's reference count is the number of its users and the cache, whichever
\* plug-ins require which, however loads and deletes nest and, short of the faults
\* and the racing last deletes that Orderly leaves out, overlap.
THEOREM CountsExact ==
  ASSUME Orderly
  PROVE  Spec => []RefExact
<1>1. OInv => RefExact
  BY DEF OInv
<1> QED BY <1>1, OrderlyInv, PTL

\* Deleting the last plug-in object leaves no library and an empty cache.
THEOREM NothingIsLeft ==
  ASSUME Orderly
  PROVE  Spec => []NothingLeft
BY LeavesNothing, OrderlyInv, PTL

\* No pointer to a library outlives it: not the cache's, not a plug-in object's, not
\* one a call is still going to use.
THEOREM NothingDangles ==
  ASSUME Orderly
  PROVE  Spec => []NoDangling
BY NoPointerDangles, OrderlyInv, PTL

-----------------------------------------------------------------------------
(* What the manager promises: PluginService.                                   *)

Users == Threads \cup Paths

\* What a user has of a library: plug-in objects, or static pointers.
Share(u, l) ==
  IF u \in Threads THEN held[u][l] ELSE Cardinality({h \in StaticHandles(l) : h[1] = u})

LEMMA ShareIs ==
  ASSUME OInv, NEW u \in Users, NEW l \in Libs
  PROVE  /\ Share(u, l) \in Nat
         /\ ~Live(l) => Share(u, l) = 0
         /\ Share(u, l) # 0 => (u \in Threads /\ held[u][l] > 0) \/ StaticHandles(l) # {}
<1>1. held \in [Threads -> [Libs -> Nat]] /\ IsFiniteSet(StaticHandles(l))
  BY HandlesFinite DEF OInv, IInv, TypeOK
<1>2. u \in Threads => held[u][l] \in Nat
  BY <1>1
<1>3. Cardinality({h \in StaticHandles(l) : h[1] = u}) \in Nat
  BY <1>1, FS_Subset, FS_CardinalityType
<1>4. StaticHandles(l) = {} => Cardinality({h \in StaticHandles(l) : h[1] = u}) = 0
  <2>1. StaticHandles(l) = {} => {h \in StaticHandles(l) : h[1] = u} = {}
    OBVIOUS
  <2> QED BY <2>1, FS_EmptySet
<1>5. ~Live(l) => StaticHandles(l) = {} /\ \A t \in Threads : ~(held[t][l] > 0)
  BY Unready DEF OInv, HeldLive
<1> QED BY <1>2, <1>3, <1>4, <1>5 DEF Share

\* A user of a path uses the one library that is live on it.
LEMMA UsesIs ==
  ASSUME OInv, NEW u \in Users, NEW p \in Paths
  PROVE  /\ \A l \in Libs : Live(l) /\ library[l].path = p => Uses(u, p) = Share(u, l)
         /\ (\A l \in Libs : ~(Live(l) /\ library[l].path = p)) => Uses(u, p) = 0
<1>0. PICK on : on = {l \in Libs : library[l].path = p}
  OBVIOUS
<1>1. on \in SUBSET Libs /\ IsFiniteSet(on)
  BY <1>0, FiniteAssumption, FS_Subset
<1>2. \A k, l \in on : Live(k) /\ Live(l) => k = l
  BY <1>0 DEF OInv, OnePerPath
<1>3. CASE u \in Threads
  <2>1. held[u] \in [Libs -> Nat]
    BY <1>3 DEF OInv, IInv, TypeOK
  <2>2. Uses(u, p) = SumOver(held[u], on)
    BY <1>0, <1>3 DEF Uses, SumOver
  <2>3. \A l \in Libs : Share(u, l) = held[u][l] /\ (~Live(l) => held[u][l] = 0)
    BY <1>3, ShareIs DEF Share
  <2>4. ASSUME NEW l \in on, Live(l) PROVE Uses(u, p) = held[u][l]
    <3>1. \A k \in on : k # l => held[u][k] = 0
      BY <1>1, <1>2, <2>3, <2>4
    <3> QED BY <1>1, <2>1, <2>2, <3>1, SumOfPart
  <2>5. ASSUME \A l \in on : ~Live(l) PROVE Uses(u, p) = 0
    <3>1. \A k \in on : held[u][k] = 0
      BY <1>1, <2>3, <2>5
    <3> QED BY <1>1, <2>1, <2>2, <3>1, SumOfPart
  <2> QED BY <1>0, <2>3, <2>4, <2>5
<1>4. CASE u \notin Threads
  <2>0. PICK H : H = {h \in UNION {StaticHandles(l) : l \in on} : h[1] = u}
    OBVIOUS
  <2>1. Uses(u, p) = Cardinality(H)
    BY <1>0, <1>4, <2>0 DEF Uses
  <2>2. \A l \in Libs : ~Live(l) => StaticHandles(l) = {}
    BY Unready
  <2>3. ASSUME NEW l \in on, Live(l) PROVE Uses(u, p) = Share(u, l)
    <3>1. \A k \in on : k # l => StaticHandles(k) = {}
      BY <1>1, <1>2, <2>2, <2>3
    <3>2. H = {h \in StaticHandles(l) : h[1] = u}
      BY <2>0, <3>1
    <3> QED BY <1>4, <2>1, <3>2 DEF Share
  <2>4. ASSUME \A l \in on : ~Live(l) PROVE Uses(u, p) = 0
    <3>1. \A k \in on : StaticHandles(k) = {}
      BY <1>1, <2>2, <2>4
    <3>2. H = {}
      BY <2>0, <3>1
    <3> QED BY <2>1, <3>2, FS_EmptySet
  <2> QED BY <1>0, <2>3, <2>4
<1> QED BY <1>3, <1>4

SharesAre == \A u \in Users, l \in Libs : Share(u, l) \in Nat /\ (~Live(l) => Share(u, l) = 0)
UsesAre ==
  \A u \in Users, p \in Paths :
    /\ \A l \in Libs : Live(l) /\ library[l].path = p => Uses(u, p) = Share(u, l)
    /\ (\A l \in Libs : ~(Live(l) /\ library[l].path = p)) => Uses(u, p) = 0

LEMMA UsesKnown == OInv => SharesAre /\ UsesAre
BY ShareIs, UsesIs DEF SharesAre, UsesAre

\* Libraries keep their path while they live.
PathsKept == \A k \in Libs : Live(k) => library'[k].path = library[k].path

\* A step that changes what u has of l at most.
LEMMA UsesChange ==
  ASSUME OInv, OInv', PathsKept, NEW u \in Users, NEW l \in Libs, Live(l), Live(l)',
         \A k \in Libs : k # l => Share(u, k)' = Share(u, k), NEW q, q = library[l].path
  PROVE  /\ q \in Paths
         /\ Uses(u, q) = Share(u, l) /\ Uses(u, q)' = Share(u, l)'
         /\ \A p \in Paths : p # q => Uses(u, p)' = Uses(u, p)
<1>1. SharesAre /\ UsesAre /\ SharesAre' /\ UsesAre'
  BY UsesKnown, PTL
<1>2. q \in Paths /\ library[l].path = q /\ library'[l].path = q
  BY DEF OInv, IInv, TypeOK, Library, PathsKept
<1>3. Users' = Users
  BY DEF Users
<1>4. Uses(u, q) = Share(u, l) /\ Uses(u, q)' = Share(u, l)'
  BY <1>1, <1>2, <1>3 DEF UsesAre
<1>5. ASSUME NEW p \in Paths, p # q PROVE Uses(u, p)' = Uses(u, p)
  <2>1. CASE \E k \in Libs : Live(k) /\ library[k].path = p /\ Live(k)'
    <3>1. PICK k \in Libs : Live(k) /\ library[k].path = p /\ Live(k)'
      BY <2>1
    <3>2. k # l /\ library'[k].path = p
      BY <1>2, <1>5, <3>1 DEF PathsKept
    <3> QED BY <1>1, <1>3, <3>1, <3>2 DEF UsesAre
  <2>2. CASE \A k \in Libs : ~(Live(k) /\ library[k].path = p /\ Live(k)')
    <3>1. Uses(u, p) = 0
      <4>1. CASE \E k \in Libs : Live(k) /\ library[k].path = p
        <5>1. PICK k \in Libs : Live(k) /\ library[k].path = p
          BY <4>1
        <5>2. k # l /\ ~Live(k)'
          BY <1>2, <1>5, <2>2, <5>1
        <5>3. Share(u, k)' = 0
          BY <1>1, <1>3, <5>2 DEF SharesAre
        <5> QED BY <1>1, <5>1, <5>2, <5>3 DEF UsesAre
      <4>2. CASE \A k \in Libs : ~(Live(k) /\ library[k].path = p)
        BY <1>1, <4>2 DEF UsesAre
      <4> QED BY <4>1, <4>2
    <3>2. Uses(u, p)' = 0
      <4>1. CASE \E k \in Libs : Live(k)' /\ library'[k].path = p
        <5>1. PICK k \in Libs : Live(k)' /\ library'[k].path = p
          BY <4>1
        <5>2. k # l /\ ~Live(k)
          BY <1>2, <1>5, <2>2, <5>1 DEF PathsKept
        <5>3. Share(u, k) = 0
          BY <1>1, <5>2 DEF SharesAre
        <5> QED BY <1>1, <1>3, <5>1, <5>2, <5>3 DEF UsesAre
      <4>2. CASE \A k \in Libs : ~(Live(k)' /\ library'[k].path = p)
        BY <1>1, <1>3, <4>2 DEF UsesAre
      <4> QED BY <4>1, <4>2
    <3> QED BY <3>1, <3>2
  <2> QED BY <2>1, <2>2
<1> QED BY <1>2, <1>4, <1>5

\* A step that changes nothing that users have.
LEMMA UsesSame ==
  ASSUME OInv, OInv', PathsKept, held' = held,
         \A k \in Libs : StaticHandles(k)' = StaticHandles(k)
  PROVE  \A u \in Users, p \in Paths : Uses(u, p)' = Uses(u, p)
<1> SUFFICES ASSUME NEW u \in Users, NEW p \in Paths PROVE Uses(u, p)' = Uses(u, p)
  OBVIOUS
<1>1. SharesAre /\ UsesAre /\ SharesAre' /\ UsesAre'
  BY UsesKnown, PTL
<1>2. Users' = Users
  BY DEF Users
<1>3. \A k \in Libs : Share(u, k)' = Share(u, k)
  BY DEF Share
<1>4. CASE \E k \in Libs : Live(k) /\ library[k].path = p
  <2>1. PICK k \in Libs : Live(k) /\ library[k].path = p
    BY <1>4
  <2>2. CASE Live(k)'
    BY <1>1, <1>2, <1>3, <2>1, <2>2 DEF UsesAre, PathsKept
  <2>3. CASE ~Live(k)'
    <3>1. Uses(u, p) = 0
      BY <1>1, <1>2, <1>3, <2>1, <2>3 DEF UsesAre, SharesAre
    <3>2. CASE \E m \in Libs : Live(m)' /\ library'[m].path = p
      <4>1. PICK m \in Libs : Live(m)' /\ library'[m].path = p
        BY <3>2
      <4>2. ~Live(m)
        BY <2>1, <2>3, <4>1 DEF OInv, OnePerPath, PathsKept
      <4> QED BY <1>1, <1>2, <1>3, <3>1, <4>1, <4>2 DEF UsesAre, SharesAre
    <3>3. CASE \A m \in Libs : ~(Live(m)' /\ library'[m].path = p)
      BY <1>1, <1>2, <3>1, <3>3 DEF UsesAre
    <3> QED BY <3>2, <3>3
  <2> QED BY <2>2, <2>3
<1>5. CASE \A k \in Libs : ~(Live(k) /\ library[k].path = p)
  <2>1. Uses(u, p) = 0
    BY <1>1, <1>5 DEF UsesAre
  <2>2. CASE \E m \in Libs : Live(m)' /\ library'[m].path = p
    <3>1. PICK m \in Libs : Live(m)' /\ library'[m].path = p
      BY <2>2
    <3>2. ~Live(m)
      BY <1>2, <1>5, <3>1 DEF PathsKept
    <3> QED BY <1>1, <1>2, <1>3, <2>1, <3>1, <3>2 DEF UsesAre, SharesAre
  <2>3. CASE \A m \in Libs : ~(Live(m)' /\ library'[m].path = p)
    BY <1>1, <1>2, <2>1, <2>3 DEF UsesAre
  <2> QED BY <2>2, <2>3
<1> QED BY <1>4, <1>5

-----------------------------------------------------------------------------
UsesNow == [u \in Threads \cup Paths |-> [p \in Paths |-> Uses(u, p)]]

LEMMA UsesOne ==
  ASSUME OInv, OInv', PathsKept, NEW v \in Users, NEW l \in Libs, Live(l), Live(l)',
         \A u \in Users, k \in Libs : u # v \/ k # l => Share(u, k)' = Share(u, k),
         NEW q, q = library[l].path, NEW d, Share(v, l)' = d
  PROVE  /\ q \in Paths /\ UsesNow[v][q] = Share(v, l)
         /\ UsesNow' = [UsesNow EXCEPT ![v][q] = d]
<1>1. q \in Paths
  BY UsesChange
<1>2. Uses(v, q) = Share(v, l) /\ Uses(v, q)' = d /\ \A p \in Paths : p # q => Uses(v, p)' = Uses(v, p)
  <2>1. \A k \in Libs : k # l => Share(v, k)' = Share(v, k)
    OBVIOUS
  <2> QED BY <2>1, UsesChange
<1>3. ASSUME NEW u \in Users, NEW p \in Paths, u # v PROVE Uses(u, p)' = Uses(u, p)
  <2>1. \A k \in Libs : Share(u, k)' = Share(u, k)
    BY <1>3
  <2>2. Uses(u, q) = Share(u, l) /\ Uses(u, q)' = Share(u, l)' /\ \A r \in Paths : r # q => Uses(u, r)' = Uses(u, r)
    BY <2>1, UsesChange
  <2> QED BY <2>1, <2>2
<1>4. \A u \in Users, p \in Paths : Uses(u, p)' = IF u = v /\ p = q THEN d ELSE Uses(u, p)
  BY <1>2, <1>3
<1>5. Users = Threads \cup Paths
  BY DEF Users
<1>6. UsesNow[v][q] = Share(v, l)
  BY <1>1, <1>2, <1>5 DEF UsesNow
<1>7. UsesNow' = [u \in Users |-> [p \in Paths |-> Uses(u, p)']]
  BY <1>5 DEF UsesNow
<1>8. UsesNow = [u \in Users |-> [p \in Paths |-> Uses(u, p)]]
  BY <1>5 DEF UsesNow
<1>9. UsesNow' = [u \in Users |-> [p \in Paths |-> IF u = v /\ p = q THEN d ELSE UsesNow[u][p]]]
  BY <1>4, <1>7, <1>8
<1>10. UsesNow = [u \in Users |-> [p \in Paths |-> UsesNow[u][p]]]
  BY <1>8
<1> HIDE DEF UsesNow
<1> QED BY <1>1, <1>6, <1>9, <1>10

LEMMA ServesNothing ==
  ASSUME OInv, OInv', PathsKept, held' = held,
         \A k \in Libs : StaticHandles(k)' = StaticHandles(k)
  PROVE  UsesNow' = UsesNow
BY UsesSame DEF UsesNow, Users

Serves == [Service!Next]_<<OpenPaths, UsesNow>>

LEMMA OpenSame ==
  ASSUME \A p \in Paths : (cache'[p] # NoLib /\ library'[cache'[p]].ready)
                          <=> (cache[p] # NoLib /\ library[cache[p]].ready)
  PROVE  OpenPaths' = OpenPaths
BY DEF OpenPaths

\* A load returns a plug-in: its caller, the application or a plug-in, acquires it.
LEMMA HandsOverAcquires ==
  ASSUME OInv, IInv', OInv', Orderly, NEW t, NEW l, HandsOver(t, l)
  PROVE  Serves
<1>0. PICK c, n, q : c = Caller(t) /\ n = Len(stack[t]) /\ q = library[l].path
  OBVIOUS
<1>1. /\ t \in Threads /\ l \in Libs /\ cache' = cache /\ Live(l) /\ Cached(l) /\ library'[l].ready
      /\ \A k \in Libs : /\ k # l => library'[k] = library[k]
                         /\ library'[k].state = library[k].state
                         /\ library'[k].path = library[k].path
  BY HandsOverIs DEF HandsOver
<1>2. PathsKept /\ Live(l)'
  BY <1>1 DEF PathsKept, Live
<1>3. /\ Len(stack[t]) = 1 \/ Len(stack[t]) > 1
      /\ Len(stack[t]) = 1 => statics' = statics /\ held' = [held EXCEPT ![t][l] = @ + 1]
      /\ Len(stack[t]) > 1 =>
           /\ held' = held
           /\ c.at = "register" /\ c.path \in Paths /\ c.next \in Elements(c.path)
           /\ c.lib \in Libs /\ Live(c.lib) /\ library[c.lib].path = c.path
           /\ ~library[c.lib].ready /\ c.lib # l
           /\ statics[c.path][c.next] = NoLib /\ statics'[c.path][c.next] = l
           /\ <<c.path, c.next>> \notin InDeletion
           /\ \A p \in Paths : \A i \in Elements(p) :
                p # c.path \/ i # c.next => statics'[p][i] = statics[p][i]
      /\ InDeletion' = InDeletion
  BY <1>0, <1>1, HandsOverTo
<1>4. q \in Paths /\ cache[q] = l /\ l # NoLib
  BY <1>0, <1>1, LibsAssumption DEF OInv, IInv, TypeOK, Library, Cached
<1>5. OpenPaths' = OpenPaths \cup {q}
  <2>1. \A p \in Paths : cache[p] # NoLib => cache[p] \in Libs
    BY DEF OInv, IInv, TypeOK
  <2>2. \A p \in Paths : cache[p] = l => p = q
    BY <1>0, <1>4 DEF OInv, CacheLive
  <2>3. \A p \in Paths : p # q => ((cache'[p] # NoLib /\ library'[cache'[p]].ready)
                                   <=> (cache[p] # NoLib /\ library[cache[p]].ready))
    BY <1>1, <2>1, <2>2
  <2>4. cache'[q] # NoLib /\ library'[cache'[q]].ready
    BY <1>1, <1>4
  <2> QED BY <1>4, <2>3, <2>4 DEF OpenPaths
<1>6. held \in [Threads -> [Libs -> Nat]]
  BY DEF OInv, IInv, TypeOK
<1>7. ASSUME NEW v \in Users, NEW d, d = Share(v, l) + 1, Share(v, l)' = d,
             \A u \in Users, k \in Libs : u # v \/ k # l => Share(u, k)' = Share(u, k)
      PROVE  Serves
  <2>1. UsesNow[v][q] = Share(v, l) /\ UsesNow' = [UsesNow EXCEPT ![v][q] = d]
    BY <1>0, <1>1, <1>2, <1>7, UsesOne
  <2>2. UsesNow' = [UsesNow EXCEPT ![v][q] = @ + 1]
    BY <1>7, <2>1
  <2>3. Service!Acquire(v, q)
    BY <1>5, <2>2 DEF Service!Acquire, UsesNow
  <2>4. v \in Threads \cup Paths
    BY DEF Users
  <2> QED BY <1>4, <2>3, <2>4 DEF Serves, Service!Next
<1>8. CASE n = 1
  <2>1. \A k \in Libs : StaticHandles(k)' = StaticHandles(k)
    BY <1>0, <1>3, <1>8 DEF StaticHandles
  <2>2. \A u \in Threads, k \in Libs : held'[u][k] = IF u = t /\ k = l THEN held[u][k] + 1 ELSE held[u][k]
    BY <1>0, <1>1, <1>3, <1>6, <1>8
  <2>3. \A u \in Users, k \in Libs : u # t \/ k # l => Share(u, k)' = Share(u, k)
    BY <2>1, <2>2 DEF Share
  <2>4. t \in Users /\ Share(t, l)' = Share(t, l) + 1
    BY <1>1, <2>2 DEF Share, Users
  <2> QED BY <1>7, <2>3, <2>4
<1>9. CASE n > 1
  <2>0. PICK v, x : v = c.path /\ x = <<c.path, c.next>>
    OBVIOUS
  <2>1. v \in Paths /\ v \notin Threads
    BY <1>0, <1>3, <1>9, <2>0, UsersAssumption
  <2>2. \A p \in Paths : DOMAIN statics'[p] = Elements(p) /\ DOMAIN statics[p] = Elements(p)
    BY RequiresAssumption DEF OInv, IInv, TypeOK, Elements
  <2>3. \A k \in Libs : \A y : y \in StaticHandles(k)' <=> y \in StaticHandles(k) \/ (k = l /\ y = x)
    <3> SUFFICES ASSUME NEW k \in Libs, NEW y
                 PROVE  y \in StaticHandles(k)' <=> y \in StaticHandles(k) \/ (k = l /\ y = x)
      OBVIOUS
    <3>1. y \in StaticHandles(k) <=>
            /\ \E p \in Paths : \E i \in Elements(p) : y = <<p, i>> /\ statics[p][i] = k
            /\ y \notin InDeletion
      BY <2>2 DEF StaticHandles
    <3>2. y \in StaticHandles(k)' <=>
            /\ \E p \in Paths : \E i \in Elements(p) : y = <<p, i>> /\ statics'[p][i] = k
            /\ y \notin InDeletion
      BY <1>3, <2>2 DEF StaticHandles
    <3>3. k # NoLib
      BY LibsAssumption
    <3> QED BY <1>0, <1>3, <1>9, <2>0, <3>1, <3>2, <3>3
  <2>4. x[1] = v /\ x \notin StaticHandles(l)
    BY <1>0, <1>3, <1>4, <1>9, <2>0 DEF StaticHandles
  <2>5. \A u \in Users, k \in Libs : u # v \/ k # l => Share(u, k)' = Share(u, k)
    <3> TAKE u \in Users, k \in Libs
    <3> HAVE u # v \/ k # l
    <3>1. {h \in StaticHandles(k)' : h[1] = u} = {h \in StaticHandles(k) : h[1] = u}
      BY <2>3, <2>4
    <3> QED BY <1>0, <1>3, <1>9, <3>1 DEF Share
  <2>6. Share(v, l)' = Share(v, l) + 1
    <3>0. PICK H : H = {h \in StaticHandles(l) : h[1] = v}
      OBVIOUS
    <3>1. {h \in StaticHandles(l)' : h[1] = v} = H \cup {x} /\ x \notin H
      BY <1>1, <2>3, <2>4, <3>0
    <3>2. IsFiniteSet(H)
      BY <1>1, <3>0, HandlesFinite, FS_Subset DEF OInv
    <3>3. Cardinality(H \cup {x}) = Cardinality(H) + 1
      BY <3>1, <3>2, FS_AddElement
    <3> QED BY <2>1, <3>0, <3>1, <3>3 DEF Share
  <2> QED BY <1>7, <2>1, <2>5, <2>6 DEF Users
<1> QED BY <1>0, <1>3, <1>8, <1>9

\* The deletion of a plug-in object that is in somebody's hands begins: it releases.
LEMMA Releases ==
  ASSUME OInv, OInv', NEW v \in Users, NEW l \in Libs, Live(l), library[l].ready, Cached(l),
         cache' = cache, library' = library, NEW d \in Nat, Share(v, l) = d + 1, Share(v, l)' = d,
         \A u \in Users, k \in Libs : u # v \/ k # l => Share(u, k)' = Share(u, k)
  PROVE  Serves
<1>0. PICK q : q = library[l].path
  OBVIOUS
<1>1. PathsKept /\ Live(l)'
  BY DEF PathsKept, Live
<1>2. q \in Paths /\ UsesNow[v][q] = Share(v, l) /\ UsesNow' = [UsesNow EXCEPT ![v][q] = d]
  BY <1>0, <1>1, UsesOne
<1>3. q \in OpenPaths /\ OpenPaths' = OpenPaths
  BY <1>0, <1>2, LibsAssumption DEF OpenPaths, Cached
<1>4. UsesNow[v][q] > 0 /\ UsesNow[v][q] - 1 = d
  BY <1>2
<1>5. UsesNow' = [UsesNow EXCEPT ![v][q] = @ - 1]
  BY <1>2, <1>4
<1>6. Service!Release(v, q)
  BY <1>3, <1>4, <1>5 DEF Service!Release, UsesNow
<1>7. v \in Threads \cup Paths
  BY DEF Users
<1> QED BY <1>2, <1>6, <1>7 DEF Serves, Service!Next

LEMMA CallDeleteReleases ==
  ASSUME OInv, IInv', OInv', NEW t \in Threads, NEW l \in Libs, CallDelete(t, l)
  PROVE  Serves
<1>0. PICK g : g = NewCall("dispose", library[l].path, l)
  OBVIOUS
<1>1. /\ Call(t, g) /\ Idle(t) /\ held[t][l] > 0
      /\ held' = [held EXCEPT ![t][l] = @ - 1]
      /\ UNCHANGED <<initialized, owner, cache, library, ref, statics>>
  BY <1>0 DEF CallDelete
<1>2. Live(l) /\ library[l].ready
  BY <1>1 DEF OInv, HeldLive
<1>3. held \in [Threads -> [Libs -> Nat]]
  BY DEF OInv, IInv, TypeOK
<1>4. HeldHandles(l) # 0
  BY <1>1, <1>3, HeldIsUnits DEF OInv, HeldCounted
<1>5. Cached(l)
  BY <1>2, <1>4, HandedOutCached
<1>6. \A k \in Libs : StaticHandles(k)' = StaticHandles(k)
  <2>1. \A y : ~Deletes(t, y)
    BY <1>1 DEF Deletes
  <2>2. \A y : y \in InDeletion' <=> y \in InDeletion
    BY <1>1, <2>1, CallDeletions DEF OInv
  <2>3. InDeletion' = InDeletion
    BY <2>2
  <2> QED BY <1>1, <2>3 DEF StaticHandles
<1>7. PICK d \in Nat : d = held[t][l] - 1 /\ held[t][l] = d + 1
  BY <1>1, <1>3
<1>8. \A u \in Threads, k \in Libs : held'[u][k] = IF u = t /\ k = l THEN d ELSE held[u][k]
  BY <1>1, <1>3, <1>7
<1>9. t \in Users /\ Share(t, l) = d + 1 /\ Share(t, l)' = d
  BY <1>7, <1>8 DEF Share, Users
<1>10. \A u \in Users, k \in Libs : u # t \/ k # l => Share(u, k)' = Share(u, k)
  BY <1>6, <1>8 DEF Share
<1> QED BY <1>1, <1>2, <1>5, <1>9, <1>10, Releases

LEMMA DeleteRequiredReleases ==
  ASSUME OInv, IInv', OInv', NEW t \in Threads, DeleteRequired(t),
         statics[Top(t).path][Top(t).next] # NoLib
  PROVE  Serves
<1>0. PICK p, n, l : p = Top(t).path /\ n = Top(t).next /\ l = statics[p][n]
  OBVIOUS
<1>1. PICK g : g = NewCall("dispose", library[l].path, l)
  OBVIOUS
<1>2. /\ Call(t, g) /\ ~Idle(t) /\ Top(t).at \in {"at_exit", "unregister"}
      /\ Top(t).next <= Top(t).last
      /\ UNCHANGED <<initialized, owner, cache, library, ref, statics, held>>
  BY <1>0, <1>1 DEF DeleteRequired, At
<1>3. /\ p \in Paths /\ n \in Elements(p)
      /\ l \in Libs /\ Live(l) /\ library[l].ready /\ Cached(l)
      /\ <<p, n>> \in StaticHandles(l)
  BY <1>0, <1>2, StaticDeleted
<1>4. p \notin Threads /\ p \in Users
  BY <1>3, UsersAssumption DEF Users
<1>5. PICK x : x = <<p, n>>
  OBVIOUS
<1>6. \A k \in Libs : \A y : y \in StaticHandles(k)' <=> y \in StaticHandles(k) /\ y # x
  <2>1. \A y : y \in InDeletion' <=> y \in InDeletion \/ Deletes(t, y)
    BY <1>2, CallDeletions DEF OInv
  <2>2. \A y : y \in InDeletion' <=> y \in InDeletion \/ y = x
    BY <1>0, <1>2, <1>5, <2>1 DEF Deletes
  <2> QED BY <1>2, <2>2 DEF StaticHandles
<1>7. x[1] = p /\ \A k \in Libs : x \in StaticHandles(k) => k = l
  BY <1>0, <1>3, <1>5 DEF StaticHandles
<1>8. \A u \in Users, k \in Libs : u # p \/ k # l => Share(u, k)' = Share(u, k)
  <2> TAKE u \in Users, k \in Libs
  <2> HAVE u # p \/ k # l
  <2>1. {h \in StaticHandles(k)' : h[1] = u} = {h \in StaticHandles(k) : h[1] = u}
    BY <1>6, <1>7
  <2> QED BY <1>2, <2>1 DEF Share
<1>9. PICK H : H = {h \in StaticHandles(l)' : h[1] = p}
  OBVIOUS
<1>10. {h \in StaticHandles(l) : h[1] = p} = H \cup {x} /\ x \notin H
  BY <1>3, <1>5, <1>6, <1>7, <1>9
<1>11. IsFiniteSet(H)
  <2>1. IsFiniteSet({h \in StaticHandles(l) : h[1] = p})
    BY <1>3, HandlesFinite, FS_Subset DEF OInv
  <2> QED BY <1>10, <2>1, FS_Subset
<1>12. Cardinality(H \cup {x}) = Cardinality(H) + 1 /\ Cardinality(H) \in Nat
  BY <1>10, <1>11, FS_AddElement, FS_CardinalityType
<1>13. PICK d \in Nat : d = Cardinality(H)
  BY <1>12
<1>14. Share(p, l)' = d /\ Share(p, l) = d + 1
  BY <1>4, <1>9, <1>10, <1>12, <1>13 DEF Share
<1> QED BY <1>2, <1>3, <1>4, <1>8, <1>14, Releases

\* A library nobody uses leaves the cache.
LEMMA UncacheCloses ==
  ASSUME OInv, IInv', OInv', NEW t \in Threads, UncacheLibrary(t)
  PROVE  Serves
<1>0. PICK l, q, g : l = Top(t).lib /\ q = library[l].path /\ g = [Top(t) EXCEPT !.at = "zero"]
  OBVIOUS
<1>1. /\ ~Idle(t) /\ Top(t).at = "uncache" /\ CacheRemove(l) /\ Become(t, g)
      /\ UNCHANGED <<initialized, owner, library, statics, held>>
  BY <1>0 DEF UncacheLibrary, At, Goto
<1>2. /\ l \in Libs /\ Live(l) /\ q = Top(t).path /\ q \in Paths /\ Good(Top(t))
  BY <1>0, <1>1, TopGood DEF NoLibraryYet
<1>3. cache[q] = l /\ ref[l] = 1 /\ l # NoLib
  BY <1>0, <1>1, <1>2, LibsAssumption DEF Good, CachedAt, RefAt
<1>4. library[l].ready
  BY <1>0, <1>1, <1>2, <1>3 DEF Good, FlagsAt, Doomed
<1>5. /\ HeldHandles(l) \in Nat /\ Cardinality(StaticHandles(l)) \in Nat
      /\ Cardinality(CallHandles(l)) \in Nat
  BY <1>2, HandlesFinite, HeldIsUnits DEF HeldCounted, OInv
<1>6. ref[l] = 1 + HeldHandles(l) + Cardinality(StaticHandles(l)) + Cardinality(CallHandles(l))
  BY <1>0, <1>2, <1>3 DEF OInv, RefExact
<1>7. HeldHandles(l) = 0 /\ Cardinality(StaticHandles(l)) = 0
  BY <1>3, <1>5, <1>6
<1>8. \A u \in Users : Share(u, l) = 0
  <2> TAKE u \in Users
  <2>1. StaticHandles(l) = {}
    BY <1>2, <1>7, HandlesFinite, FS_EmptySet DEF OInv
  <2>2. {h \in StaticHandles(l) : h[1] = u} = {}
    BY <2>1
  <2>3. \A w \in Threads : held[w][l] = 0
    BY <1>2, <1>7, HeldIsUnits DEF HeldCounted, OInv
  <2> QED BY <2>2, <2>3, FS_EmptySet DEF Share
<1>9. \A u \in Users : Uses(u, q) = 0
  BY <1>0, <1>2, <1>8, UsesIs
<1>10. cache' = [cache EXCEPT ![q] = NoLib]
  BY <1>0, <1>1, <1>3 DEF CacheRemove
<1>11. q \in OpenPaths /\ OpenPaths' = OpenPaths \ {q}
  <2>1. cache \in [Paths -> Libs \cup {NoLib}]
    BY DEF OInv, IInv, TypeOK
  <2>2. cache'[q] = NoLib /\ \A p \in Paths : p # q => cache'[p] = cache[p]
    BY <1>2, <1>10, <2>1
  <2> QED BY <1>1, <1>2, <1>3, <1>4, <2>2 DEF OpenPaths
<1>12. \A k \in Libs : StaticHandles(k)' = StaticHandles(k)
  BY <1>1, BecomeHandles DEF OInv
<1>13. UsesNow' = UsesNow
  BY <1>1, <1>12, ServesNothing DEF PathsKept
<1>14. Service!Close(q)
  BY <1>2, <1>9, <1>11, <1>13 DEF Service!Close, Service!Unused, UsesNow, Users
<1> QED BY <1>2, <1>14 DEF Serves, Service!Next

\* The steps that users do not see.
LEMMA BecomeServes ==
  ASSUME OInv, IInv', OInv', NEW t \in Threads, ~Idle(t), NEW g, Become(t, g),
         statics' = statics, held' = held, PathsKept, OpenPaths' = OpenPaths
  PROVE  Serves
<1>1. \A k \in Libs : StaticHandles(k)' = StaticHandles(k)
  BY BecomeHandles DEF OInv
<1> QED BY <1>1, ServesNothing DEF Serves

LEMMA QuietlyServes ==
  ASSUME OInv, IInv', OInv', NEW t \in Threads, ~Idle(t), NEW g, Become(t, g),
         UNCHANGED <<cache, library, statics, held>>
  PROVE  Serves
<1>1. PathsKept /\ OpenPaths' = OpenPaths
  BY DEF PathsKept, OpenPaths
<1> QED BY <1>1, BecomeServes

LEMMA CallServes ==
  ASSUME OInv, IInv', OInv', NEW t \in Threads, NEW g, Call(t, g), \A y : ~Deletes(t, y),
         UNCHANGED <<cache, library, statics, held>>
  PROVE  Serves
<1>1. \A y : y \in InDeletion' <=> y \in InDeletion
  BY CallDeletions DEF OInv
<1>2. InDeletion' = InDeletion
  BY <1>1
<1>3. \A k \in Libs : StaticHandles(k)' = StaticHandles(k)
  BY <1>2 DEF StaticHandles
<1>4. PathsKept /\ OpenPaths' = OpenPaths
  BY DEF PathsKept, OpenPaths
<1> QED BY <1>3, <1>4, ServesNothing DEF Serves

LEMMA NoneServes ==
  ASSUME OInv, IInv', OInv', NEW t \in Threads, ~Idle(t), Return(t, NoLib),
         PathsKept, OpenPaths' = OpenPaths
  PROVE  Serves
<1>1. held' = held /\ \A k \in Libs : StaticHandles(k)' = StaticHandles(k)
  BY NoneStatics
<1> QED BY <1>1, ServesNothing DEF Serves

LEMMA CreateServes ==
  ASSUME OInv, IInv', OInv', NEW t \in Threads, CreateLibrary(t)
  PROVE  Serves
<1>0. PICK p : p = Top(t).path
  OBVIOUS
<1>1. PICK l \in Libs : /\ Fresh(l)
                        /\ library' = [library EXCEPT ![l] =
                             [state |-> "live", path |-> p, ready |-> FALSE,
                              inManager |-> FALSE, dso |-> FALSE]]
                        /\ cache' = [cache EXCEPT ![p] = l]
                        /\ Become(t, [Top(t) EXCEPT !.at = "load", !.lib = l])
  BY <1>0 DEF CreateLibrary
<1>2. ~Idle(t) /\ Top(t).at = "create" /\ statics' = statics /\ held' = held
  BY DEF CreateLibrary, At
<1>3. /\ library \in [Libs -> Library] /\ cache \in [Paths -> Libs \cup {NoLib}] /\ NoLib \notin Libs
      /\ p \in Paths /\ cache[p] = NoLib
  BY <1>0, <1>2, TopGood, LibsAssumption DEF OInv, IInv, TypeOK, Good, CachedAt
<1>4. ~Live(l) /\ \A q \in Paths : cache[q] # l
  BY <1>1 DEF Fresh
<1>5. ~library'[l].ready /\ \A k \in Libs : k # l => library'[k] = library[k]
  BY <1>1, <1>3
<1>6. PathsKept
  BY <1>4, <1>5 DEF PathsKept
<1>7. OpenPaths' = OpenPaths
  <2>1. cache'[p] = l /\ \A q \in Paths : q # p => cache'[q] = cache[q]
    BY <1>1, <1>3
  <2> QED BY <1>3, <1>4, <1>5, <2>1, OpenSame
<1> QED BY <1>1, <1>2, <1>6, <1>7, BecomeServes

LEMMA DiscardServes ==
  ASSUME OInv, IInv', OInv', NEW t \in Threads, DiscardLibrary(t)
  PROVE  Serves
<1>0. PICK l, g : l = Top(t).lib /\ g = [Top(t) EXCEPT !.at = "dispose"]
  OBVIOUS
<1>1. /\ ~Idle(t) /\ Top(t).at = "discard" /\ CacheRemove(l) /\ Become(t, g)
      /\ UNCHANGED <<initialized, owner, library, statics, held>>
  BY <1>0 DEF DiscardLibrary, At, Goto
<1>2. /\ l \in Libs /\ library[l].path = Top(t).path /\ Top(t).path \in Paths
      /\ cache[Top(t).path] = l /\ ~library[l].ready
  BY <1>0, <1>1, TopGood DEF NoLibraryYet, Good, CachedAt, FlagsAt, Loading
<1>3. PICK p \in Paths : p = Top(t).path
  BY <1>2
<1>4. cache' = [cache EXCEPT ![p] = NoLib] /\ cache \in [Paths -> Libs \cup {NoLib}]
  BY <1>1, <1>2, <1>3 DEF CacheRemove, OInv, IInv, TypeOK
<1>5. cache'[p] = NoLib /\ \A q \in Paths : q # p => cache'[q] = cache[q]
  BY <1>4
<1>6. OpenPaths' = OpenPaths
  BY <1>1, <1>2, <1>3, <1>5, OpenSame
<1> QED BY <1>1, <1>6, BecomeServes DEF PathsKept

LEMMA FreeServes ==
  ASSUME OInv, IInv', OInv', Orderly, NEW t \in Threads, FreeLibrary(t)
  PROVE  Serves
<1>0. PICK l : l = Top(t).lib
  OBVIOUS
<1>1. /\ ~Idle(t) /\ Top(t).at = "free" /\ Return(t, NoLib)
      /\ library' = [library EXCEPT ![l].state = "freed", ![l].ready = FALSE,
                                    ![l].inManager = FALSE, ![l].dso = FALSE]
      /\ UNCHANGED <<initialized, owner, cache, ref>>
  BY <1>0 DEF FreeLibrary, At
<1>2. l \in Libs /\ \A p \in Paths : cache[p] # l
  BY <1>0, <1>1, FreedUnused
<1>3. library \in [Libs -> Library] /\ cache \in [Paths -> Libs \cup {NoLib}]
  BY DEF OInv, IInv, TypeOK
<1>4. library'[l].path = library[l].path /\ \A k \in Libs : k # l => library'[k] = library[k]
  BY <1>1, <1>2, <1>3 DEF Library
<1>5. OpenPaths' = OpenPaths
  BY <1>1, <1>2, <1>3, <1>4, OpenSame
<1>6. PathsKept
  BY <1>2, <1>4 DEF PathsKept
<1> QED BY <1>1, <1>5, <1>6, NoneServes

\* The register function and the publication set flags users do not see.
LEMMA FlagsServe ==
  ASSUME OInv, IInv', OInv', NEW t \in Threads, RegisterClasses(t) \/ PublishLibrary(t)
  PROVE  Serves
<1>1. ~Idle(t) /\ UNCHANGED <<cache, statics, held>> /\ \E g : Become(t, g)
  BY DEF RegisterClasses, PublishLibrary, At, Goto, GotoLoop
<1>2. library \in [Libs -> Library] /\ cache \in [Paths -> Libs \cup {NoLib}]
  BY DEF OInv, IInv, TypeOK
<1>3. \A k \in Libs : library'[k].path = library[k].path /\ library'[k].ready = library[k].ready
  BY <1>2 DEF RegisterClasses, PublishLibrary, Library
<1>4. PathsKept
  BY <1>3 DEF PathsKept
<1>5. OpenPaths' = OpenPaths
  BY <1>1, <1>2, <1>3, OpenSame
<1> QED BY <1>1, <1>4, <1>5, BecomeServes

LEMMA StepServes ==
  ASSUME OInv, IInv', OInv', Orderly, NEW t \in Threads, Step(t)
  PROVE  Serves
<1>1. CASE \/ LockManager(t) \/ LookupHit(t) \/ ShareLibrary(t) \/ LookupMiss(t)
           \/ LoadLibrary(t) \/ DecRef(t) \/ CheckLastReference(t) \/ ZeroRef(t)
           \/ DestroyLibrary(t) \/ RequiredDeleted(t)
  <2>1. ~Idle(t) /\ UNCHANGED <<cache, library, statics, held>>
    BY <1>1 DEF LockManager, LookupHit, ShareLibrary, LookupMiss, LoadLibrary, DecRef,
                CheckLastReference, ZeroRef, DestroyLibrary, RequiredDeleted, At
  <2>2. \E g : Become(t, g)
    BY <1>1 DEF LockManager, LookupHit, ShareLibrary, LookupMiss, LoadLibrary, DecRef,
                CheckLastReference, ZeroRef, DestroyLibrary, RequiredDeleted, Goto, GotoLoop
  <2> QED BY <2>1, <2>2, QuietlyServes
<1>2. CASE ResolveFails(t)
  <2>1. ~Idle(t) /\ Return(t, NoLib) /\ UNCHANGED <<cache, library>>
    BY <1>2 DEF ResolveFails, At
  <2>2. PathsKept /\ OpenPaths' = OpenPaths
    BY <2>1 DEF PathsKept, OpenPaths
  <2> QED BY <2>1, <2>2, NoneServes
<1>3. CASE SpinEnds(t)
  <2>1. PICK l : l = Top(t).lib
    OBVIOUS
  <2>2. ~Idle(t) /\ Top(t).at = "spin" /\ library[l].ready /\ Return(t, l)
        /\ UNCHANGED <<initialized, owner, cache, library, ref>>
    BY <1>3, <2>1 DEF SpinEnds, At
  <2>3. l \in Libs
    BY <2>1, <2>2, TopGood DEF NoLibraryYet
  <2>4. HandsOver(t, l)
    BY <2>1, <2>2, <2>3 DEF HandsOver
  <2> QED BY <2>4, HandsOverAcquires
<1>4. CASE SetReady(t)
  <2>1. PICK l : l = Top(t).lib
    OBVIOUS
  <2>2. ~Idle(t) /\ Top(t).at = "set_ready" /\ Return(t, l)
        /\ library' = [library EXCEPT ![l].ready = TRUE]
        /\ UNCHANGED <<initialized, owner, cache, ref>>
    BY <1>4, <2>1 DEF SetReady, At
  <2>3. l \in Libs /\ library \in [Libs -> Library]
    BY <2>1, <2>2, TopGood DEF NoLibraryYet, OInv, IInv, TypeOK
  <2>4. HandsOver(t, l)
    BY <2>1, <2>2, <2>3 DEF HandsOver, Library
  <2> QED BY <2>4, HandsOverAcquires
<1>5. CASE CreateLibrary(t)
  BY <1>5, CreateServes
<1>6. CASE RegisterRequired(t)
  <2>1. PICK g : Call(t, g)
    BY <1>6 DEF RegisterRequired
  <2>2. UNCHANGED <<cache, library, statics, held>> /\ \A y : ~Deletes(t, y)
    BY <1>6 DEF RegisterRequired, At, Deletes
  <2> QED BY <2>1, <2>2, CallServes
<1>7. CASE RegisterClasses(t) \/ PublishLibrary(t)
  BY <1>7, FlagsServe
<1>8. CASE DiscardLibrary(t)
  BY <1>8, DiscardServes
<1>9. CASE UncacheLibrary(t)
  BY <1>9, UncacheCloses
<1>10. CASE TestUnreferenced(t) /\ ref[Top(t).lib] = 0
  <2>1. ~Idle(t) /\ UNCHANGED <<cache, library, statics, held>> /\ \E g : Become(t, g)
    BY <1>10 DEF TestUnreferenced, At, Goto
  <2> QED BY <2>1, QuietlyServes
<1>11. CASE TestUnreferenced(t) /\ ref[Top(t).lib] # 0
  <2>1. ~Idle(t) /\ Return(t, NoLib) /\ UNCHANGED <<cache, library>>
    BY <1>11 DEF TestUnreferenced, At
  <2>2. PathsKept /\ OpenPaths' = OpenPaths
    BY <2>1 DEF PathsKept, OpenPaths
  <2> QED BY <2>1, <2>2, NoneServes
<1>12. CASE DeleteRequired(t) /\ statics[Top(t).path][Top(t).next] = NoLib
  <2>1. ~Idle(t) /\ UNCHANGED <<cache, library, statics, held>> /\ \E g : Become(t, g)
    BY <1>12 DEF DeleteRequired, At
  <2> QED BY <2>1, QuietlyServes
<1>13. CASE DeleteRequired(t) /\ statics[Top(t).path][Top(t).next] # NoLib
  BY <1>13, DeleteRequiredReleases
<1>14. CASE FreeLibrary(t)
  BY <1>14, FreeServes
<1> QED
  BY <1>1, <1>2, <1>3, <1>4, <1>5, <1>6, <1>7, <1>8, <1>9, <1>10, <1>11, <1>12, <1>13, <1>14
     DEF Step

LEMMA NextServes == Orderly /\ OInv /\ IInv' /\ OInv' /\ [Next]_vars => Serves
<1> SUFFICES ASSUME Orderly, OInv, IInv', OInv', [Next]_vars PROVE Serves
  OBVIOUS
<1>1. CASE InitManager \/ QuitManager
  <2>1. AllQuiet
    BY <1>1 DEF InitManager, QuitManager, OInv, Closed, AllQuiet
  <2>2. Empty
    BY <2>1, QuietIsEmpty
  <2>3. /\ stack' = stack /\ held' = held /\ statics' = statics
        /\ \A p \in Paths : cache'[p] = NoLib
    BY <1>1 DEF InitManager, QuitManager
  <2>4. \A l \in Libs : library'[l] = library[l]
    BY <1>1, <2>2, LibsAssumption DEF InitManager, QuitManager, Empty
  <2>5. PathsKept
    BY <2>4 DEF PathsKept
  <2>6. OpenPaths' = OpenPaths
    BY <2>2, <2>3, OpenSame DEF Empty
  <2>7. InDeletion' = InDeletion
    BY <2>3 DEF InDeletion, Frames, FrameOf
  <2>8. \A k \in Libs : StaticHandles(k)' = StaticHandles(k)
    BY <2>3, <2>7 DEF StaticHandles
  <2> QED BY <2>3, <2>5, <2>6, <2>8, ServesNothing DEF Serves
<1>2. ASSUME NEW t \in Threads, NEW p \in Paths, CallLoad(t, p)
      PROVE  Serves
  <2>1. PICK g : Call(t, g)
    BY <1>2 DEF CallLoad
  <2>2. UNCHANGED <<cache, library, statics, held>> /\ \A y : ~Deletes(t, y)
    BY <1>2 DEF CallLoad, Deletes
  <2> QED BY <2>1, <2>2, CallServes
<1>3. ASSUME NEW t \in Threads, NEW l \in Libs, CallDelete(t, l)
      PROVE  Serves
  BY <1>3, CallDeleteReleases
<1>4. ASSUME NEW t \in Threads, Step(t)
      PROVE  Serves
  BY <1>4, StepServes
<1>5. CASE UNCHANGED vars
  <2>1. UNCHANGED <<cache, library, statics, held, stack>>
    BY <1>5 DEF vars
  <2>2. PathsKept /\ OpenPaths' = OpenPaths
    BY <2>1 DEF PathsKept, OpenPaths
  <2>3. InDeletion' = InDeletion
    BY <2>1 DEF InDeletion, Frames, FrameOf
  <2>4. \A k \in Libs : StaticHandles(k)' = StaticHandles(k)
    BY <2>1, <2>3 DEF StaticHandles
  <2> QED BY <2>1, <2>2, <2>4, ServesNothing DEF Serves
<1> QED BY <1>1, <1>2, <1>3, <1>4, <1>5 DEF Next

LEMMA InitServes == Init => Service!Init
<1> SUFFICES ASSUME Init PROVE Service!Init
  OBVIOUS
<1>1. OInv
  BY OInit
<1>2. OpenPaths = {}
  BY DEF Init, OpenPaths
<1>3. \A l \in Libs : ~Live(l)
  BY DEF Init, Live
<1>4. \A u \in Threads \cup Paths, p \in Paths : Uses(u, p) = 0
  BY <1>1, <1>3, UsesIs DEF Users
<1> QED BY <1>2, <1>4 DEF Service!Init

\* The manager keeps its promise: a plug-in is opened before its first user and
\* closed only when it has none, however its loads and deletes nest and, as far as
\* the application is orderly, overlap.  PluginManager implements PluginService.
THEOREM PluginsServed ==
  ASSUME Orderly
  PROVE  Spec => ServiceSpec
<1>1. IInv /\ OInv /\ [Next]_vars => IInv' /\ OInv' /\ Serves
  BY NextPreserves, ONext, NextServes
<1>2. Serves <=> [Service!Next]_<<OpenPaths, UsesNow>>
  BY DEF Serves
<1>3. UsesNow = [u \in Threads \cup Paths |-> [p \in Paths |-> Uses(u, p)]]
  BY DEF UsesNow
<1> QED BY <1>1, <1>2, <1>3, Initially, OInit, InitServes, PTL DEF Spec, ServiceSpec, Service!Spec, UsesNow

=============================================================================
