---------------------------- MODULE EosMmapProofs ----------------------------
(***************************************************************************)
(* Proofs about EosMmap, for every number of threads, regions and units,   *)
(* every size of region and block, and every set of programs: no call      *)
(* follows a pointer that is gone, nothing that is allocated is lost, and  *)
(* as long as no two threads race to map a region every access takes       *)
(* effect in one step.                                                     *)
(***************************************************************************)
EXTENDS EosMmap, TLAPS

Running(t) == pc[t] \notin {"idle", "done"}
Copying(t) == pc[t] \in {"copy", "unlock"}

\* Thread t has been given a unit that it will use.
Uses(t) == pc[t] \in {"lock", "copy", "unlock"} \/ (pc[t] = "enter" /\ unit[t] # NoUnit)

\* Whoever initialises or exits the library is alone.
AloneInv == \A t \in Threads : Running(t) /\ Alone(req[t]) =>
                \A u \in Threads : Running(u) => u = t

\* What call a thread is in.
CallInv == \A t \in Threads :
    /\ pc[t] = "idle" => req[t] = NoRequest
    /\ pc[t] # "idle" => req[t] \in prog.calls
    /\ pc[t] \in {"test", "load", "enter", "lock", "copy", "unlock"} => IsAccess(t)
    /\ pc[t] \in {"unmap", "free"} => req[t].op = "exit"
    /\ pc[t] = "map" => req[t].op # "exit" /\ todo[t] # <<>>
    /\ pc[t] \in {"test", "map"} /\ IsAccess(t) => todo[t] = <<req[t].region>>

\* How far its copy is.
PlaceInv == \A t \in Threads :
    /\ ~Copying(t) /\ pc[t] # "done" => i[t] = 0
    /\ pc[t] # "done" => ret[t] = 0
    /\ pc[t] = "copy" => i[t] < req[t].len
    /\ pc[t] = "unlock" => i[t] = req[t].len
    /\ pc[t] \in {"lock", "copy", "unlock"} => req[t].off <= Size /\ ~req[t].null
    /\ req[t].op # "read" => out[t] = NoBlock
    /\ \A k \in Places : k >= i[t] => out[t][k] = Blank

\* A unit that a region points to is whole and maps it; an exit of the region
\* takes the mapping first.
Exiting(g) == \E t \in Threads : pc[t] = "free" /\ req[t].region = g
HeapInv ==
    /\ \A g \in Regions : ptr[g] # NoUnit =>
          /\ region[ptr[g]] = g
          /\ owns[ptr[g]] = IF Exiting(g) THEN Parts \ {"map"} ELSE Parts
    /\ \A t \in Threads : pc[t] = "free" => ptr[req[t].region] # NoUnit

\* A unit that a thread uses is whole, even if no region points to it any more.
UseInv == \A t \in Threads :
    /\ Uses(t) => /\ unit[t] # NoUnit /\ owns[unit[t]] = Parts
                  /\ region[unit[t]] = req[t].region
    /\ ~failed => /\ pc[t] = "load" => ptr[req[t].region] # NoUnit
                  /\ pc[t] = "enter" => unit[t] # NoUnit
                  /\ pc[t] # "fault"

\* The mutex of a unit is held by the thread that copies through it.
MutexInv ==
    /\ \A t \in Threads : Copying(t) => holder[unit[t]] = t
    /\ \A u \in Units : holder[u] # NoThread => Copying(holder[u]) /\ unit[holder[u]] = u

MmapInv == TypeOK /\ AloneInv /\ CallInv /\ PlaceInv /\ HeapInv /\ UseInv /\ MutexInv

\* As long as no second mapping has replaced a unit, the accesses of a region
\* share one unit, and what a write has copied stays.
OneUnitInv == lost = {} => \A t \in Threads :
    /\ Uses(t) => ptr[req[t].region] = unit[t]
    /\ Writing(t) => \A k \in Places : k < i[t] =>
                        regs[req[t].region][req[t].off + k] = req[t].data[k]

----------------------------------------------------------------------------
(* What the invariant says of one thread. *)

\* A call is one of its program.
LEMMA CallFacts ==
    ASSUME MmapInv, NEW t \in Threads, pc[t] # "idle"
    PROVE  /\ req[t] \in prog.calls /\ prog \in Programs /\ req[t] \in Request
           /\ req[t].region \in Regions /\ req[t].off \in Nat /\ req[t].len \in Nat
           /\ req[t].len <= MaxLen /\ req[t].op \in {"read", "write", "init", "exit"}
           /\ req[t].off > Size \/ req[t].off + req[t].len <= Size
           /\ IsAccess(t) => req[t].list = <<req[t].region>>
           /\ req[t].op = "init" => req[t].list # <<>>
<1>1. req[t] \in prog.calls /\ prog \in Programs
  BY DEF MmapInv, CallInv, TypeOK
<1>2. req[t] \in Request
  BY <1>1, ProgramAssumption
<1>3. req[t].len \in 0 .. MaxLen
  BY <1>2 DEF Request
<1> QED
  BY <1>1, <1>2, <1>3, ProgramAssumption, RegionAssumption DEF Request, IsAccess

\* Two regions do not share a unit.
LEMMA Injective ==
    ASSUME MmapInv, NEW g \in Regions, NEW h \in Regions, ptr[g] = ptr[h], ptr[g] # NoUnit
    PROVE  g = h
BY DEF MmapInv, HeapInv

\* Nobody else runs while a thread initialises or exits.
LEMMA OnlyRunner ==
    ASSUME MmapInv, NEW t \in Threads, Running(t), Alone(req[t]), NEW u \in Threads, u # t
    PROVE  pc[u] \in {"idle", "done"}
BY DEF MmapInv, AloneInv, Running

\* Whoever holds a mutex copies through its unit.
LEMMA HolderFacts ==
    ASSUME MmapInv, NEW u \in Units, holder[u] # NoThread
    PROVE  /\ holder[u] \in Threads /\ pc[holder[u]] \in {"copy", "unlock"}
           /\ unit[holder[u]] = u
<1>1. holder[u] \in Threads
  BY DEF MmapInv, TypeOK
<1> QED
  BY <1>1 DEF MmapInv, MutexInv, Copying

\* A thread that copies excludes the others from its unit.
LEMMA OneCopier ==
    ASSUME MmapInv, NEW t \in Threads, NEW u \in Threads, Copying(t), Copying(u),
           unit[t] = unit[u]
    PROVE  t = u
BY DEF MmapInv, MutexInv

----------------------------------------------------------------------------
(* MmapInv is inductive: one lemma for each action. *)

\* Before the first call the invariant holds, with the library initialised or
\* not.
LEMMA MmapInit == Init => MmapInv
<1> SUFFICES ASSUME Init PROVE MmapInv
  OBVIOUS
<1> USE UnitAssumption, RegionAssumption
<1>1. OneEach \in [Regions -> Units] /\ \A g, h \in Regions : OneEach[g] = OneEach[h] => g = h
  BY DEF OneEach
<1>2. NoRegion \in Regions
  BY DEF NoRegion
<1>3. ptr \in [Regions -> Units \cup {NoUnit}]
  BY <1>1 DEF Init
<1>4. \A u \in Units : owns[u] = IF \E g \in Regions : ptr[g] = u THEN Parts ELSE {}
  BY DEF Init
<1>5. \A g \in Regions : ptr[g] # NoUnit => ptr[g] \in Units /\ \A h \in Regions : ptr[h] = ptr[g] => h = g
  BY <1>1 DEF Init
<1>6. region \in [Units -> Regions]
  BY <1>2 DEF Init
<1>7. \A g \in Regions : ptr[g] # NoUnit => region[ptr[g]] = g
  <2> SUFFICES ASSUME NEW g \in Regions, ptr[g] # NoUnit PROVE region[ptr[g]] = g
    OBVIOUS
  <2>1. region[ptr[g]] = CHOOSE h \in Regions : ptr[h] = ptr[g]
    BY <1>5 DEF Init
  <2> QED
    BY <1>5, <2>1
<1>8. TypeOK
  <2>1. owns \in [Units -> SUBSET Parts]
    BY DEF Init
  <2>2. <<>> \in Seq(Regions) /\ NoBlock \in [Places -> Values \cup {Blank}]
    BY DEF NoBlock
  <2>3. pc \in [Threads -> Pcs] /\ regs \in [Regions -> [Words -> Values]]
    BY DEF Init, Pcs
  <2>4. i \in [Threads -> 0 .. MaxLen] /\ ret \in [Threads -> {0, -1}]
    BY DEF Init
  <2> QED
    BY <1>3, <1>6, <2>1, <2>2, <2>3, <2>4 DEF Init, TypeOK
<1>9. HeapInv
  BY <1>4, <1>5, <1>7 DEF Init, HeapInv, Exiting
<1>10. PlaceInv
  BY DEF Init, PlaceInv, Copying, NoBlock
<1> QED
  BY <1>8, <1>9, <1>10 DEF Init, MmapInv, AloneInv, CallInv, UseInv, MutexInv, Running, Copying, Uses

\* A step that neither enters nor leaves the end of an exit keeps the heap whole
\* if it leaves the heap alone.
LEMMA HeapKept ==
    ASSUME MmapInv, UNCHANGED <<ptr, owns, region>>,
           \A u \in Threads : pc'[u] = "free" <=> pc[u] = "free",
           \A u \in Threads : pc[u] = "free" => req'[u] = req[u]
    PROVE  HeapInv'
<1>1. \A g \in Regions : (\E u \in Threads : pc'[u] = "free" /\ req'[u].region = g)
                         <=> \E u \in Threads : pc[u] = "free" /\ req[u].region = g
  OBVIOUS
<1>2. \A g \in Regions : ptr'[g] # NoUnit =>
          /\ region'[ptr'[g]] = g
          /\ owns'[ptr'[g]] = IF \E u \in Threads : pc'[u] = "free" /\ req'[u].region = g
                              THEN Parts \ {"map"} ELSE Parts
  BY <1>1 DEF MmapInv, HeapInv, Exiting
<1>3. \A u \in Threads : pc'[u] = "free" => ptr'[req'[u].region] # NoUnit
  BY DEF MmapInv, HeapInv
<1> QED
  BY <1>2, <1>3 DEF HeapInv, Exiting

\* A call starts only beside calls it may run with.
LEMMA MmapCall == ASSUME MmapInv, NEW t \in Threads, Call(t) PROVE MmapInv'
<1>1. TypeOK /\ pc[t] = "idle" /\ prog \in Programs
  BY DEF Call, MmapInv, TypeOK
<1>2. PICK r \in prog.calls :
         /\ \A u \in Threads : pc[u] \in {"idle", "done"} \/ ~(Alone(r) \/ Alone(req[u]))
         /\ req' = [req EXCEPT ![t] = r]
         /\ todo' = [todo EXCEPT ![t] = r.list]
         /\ Goto(t, CASE r.op = "init" -> "map"
                      [] r.op = "exit" -> "unmap"
                      [] OTHER         -> "test")
  BY DEF Call
<1>3. UNCHANGED <<prog, ptr, owns, region, lost, failed, holder, regs, unit, i, out, ret>>
  BY DEF Call, heap
<1>4. /\ r \in Request /\ (r.op = "init" => r.list # <<>>)
      /\ r.op \in {"read", "write"} => r.list = <<r.region>>
  BY <1>1, ProgramAssumption
<1>5. r.list \in Seq(Regions) /\ r.op \in {"read", "write", "init", "exit"}
  BY <1>4 DEF Request
<1>6. /\ pc'[t] = IF r.op = "init" THEN "map" ELSE IF r.op = "exit" THEN "unmap" ELSE "test"
      /\ req'[t] = r /\ todo'[t] = r.list
      /\ \A u \in Threads \ {t} : pc'[u] = pc[u] /\ req'[u] = req[u] /\ todo'[u] = todo[u]
  BY <1>1, <1>2 DEF Goto, TypeOK
<1>7. TypeOK'
  BY <1>1, <1>2, <1>3, <1>4, <1>5 DEF TypeOK, Goto, Pcs
<1>8. AloneInv'
  BY <1>2, <1>6 DEF MmapInv, AloneInv, Running
<1>9. CallInv'
  BY <1>3, <1>4, <1>5, <1>6 DEF MmapInv, CallInv, IsAccess
<1>10. PlaceInv'
  BY <1>1, <1>3, <1>6 DEF MmapInv, PlaceInv, CallInv, Copying, NoRequest
<1>11. HeapInv'
  BY HeapKept, <1>1, <1>3, <1>6
<1>12. UseInv'
  BY <1>1, <1>3, <1>6 DEF MmapInv, UseInv, Uses
<1>13. MutexInv'
  BY <1>1, <1>3, <1>6, HolderFacts DEF MmapInv, MutexInv, Copying
<1> QED
  BY <1>7, <1>8, <1>9, <1>10, <1>11, <1>12, <1>13 DEF MmapInv

\* A caller that takes its result holds no unit.
LEMMA MmapConsume == ASSUME MmapInv, NEW t \in Threads, Consume(t) PROVE MmapInv'
<1>1. TypeOK /\ pc[t] = "done"
  BY DEF Consume, MmapInv
<1>2. UNCHANGED <<prog, ptr, owns, region, lost, failed, holder, regs>>
  BY DEF Consume, heap
<1>3. /\ pc' = [pc EXCEPT ![t] = "idle"] /\ req' = [req EXCEPT ![t] = NoRequest]
      /\ todo' = [todo EXCEPT ![t] = <<>>] /\ unit' = [unit EXCEPT ![t] = NoUnit]
      /\ i' = [i EXCEPT ![t] = 0] /\ out' = [out EXCEPT ![t] = NoBlock]
      /\ ret' = [ret EXCEPT ![t] = 0]
  BY DEF Consume, Goto
<1>4. /\ pc'[t] = "idle" /\ req'[t] = NoRequest /\ todo'[t] = <<>> /\ unit'[t] = NoUnit
      /\ i'[t] = 0 /\ out'[t] = NoBlock /\ ret'[t] = 0
      /\ \A u \in Threads \ {t} : /\ pc'[u] = pc[u] /\ req'[u] = req[u] /\ todo'[u] = todo[u]
                                  /\ unit'[u] = unit[u] /\ i'[u] = i[u] /\ out'[u] = out[u]
                                  /\ ret'[u] = ret[u]
  BY <1>1, <1>3 DEF TypeOK
<1>5. TypeOK'
  <2>1. <<>> \in Seq(Regions) /\ NoBlock \in [Places -> Values \cup {Blank}] /\ 0 \in 0 .. MaxLen
    BY RegionAssumption DEF NoBlock
  <2>2. req' \in [Threads -> Request \cup {NoRequest}] /\ pc' \in [Threads -> Pcs]
    BY <1>1, <1>3 DEF TypeOK, Pcs
  <2>3. /\ todo' \in [Threads -> Seq(Regions)] /\ unit' \in [Threads -> Units \cup {NoUnit}]
        /\ i' \in [Threads -> 0 .. MaxLen] /\ ret' \in [Threads -> {0, -1}]
        /\ out' \in [Threads -> [Places -> Values \cup {Blank}]]
    BY <1>1, <1>3, <2>1 DEF TypeOK
  <2> QED
    BY <1>1, <1>2, <2>2, <2>3 DEF TypeOK
<1>6. AloneInv'
  BY <1>4 DEF MmapInv, AloneInv, Running, Alone
<1>7. CallInv'
  BY <1>1, <1>2, <1>4 DEF MmapInv, CallInv, IsAccess
<1>8. PlaceInv'
  BY <1>1, <1>4 DEF MmapInv, PlaceInv, Copying, NoRequest, NoBlock
<1>9. HeapInv'
  BY HeapKept, <1>1, <1>2, <1>4
<1>10. UseInv'
  BY <1>1, <1>2, <1>4 DEF MmapInv, UseInv, Uses
<1>11. MutexInv'
  BY <1>1, <1>2, <1>4, HolderFacts DEF MmapInv, MutexInv, Copying
<1> QED
  BY <1>5, <1>6, <1>7, <1>8, <1>9, <1>10, <1>11 DEF MmapInv

\* The test of the pointer leads to a mapping or to the load, and changes
\* nothing shared.
LEMMA MmapTest == ASSUME MmapInv, NEW t \in Threads, Test(t) PROVE MmapInv'
<1>1. TypeOK /\ pc[t] = "test" /\ IsAccess(t)
  BY DEF Test, MmapInv, CallInv
<1>2. UNCHANGED <<prog, ptr, owns, region, lost, failed, holder, regs, req, todo, unit, i, out, ret>>
  BY DEF Test, heap, locals
<1>3. /\ pc'[t] = IF ptr[req[t].region] = NoUnit THEN "map" ELSE "load"
      /\ \A u \in Threads \ {t} : pc'[u] = pc[u]
  BY <1>1 DEF Test, Goto, TypeOK
<1>4. todo[t] = <<req[t].region>> /\ req[t].op # "exit"
  BY <1>1 DEF MmapInv, CallInv, IsAccess
<1>5. TypeOK'
  BY <1>1, <1>2 DEF TypeOK, Test, Goto, Pcs
<1>6. AloneInv'
  BY <1>1, <1>2, <1>3 DEF MmapInv, AloneInv, Running
<1>7. CallInv'
  BY <1>1, <1>2, <1>3, <1>4 DEF MmapInv, CallInv, IsAccess
<1>8. PlaceInv'
  BY <1>1, <1>2, <1>3 DEF MmapInv, PlaceInv, Copying
<1>9. HeapInv'
  BY HeapKept, <1>1, <1>2, <1>3
<1>10. UseInv'
  BY <1>1, <1>2, <1>3 DEF MmapInv, UseInv, Uses
<1>11. MutexInv'
  BY <1>1, <1>2, <1>3, HolderFacts DEF MmapInv, MutexInv, Copying
<1> QED
  BY <1>5, <1>6, <1>7, <1>8, <1>9, <1>10, <1>11 DEF MmapInv

\* The pointer that a thread loads leads to a whole unit or is null.
LEMMA MmapLoad == ASSUME MmapInv, NEW t \in Threads, Load(t) PROVE MmapInv'
<1>1. TypeOK /\ pc[t] = "load" /\ IsAccess(t)
  BY DEF Load, MmapInv, CallInv
<1>2. UNCHANGED <<prog, ptr, owns, region, lost, failed, holder, regs, req, todo, i, out, ret>>
  BY DEF Load, heap
<1>3. /\ pc'[t] = "enter" /\ unit'[t] = ptr[req[t].region]
      /\ \A u \in Threads \ {t} : pc'[u] = pc[u] /\ unit'[u] = unit[u]
  BY <1>1 DEF Load, Goto, TypeOK
<1>4. req[t].region \in Regions
  BY <1>1, CallFacts
<1>5. TypeOK'
  <2>1. unit' \in [Threads -> Units \cup {NoUnit}] /\ pc' \in [Threads -> Pcs]
    BY <1>1, <1>4 DEF Load, TypeOK, Goto, Pcs
  <2> QED
    BY <1>1, <1>2, <2>1 DEF TypeOK
<1>6. ptr[req[t].region] # NoUnit => /\ owns[ptr[req[t].region]] = Parts
                                     /\ region[ptr[req[t].region]] = req[t].region
  <2>1. ~Exiting(req[t].region)
    <3> SUFFICES ASSUME NEW u \in Threads, pc[u] = "free" PROVE FALSE
      BY DEF Exiting
    <3>1. Alone(req[u]) /\ Running(u) /\ u # t
      BY <1>1 DEF MmapInv, CallInv, Alone, Running
    <3> QED
      BY <1>1, <3>1, OnlyRunner
  <2> QED
    BY <1>4, <2>1 DEF MmapInv, HeapInv
<1>7. AloneInv'
  BY <1>1, <1>2, <1>3 DEF MmapInv, AloneInv, Running
<1>8. CallInv'
  BY <1>1, <1>2, <1>3 DEF MmapInv, CallInv, IsAccess
<1>9. PlaceInv'
  BY <1>1, <1>2, <1>3 DEF MmapInv, PlaceInv, Copying
<1>10. HeapInv'
  BY HeapKept, <1>1, <1>2, <1>3
<1>11. UseInv'
  BY <1>1, <1>2, <1>3, <1>6 DEF MmapInv, UseInv, Uses
<1>12. MutexInv'
  BY <1>1, <1>2, <1>3, HolderFacts DEF MmapInv, MutexInv, Copying
<1> QED
  BY <1>5, <1>7, <1>8, <1>9, <1>10, <1>11, <1>12 DEF MmapInv

\* An access goes on with a whole unit only; a null pointer is a fault.
LEMMA MmapEnter == ASSUME MmapInv, NEW t \in Threads, Enter(t) PROVE MmapInv'
<1>1. TypeOK /\ pc[t] = "enter" /\ IsAccess(t)
  BY DEF Enter, MmapInv, CallInv
<1>2. UNCHANGED <<prog, ptr, owns, region, lost, failed, holder, regs, req, todo, unit, i, out>>
  BY DEF Enter, heap
<1>3. \A u \in Threads \ {t} : pc'[u] = pc[u] /\ ret'[u] = ret[u]
  BY <1>1 DEF Enter, Goto, Finish, TypeOK
<1>4. \/ ~Allocated(unit[t]) /\ pc'[t] = "fault" /\ ret'[t] = ret[t]
      \/ Allocated(unit[t]) /\ pc'[t] = "done" /\ ret'[t] = -1
      \/ /\ Allocated(unit[t]) /\ pc'[t] = "lock" /\ ret'[t] = ret[t]
         /\ req[t].off <= Size /\ ~req[t].null
  <2>1. req[t].off \in Nat /\ Size \in Nat
    BY <1>1, CallFacts, RegionAssumption
  <2> QED
    BY <1>1, <2>1 DEF Enter, Goto, Finish, TypeOK
<1>5. ~Allocated(unit[t]) => failed /\ unit[t] = NoUnit
  BY <1>1 DEF MmapInv, UseInv, Uses, Allocated, Parts
<1>6. Allocated(unit[t]) => Uses(t)
  BY <1>1 DEF Allocated, Uses
<1>7. TypeOK'
  <2>1. pc' \in [Threads -> Pcs] /\ ret' \in [Threads -> {0, -1}]
    BY <1>1 DEF Enter, Goto, Finish, TypeOK, Pcs
  <2> QED
    BY <1>1, <1>2, <2>1 DEF TypeOK
<1>8. AloneInv'
  BY <1>1, <1>2, <1>3, <1>4 DEF MmapInv, AloneInv, Running
<1>9. CallInv'
  BY <1>1, <1>2, <1>3, <1>4 DEF MmapInv, CallInv, IsAccess
<1>10. PlaceInv'
  BY <1>1, <1>2, <1>3, <1>4 DEF MmapInv, PlaceInv, Copying
<1>11. HeapInv'
  BY HeapKept, <1>1, <1>2, <1>3, <1>4
<1>12. UseInv'
  BY <1>1, <1>2, <1>3, <1>4, <1>5, <1>6 DEF MmapInv, UseInv, Uses
<1>13. MutexInv'
  BY <1>1, <1>2, <1>3, <1>4, HolderFacts DEF MmapInv, MutexInv, Copying
<1> QED
  BY <1>7, <1>8, <1>9, <1>10, <1>11, <1>12, <1>13 DEF MmapInv

\* A thread that uses a unit finds it allocated.
LEMMA UsesAllocated ==
    ASSUME MmapInv, NEW t \in Threads, pc[t] \in {"lock", "copy", "unlock"}
    PROVE  /\ Allocated(unit[t]) /\ unit[t] \in Units /\ owns[unit[t]] = Parts
           /\ region[unit[t]] = req[t].region /\ IsAccess(t)
           /\ req[t].region \in Regions /\ req[t].off <= Size /\ ~req[t].null
           /\ req[t].off + req[t].len <= Size
<1>1. Uses(t) /\ unit[t] \in Units \cup {NoUnit}
  BY DEF Uses, MmapInv, TypeOK
<1>2. req[t].off <= Size /\ ~req[t].null /\ IsAccess(t)
  BY DEF MmapInv, PlaceInv, CallInv
<1>3. req[t].region \in Regions /\ req[t].off + req[t].len <= Size
  BY <1>2, CallFacts, RegionAssumption
<1> QED
  BY <1>1, <1>2, <1>3 DEF MmapInv, UseInv, Allocated, Parts

\* The mutex of a unit goes to a thread that uses it, and to one at a time.
LEMMA MmapLock == ASSUME MmapInv, NEW t \in Threads, Lock(t) PROVE MmapInv'
<1>1. TypeOK /\ pc[t] = "lock" /\ IsAccess(t)
  BY DEF Lock, MmapInv, CallInv
<1>2. UNCHANGED <<prog, ptr, owns, region, lost, failed, regs, req, todo, unit, i, out, ret>>
  BY DEF Lock, heap, locals
<1>3. Allocated(unit[t]) /\ unit[t] \in Units
  BY <1>1, UsesAllocated
<1>4. /\ holder[unit[t]] = NoThread /\ holder' = [holder EXCEPT ![unit[t]] = t]
      /\ pc' = [pc EXCEPT ![t] = IF req[t].len = 0 THEN "unlock" ELSE "copy"]
  BY <1>3 DEF Lock, Goto
<1>5. /\ pc'[t] = IF req[t].len = 0 THEN "unlock" ELSE "copy"
      /\ \A u \in Threads \ {t} : pc'[u] = pc[u]
      /\ holder'[unit[t]] = t /\ \A u \in Units \ {unit[t]} : holder'[u] = holder[u]
  BY <1>1, <1>3, <1>4 DEF TypeOK
<1>6. req[t].len \in Nat /\ i[t] = 0
  BY <1>1, CallFacts DEF MmapInv, PlaceInv, Copying
<1>7. TypeOK'
  BY <1>1, <1>2, <1>3, <1>4 DEF TypeOK, Pcs
<1>8. AloneInv'
  BY <1>1, <1>2, <1>5 DEF MmapInv, AloneInv, Running
<1>9. CallInv'
  BY <1>1, <1>2, <1>5 DEF MmapInv, CallInv, IsAccess
<1>10. PlaceInv'
  BY <1>1, <1>2, <1>5, <1>6 DEF MmapInv, PlaceInv, Copying
<1>11. HeapInv'
  BY HeapKept, <1>1, <1>2, <1>5
<1>12. UseInv'
  BY <1>1, <1>2, <1>5 DEF MmapInv, UseInv, Uses
<1>13. MutexInv'
  <2>1. \A u \in Threads : Copying(u) => unit[u] # unit[t]
    BY <1>1, <1>4, UnitAssumption DEF MmapInv, MutexInv
  <2>2. \A u \in Threads : Copying(u) => unit[u] \in Units
    BY UsesAllocated DEF Copying
  <2>3. Copying(t)'
    BY <1>5 DEF Copying
  <2>4. \A u \in Threads \ {t} : Copying(u)' = Copying(u)
    BY <1>5 DEF Copying
  <2>5. \A u \in Threads : Copying(u)' => holder'[unit'[u]] = u
    BY <1>2, <1>5, <2>1, <2>2, <2>4 DEF MmapInv, MutexInv
  <2>6. \A u \in Units : holder'[u] # NoThread =>
            pc'[holder'[u]] \in {"copy", "unlock"} /\ unit'[holder'[u]] = u
    <3> SUFFICES ASSUME NEW u \in Units, holder'[u] # NoThread
                 PROVE  pc'[holder'[u]] \in {"copy", "unlock"} /\ unit'[holder'[u]] = u
      OBVIOUS
    <3>1. CASE u = unit[t]
      BY <1>2, <1>5, <3>1
    <3>2. CASE u # unit[t]
      <4>1. holder'[u] = holder[u] /\ holder[u] \in Threads /\ pc[holder[u]] \in {"copy", "unlock"}
            /\ unit[holder[u]] = u
        BY <1>5, <3>2, HolderFacts
      <4>2. holder[u] # t
        BY <1>1, <4>1
      <4> QED
        BY <1>2, <1>5, <4>1, <4>2
    <3> QED
      BY <3>1, <3>2
  <2> QED
    BY <2>5, <2>6 DEF MutexInv, Copying
<1> QED
  BY <1>7, <1>8, <1>9, <1>10, <1>11, <1>12, <1>13 DEF MmapInv

\* What one word of a copy does.
CopyFacts(t) ==
    /\ i[t] \in Nat /\ req[t].len \in Nat /\ i[t] < req[t].len /\ req[t].len <= MaxLen
    /\ req[t].off \in Nat /\ Size \in Nat /\ MaxLen \in Nat
    /\ unit[t] \in Units /\ "map" \in owns[unit[t]]
    /\ region[unit[t]] = req[t].region /\ req[t].region \in Regions
    /\ req[t].off + i[t] \in Words /\ i[t] \in Places
    /\ i' = [i EXCEPT ![t] = i[t] + 1]
    /\ pc' = [pc EXCEPT ![t] = IF i[t] + 1 < req[t].len THEN "copy" ELSE "unlock"]
    /\ i'[t] = i[t] + 1 /\ \A u \in Threads \ {t} : pc'[u] = pc[u] /\ i'[u] = i[u]
    /\ pc'[t] = IF i[t] + 1 < req[t].len THEN "copy" ELSE "unlock"
    /\ \/ /\ req[t].op = "read" /\ regs' = regs
          /\ out' = [out EXCEPT ![t][i[t]] = regs[req[t].region][req[t].off + i[t]]]
       \/ /\ req[t].op = "write" /\ out' = out
          /\ regs' = [regs EXCEPT ![req[t].region][req[t].off + i[t]] = req[t].data[i[t]]]

\* A copy of one word is made by the holder of the mutex, inside the region.
LEMMA CopyLemma == ASSUME MmapInv, NEW t \in Threads, Copy(t) PROVE CopyFacts(t)
<1>1. TypeOK /\ pc[t] = "copy" /\ IsAccess(t)
  BY DEF Copy, MmapInv, CallInv
<1>2. UNCHANGED <<prog, ptr, owns, region, lost, failed, holder, req, todo, unit, ret>>
  BY DEF Copy, heap
<1>3. /\ i[t] \in Nat /\ req[t].len \in Nat /\ i[t] < req[t].len /\ req[t].len <= MaxLen
      /\ req[t].off \in Nat /\ Size \in Nat /\ MaxLen \in Nat
  BY <1>1, CallFacts, RegionAssumption DEF MmapInv, PlaceInv, TypeOK
<1>4. /\ unit[t] \in Units /\ "map" \in owns[unit[t]]
      /\ region[unit[t]] = req[t].region /\ req[t].region \in Regions
      /\ req[t].off + i[t] \in Words /\ i[t] \in Places
  <2>1. req[t].off + req[t].len <= Size /\ owns[unit[t]] = Parts
    BY <1>1, UsesAllocated
  <2> QED
    BY <1>1, <1>3, <2>1, UsesAllocated DEF Words, Places, Parts
<1>5. /\ i' = [i EXCEPT ![t] = i[t] + 1]
      /\ pc' = [pc EXCEPT ![t] = IF i[t] + 1 < req[t].len THEN "copy" ELSE "unlock"]
  BY <1>1, <1>4 DEF Copy, Goto, More, TypeOK
<1>6. /\ i'[t] = i[t] + 1 /\ \A u \in Threads \ {t} : pc'[u] = pc[u] /\ i'[u] = i[u]
      /\ pc'[t] = IF i[t] + 1 < req[t].len THEN "copy" ELSE "unlock"
  BY <1>1, <1>5 DEF TypeOK
<1>7. \/ /\ req[t].op = "read" /\ regs' = regs
         /\ out' = [out EXCEPT ![t][i[t]] = regs[req[t].region][req[t].off + i[t]]]
      \/ /\ req[t].op = "write" /\ out' = out
         /\ regs' = [regs EXCEPT ![req[t].region][req[t].off + i[t]] = req[t].data[i[t]]]
  BY <1>1, <1>4 DEF Copy, IsAccess
<1> QED
  BY <1>3, <1>4, <1>5, <1>6, <1>7 DEF CopyFacts

\* A copy changes one register or one place of the caller's buffer, nothing of a
\* unit.
LEMMA MmapCopy == ASSUME MmapInv, NEW t \in Threads, Copy(t) PROVE MmapInv'
<1>1. TypeOK /\ pc[t] = "copy" /\ IsAccess(t)
  BY DEF Copy, MmapInv, CallInv
<1>2. UNCHANGED <<prog, ptr, owns, region, lost, failed, holder, req, todo, unit, ret>>
  BY DEF Copy, heap
<1>3. /\ i[t] \in Nat /\ req[t].len \in Nat /\ i[t] < req[t].len /\ req[t].len <= MaxLen
      /\ req[t].off \in Nat /\ Size \in Nat /\ MaxLen \in Nat
  BY CopyLemma DEF CopyFacts
<1>4. /\ unit[t] \in Units /\ "map" \in owns[unit[t]]
      /\ region[unit[t]] = req[t].region /\ req[t].region \in Regions
      /\ req[t].off + i[t] \in Words /\ i[t] \in Places
  BY CopyLemma DEF CopyFacts
<1>5. /\ i' = [i EXCEPT ![t] = i[t] + 1]
      /\ pc' = [pc EXCEPT ![t] = IF i[t] + 1 < req[t].len THEN "copy" ELSE "unlock"]
  BY CopyLemma DEF CopyFacts
<1>6. /\ i'[t] = i[t] + 1 /\ \A u \in Threads \ {t} : pc'[u] = pc[u] /\ i'[u] = i[u]
      /\ pc'[t] = IF i[t] + 1 < req[t].len THEN "copy" ELSE "unlock"
  BY CopyLemma DEF CopyFacts
<1>7. \/ /\ req[t].op = "read" /\ regs' = regs
         /\ out' = [out EXCEPT ![t][i[t]] = regs[req[t].region][req[t].off + i[t]]]
      \/ /\ req[t].op = "write" /\ out' = out
         /\ regs' = [regs EXCEPT ![req[t].region][req[t].off + i[t]] = req[t].data[i[t]]]
  BY CopyLemma DEF CopyFacts
<1>8. TypeOK'
  <2>1. i' \in [Threads -> 0 .. MaxLen] /\ pc' \in [Threads -> Pcs]
    BY <1>1, <1>3, <1>5 DEF TypeOK, Pcs
  <2>2. regs[req[t].region][req[t].off + i[t]] \in Values /\ req[t].data[i[t]] \in Values
    <3>1. req[t] \in Request
      BY <1>1, CallFacts
    <3> QED
      BY <1>1, <1>4, <3>1 DEF TypeOK, Request
  <2>3. out' \in [Threads -> [Places -> Values \cup {Blank}]]
    <3>1. CASE out' = out
      BY <1>1, <3>1 DEF TypeOK
    <3>2. CASE out' = [out EXCEPT ![t][i[t]] = regs[req[t].region][req[t].off + i[t]]]
      BY <1>1, <2>2, <3>2 DEF TypeOK
    <3> QED
      BY <1>7, <3>1, <3>2
  <2>4. regs' \in [Regions -> [Words -> Values]]
    <3>1. CASE regs' = regs
      BY <1>1, <3>1 DEF TypeOK
    <3>2. CASE regs' = [regs EXCEPT ![req[t].region][req[t].off + i[t]] = req[t].data[i[t]]]
      BY <1>1, <2>2, <3>2 DEF TypeOK
    <3> QED
      BY <1>7, <3>1, <3>2
  <2> QED
    BY <1>1, <1>2, <2>1, <2>3, <2>4 DEF TypeOK
<1>9. AloneInv'
  BY <1>1, <1>2, <1>6 DEF MmapInv, AloneInv, Running
<1>10. CallInv'
  BY <1>1, <1>2, <1>6 DEF MmapInv, CallInv, IsAccess
<1>11. PlaceInv'
  <2>1. \A u \in Threads \ {t} : out'[u] = out[u]
    BY <1>1, <1>7 DEF TypeOK
  <2>2. req[t].op # "read" => out'[t] = out[t]
    BY <1>7
  <2>3. \A k \in Places : k # i[t] => out'[t][k] = out[t][k]
    BY <1>1, <1>4, <1>7 DEF TypeOK
  <2>4. \A k \in Places : k >= i'[t] => out'[t][k] = Blank
    <3>1. \A k \in Places : k >= i'[t] => k # i[t] /\ k >= i[t]
      BY <1>3, <1>6 DEF Places
    <3> QED
      BY <2>3, <3>1 DEF MmapInv, PlaceInv
  <2>5. i[t] + 1 < req[t].len \/ i[t] + 1 = req[t].len
    BY <1>3
  <2>6. req'[t].op # "read" => out'[t] = NoBlock
    BY <1>2, <2>2 DEF MmapInv, PlaceInv
  <2>7. req[t].off <= Size /\ ~req[t].null /\ ret[t] = 0
    BY <1>1 DEF MmapInv, PlaceInv
  <2> QED
    BY <1>1, <1>2, <1>6, <2>1, <2>4, <2>5, <2>6, <2>7 DEF MmapInv, PlaceInv, Copying
<1>12. HeapInv'
  BY HeapKept, <1>1, <1>2, <1>6
<1>13. UseInv'
  BY <1>1, <1>2, <1>6 DEF MmapInv, UseInv, Uses
<1>14. MutexInv'
  BY <1>1, <1>2, <1>6, HolderFacts DEF MmapInv, MutexInv, Copying
<1> QED
  BY <1>8, <1>9, <1>10, <1>11, <1>12, <1>13, <1>14 DEF MmapInv

\* The mutex is given up by its holder, who is done.
LEMMA MmapUnlock == ASSUME MmapInv, NEW t \in Threads, Unlock(t) PROVE MmapInv'
<1>1. TypeOK /\ pc[t] = "unlock" /\ IsAccess(t)
  BY DEF Unlock, MmapInv, CallInv
<1>2. UNCHANGED <<prog, ptr, owns, region, lost, failed, regs, req, todo, unit, i, out>>
  BY DEF Unlock, heap
<1>3. Allocated(unit[t]) /\ unit[t] \in Units
  BY <1>1, UsesAllocated
<1>4. /\ holder' = [holder EXCEPT ![unit[t]] = NoThread]
      /\ pc' = [pc EXCEPT ![t] = "done"] /\ ret' = [ret EXCEPT ![t] = 0]
  BY <1>3 DEF Unlock, Goto, Finish
<1>5. /\ pc'[t] = "done" /\ \A u \in Threads \ {t} : pc'[u] = pc[u] /\ ret'[u] = ret[u]
      /\ holder'[unit[t]] = NoThread /\ \A u \in Units \ {unit[t]} : holder'[u] = holder[u]
  BY <1>1, <1>3, <1>4 DEF TypeOK
<1>6. TypeOK'
  BY <1>1, <1>2, <1>3, <1>4 DEF TypeOK, Pcs
<1>7. AloneInv'
  BY <1>1, <1>2, <1>5 DEF MmapInv, AloneInv, Running
<1>8. CallInv'
  BY <1>1, <1>2, <1>5 DEF MmapInv, CallInv, IsAccess
<1>9. PlaceInv'
  BY <1>1, <1>2, <1>5 DEF MmapInv, PlaceInv, Copying
<1>10. HeapInv'
  BY HeapKept, <1>1, <1>2, <1>5
<1>11. UseInv'
  BY <1>1, <1>2, <1>5 DEF MmapInv, UseInv, Uses
<1>12. MutexInv'
  <2>1. \A u \in Threads \ {t} : Copying(u) => unit[u] # unit[t] /\ unit[u] \in Units
    <3>1. \A u \in Threads : Copying(u) => unit[u] \in Units
      BY UsesAllocated DEF Copying
    <3>2. Copying(t)
      BY <1>1 DEF Copying
    <3> QED
      BY <3>1, <3>2, OneCopier
  <2>2. \A u \in Threads : pc'[u] \in {"copy", "unlock"} => u # t /\ Copying(u) /\ holder'[unit'[u]] = u
    BY <1>2, <1>5, <2>1 DEF MmapInv, MutexInv, Copying
  <2>3. \A u \in Units : holder'[u] # NoThread =>
            pc'[holder'[u]] \in {"copy", "unlock"} /\ unit'[holder'[u]] = u
    <3> SUFFICES ASSUME NEW u \in Units, holder'[u] # NoThread
                 PROVE  pc'[holder'[u]] \in {"copy", "unlock"} /\ unit'[holder'[u]] = u
      OBVIOUS
    <3>1. u # unit[t] /\ holder'[u] = holder[u]
      BY <1>5
    <3>2. /\ holder[u] \in Threads /\ pc[holder[u]] \in {"copy", "unlock"}
          /\ unit[holder[u]] = u /\ holder[u] # t
      BY <3>1, HolderFacts
    <3> QED
      BY <1>2, <1>5, <3>1, <3>2
  <2> QED
    BY <2>2, <2>3 DEF MutexInv, Copying
<1> QED
  BY <1>6, <1>7, <1>8, <1>9, <1>10, <1>11, <1>12 DEF MmapInv

\* Nobody is in the middle of an exit while a thread runs at another place.
LEMMA NobodyFrees ==
    ASSUME MmapInv, NEW t \in Threads, Running(t), pc[t] # "free"
    PROVE  \A g \in Regions : ~Exiting(g)
<1> SUFFICES ASSUME NEW u \in Threads, pc[u] = "free" PROVE FALSE
  BY DEF Exiting
<1>1. Alone(req[u]) /\ Running(u)
  BY DEF MmapInv, CallInv, Alone, Running
<1> QED
  BY <1>1, OnlyRunner DEF Running

\* Only the one call that runs unmaps, so no unit in use is touched.
LEMMA MmapUnmap == ASSUME MmapInv, NEW t \in Threads, Unmap(t) PROVE MmapInv'
<1>1. TypeOK /\ pc[t] = "unmap" /\ req[t].op = "exit"
  BY DEF Unmap, MmapInv, CallInv
<1>2. UNCHANGED <<prog, ptr, region, lost, failed, holder, regs, req, todo, unit, i, out>>
  BY DEF Unmap
<1> DEFINE g == req[t].region
           w == ptr[g]
<1>3. g \in Regions /\ Running(t) /\ Alone(req[t])
  BY <1>1, CallFacts DEF Running, Alone
<1>4. \A u \in Threads \ {t} : pc[u] \in {"idle", "done"}
  BY <1>3, OnlyRunner
<1>5. \/ /\ pc' = [pc EXCEPT ![t] = "done"] /\ ret' = [ret EXCEPT ![t] = -1] /\ owns' = owns
      \/ /\ w # NoUnit /\ owns' = [owns EXCEPT ![w] = @ \ {"map"}]
         /\ pc' = [pc EXCEPT ![t] = "free"] /\ ret' = ret
  BY DEF Unmap, Goto, Finish
<1>6. /\ pc'[t] = "done" \/ (pc'[t] = "free" /\ w # NoUnit /\ ret' = ret)
      /\ \A u \in Threads \ {t} : pc'[u] = pc[u] /\ ret'[u] = ret[u]
  BY <1>1, <1>5 DEF TypeOK
<1>7. w # NoUnit => w \in Units
  BY <1>1, <1>3 DEF TypeOK
<1>8. TypeOK'
  BY ZenonT(60), <1>1, <1>2, <1>5, <1>7 DEF TypeOK, Pcs
<1>9. AloneInv'
  BY <1>1, <1>2, <1>6 DEF MmapInv, AloneInv, Running
<1>10. CallInv'
  BY <1>1, <1>2, <1>6 DEF MmapInv, CallInv, IsAccess
<1>11. PlaceInv'
  BY <1>1, <1>2, <1>6 DEF MmapInv, PlaceInv, Copying
<1>12. HeapInv'
  <2>1. CASE owns' = owns /\ pc' = [pc EXCEPT ![t] = "done"]
    BY HeapKept, <1>1, <1>2, <1>6, <2>1 DEF TypeOK
  <2>2. CASE /\ w # NoUnit /\ owns' = [owns EXCEPT ![w] = @ \ {"map"}]
             /\ pc' = [pc EXCEPT ![t] = "free"]
    <3>1. \A u \in Threads : pc'[u] = "free" <=> u = t
      BY <1>1, <1>4, <2>2 DEF TypeOK
    <3>2. \A h \in Regions : Exiting(h)' <=> h = g
      BY <1>2, <3>1 DEF Exiting
    <3>3. \A h \in Regions : ptr[h] # NoUnit => owns[ptr[h]] = Parts /\ ptr[h] \in Units
      <4>1. \A h \in Regions : ~Exiting(h)
        BY <1>1, <1>3, NobodyFrees
      <4>2. \A h \in Regions : ptr[h] # NoUnit => owns[ptr[h]] = Parts
        BY <4>1 DEF MmapInv, HeapInv
      <4> QED
        BY <1>1, <4>2 DEF TypeOK
    <3>4. owns'[w] = Parts \ {"map"}
      BY <1>1, <1>3, <1>7, <2>2, <3>3 DEF TypeOK
    <3>5. \A h \in Regions : h # g /\ ptr[h] # NoUnit => owns'[ptr[h]] = Parts
      <4>1. \A h \in Regions : h # g /\ ptr[h] # NoUnit => ptr[h] # w
        BY <1>3, Injective
      <4> QED
        BY <1>1, <2>2, <3>3, <4>1 DEF TypeOK
    <3> QED
      BY <1>2, <1>3, <2>2, <3>1, <3>2, <3>4, <3>5 DEF MmapInv, HeapInv
  <2> QED
    BY <1>5, <2>1, <2>2
<1>13. UseInv'
  BY <1>1, <1>2, <1>4, <1>6 DEF MmapInv, UseInv, Uses
<1>14. MutexInv'
  BY <1>1, <1>2, <1>6, HolderFacts DEF MmapInv, MutexInv, Copying
<1> QED
  BY <1>8, <1>9, <1>10, <1>11, <1>12, <1>13, <1>14 DEF MmapInv

\* What is freed was unmapped, and no pointer leads to it.
LEMMA MmapFree == ASSUME MmapInv, NEW t \in Threads, Free(t) PROVE MmapInv'
<1>1. TypeOK /\ pc[t] = "free" /\ req[t].op = "exit"
  BY DEF Free, MmapInv, CallInv
<1>2. UNCHANGED <<prog, lost, failed, holder, regs, req, todo, unit, i, out>>
  BY DEF Free, heap
<1> DEFINE g == req[t].region
           w == ptr[g]
<1>3. g \in Regions /\ Running(t) /\ Alone(req[t])
  BY <1>1, CallFacts DEF Running, Alone
<1>4. \A u \in Threads \ {t} : pc[u] \in {"idle", "done"}
  BY <1>3, OnlyRunner
<1>5. w # NoUnit /\ w \in Units
  BY <1>1, <1>3 DEF MmapInv, HeapInv, TypeOK
<1>6. /\ pc' = [pc EXCEPT ![t] = "done"] /\ ret' = [ret EXCEPT ![t] = 0]
      /\ owns' = [owns EXCEPT ![w] = {}] /\ ptr' = [ptr EXCEPT ![g] = NoUnit]
      /\ region' = [region EXCEPT ![w] = NoRegion]
  BY <1>5 DEF Free, Goto, Finish
<1>7. pc'[t] = "done" /\ \A u \in Threads \ {t} : pc'[u] = pc[u] /\ ret'[u] = ret[u]
  BY <1>1, <1>6 DEF TypeOK
<1>8. TypeOK'
  <2>1. NoRegion \in Regions
    BY <1>3 DEF NoRegion
  <2> QED
    BY <1>1, <1>2, <1>6, <2>1 DEF TypeOK, Pcs
<1>9. AloneInv'
  BY <1>1, <1>2, <1>7 DEF MmapInv, AloneInv, Running
<1>10. CallInv'
  BY <1>1, <1>2, <1>7 DEF MmapInv, CallInv, IsAccess
<1>11. PlaceInv'
  BY <1>1, <1>2, <1>7 DEF MmapInv, PlaceInv, Copying
<1>12. HeapInv'
  <2>1. \A u \in Threads : pc'[u] # "free" /\ (pc[u] = "free" => u = t)
    BY <1>4, <1>7
  <2>2. \A h \in Regions : ~Exiting(h)'
    BY <2>1 DEF Exiting
  <2>3. \A h \in Regions : ptr'[h] # NoUnit => h # g /\ ptr'[h] = ptr[h]
    BY <1>1, <1>3, <1>6 DEF TypeOK
  <2>4. \A h \in Regions : ptr'[h] # NoUnit => ptr[h] # w /\ ptr[h] \in Units /\ ~Exiting(h)
    BY <1>1, <1>3, <2>1, <2>3, Injective DEF TypeOK, Exiting
  <2>5. \A h \in Regions : ptr'[h] # NoUnit => region'[ptr'[h]] = h /\ owns'[ptr'[h]] = Parts
    <3> SUFFICES ASSUME NEW h \in Regions, ptr'[h] # NoUnit
                 PROVE  region'[ptr[h]] = h /\ owns'[ptr[h]] = Parts
      BY <2>3
    <3>1. region[ptr[h]] = h /\ owns[ptr[h]] = Parts
      BY <2>3, <2>4 DEF MmapInv, HeapInv
    <3> QED
      BY <1>1, <1>6, <2>4, <3>1 DEF TypeOK
  <2> QED
    BY <2>1, <2>2, <2>5 DEF HeapInv
<1>13. UseInv'
  BY <1>1, <1>2, <1>4, <1>7 DEF MmapInv, UseInv, Uses
<1>14. MutexInv'
  BY <1>1, <1>2, <1>7, HolderFacts DEF MmapInv, MutexInv, Copying
<1> QED
  BY <1>8, <1>9, <1>10, <1>11, <1>12, <1>13, <1>14 DEF MmapInv

\* What one step of the mapping does: the region is g, the call that fails is
\* call, u is the address that malloc returns.
Mapped(t, call, u, g) ==
    /\ owns[u] = {} /\ g = Head(todo[t])
    /\ owns' = [owns EXCEPT ![u] = Left(call)]
    /\ region' = IF call = "none" THEN [region EXCEPT ![u] = g] ELSE region
    /\ ptr' = [ptr EXCEPT ![g] = IF call = "none" THEN u ELSE NoUnit]
    /\ lost' = lost \cup ({ptr[g]} \ {NoUnit})
    /\ failed' = (failed \/ call # "none")
    /\ todo' = [todo EXCEPT ![t] = Tail(todo[t])]
    /\ IsAccess(t) => pc'[t] = "load" /\ ret' = ret /\ g = req[t].region
    /\ ~IsAccess(t) => \/ /\ pc'[t] = "done" /\ ret' \in [Threads -> {0, -1}]
                          /\ \A v \in Threads \ {t} : ret'[v] = ret[v]
                       \/ /\ pc'[t] = "map" /\ Tail(todo[t]) # <<>> /\ ret' = ret
    /\ \A v \in Threads \ {t} : pc'[v] = pc[v]
    /\ pc' \in [Threads -> Pcs] /\ Tail(todo[t]) \in Seq(Regions)

\* What a mapping does, by the system call in it that fails, if any.
LEMMA MapFacts ==
    ASSUME MmapInv, NEW t \in Threads, Map(t)
    PROVE  \E call \in (prog.failing \ {"munmap"}) \cup {"none"}, u \in Units, g \in Regions :
             Mapped(t, call, u, g)
<1>1. TypeOK /\ pc[t] = "map" /\ todo[t] # <<>> /\ todo[t] \in Seq(Regions)
  BY DEF Map, MmapInv, CallInv, TypeOK
<1>2. PICK call \in (prog.failing \ {"munmap"}) \cup {"none"}, u \in {v \in Units : owns[v] = {}} :
         LET g == Head(todo[t])
             ok == call = "none"
             rest == Tail(todo[t])
         IN /\ owns' = [owns EXCEPT ![u] = Left(call)]
            /\ region' = IF ok THEN [region EXCEPT ![u] = g] ELSE region
            /\ ptr' = [ptr EXCEPT ![g] = IF ok THEN u ELSE NoUnit]
            /\ lost' = lost \cup ({ptr[g]} \ {NoUnit})
            /\ failed' = (failed \/ ~ok)
            /\ todo' = [todo EXCEPT ![t] = rest]
            /\ IF IsAccess(t)  THEN Goto(t, "load") /\ ret' = ret
               ELSE IF ~ok       THEN Finish(t, -1)
               ELSE IF rest = <<>> THEN Finish(t, 0)
               ELSE pc' = pc /\ ret' = ret
  BY DEF Map
<1> DEFINE g == Head(todo[t])
<1>3. g \in Regions /\ Tail(todo[t]) \in Seq(Regions)
  BY <1>1
<1>4. IsAccess(t) => g = req[t].region
  <2> SUFFICES ASSUME IsAccess(t) PROVE g = req[t].region
    OBVIOUS
  <2>1. todo[t] = <<req[t].region>>
    BY <1>1 DEF MmapInv, CallInv
  <2> QED
    BY <2>1
<1>5. IsAccess(t) => /\ pc' = [pc EXCEPT ![t] = "load"] /\ ret' = ret
  BY <1>2 DEF Goto
<1>6. ~IsAccess(t) => \/ /\ pc' = [pc EXCEPT ![t] = "done"]
                         /\ \/ ret' = [ret EXCEPT ![t] = 0]
                            \/ ret' = [ret EXCEPT ![t] = -1]
                      \/ pc' = pc /\ ret' = ret /\ Tail(todo[t]) # <<>>
  BY <1>2 DEF Goto, Finish
<1>7. \A v \in Threads \ {t} : pc'[v] = pc[v]
  BY <1>1, <1>5, <1>6 DEF TypeOK
<1>8. pc' \in [Threads -> Pcs]
  BY <1>1, <1>5, <1>6 DEF TypeOK, Pcs
<1>9. IsAccess(t) => pc'[t] = "load"
  BY <1>1, <1>5 DEF TypeOK
<1>10. ~IsAccess(t) => \/ /\ pc'[t] = "done" /\ ret' \in [Threads -> {0, -1}]
                          /\ \A v \in Threads \ {t} : ret'[v] = ret[v]
                       \/ /\ pc'[t] = "map" /\ Tail(todo[t]) # <<>> /\ ret' = ret
  BY <1>1, <1>6 DEF TypeOK
<1>11. u \in Units /\ owns[u] = {}
  BY <1>2
<1>12. /\ owns' = [owns EXCEPT ![u] = Left(call)]
       /\ region' = IF call = "none" THEN [region EXCEPT ![u] = g] ELSE region
       /\ ptr' = [ptr EXCEPT ![g] = IF call = "none" THEN u ELSE NoUnit]
       /\ lost' = lost \cup ({ptr[g]} \ {NoUnit})
       /\ failed' = (failed \/ call # "none")
       /\ todo' = [todo EXCEPT ![t] = Tail(todo[t])]
  BY <1>2
<1> QED
  BY <1>3, <1>4, <1>5, <1>7, <1>8, <1>9, <1>10, <1>11, <1>12 DEF Mapped

\* A mapping publishes a whole unit, or takes back what it had, whichever step
\* fails.
LEMMA MmapMap == ASSUME MmapInv, NEW t \in Threads, Map(t) PROVE MmapInv'
<1>1. TypeOK /\ pc[t] = "map"
  BY DEF Map, MmapInv
<1>2. UNCHANGED <<prog, holder, regs, req, unit, i, out>>
  BY DEF Map
<1>3. PICK call \in (prog.failing \ {"munmap"}) \cup {"none"}, w \in Units, g \in Regions :
        Mapped(t, call, w, g)
  BY MapFacts
<1> USE DEF Mapped
<1>4. \A h \in Regions : ~Exiting(h)
  BY <1>1, NobodyFrees DEF Running
<1>5. \A u \in Threads : pc[u] # "free" /\ pc'[u] # "free"
  <2>1. \A u \in Threads : pc[u] = "free" => req[u].region \in Regions
    BY CallFacts
  <2>2. \A u \in Threads : pc[u] # "free"
    BY <1>4, <2>1 DEF Exiting
  <2> QED
    BY <1>3, <2>2
<1>6. /\ call = "none" => ptr'[g] = w /\ region'[w] = g /\ owns'[w] = Parts
      /\ call # "none" => ptr'[g] = NoUnit /\ region' = region /\ failed'
      /\ \A h \in Regions \ {g} : ptr'[h] = ptr[h]
      /\ \A u \in Units \ {w} : owns'[u] = owns[u] /\ region'[u] = region[u]
  <2>1. Left("none") = Parts
    BY DEF Left
  <2> QED
    BY <1>1, <1>3, <2>1 DEF TypeOK
<1>7. TypeOK'
  <2>1. Left(call) \in SUBSET Parts
    BY DEF Left, Parts
  <2>2. lost' \subseteq Units /\ failed' \in BOOLEAN
    BY <1>1, <1>3 DEF TypeOK
  <2>3. /\ owns' \in [Units -> SUBSET Parts] /\ region' \in [Units -> Regions]
        /\ ptr' \in [Regions -> Units \cup {NoUnit}]
    BY <1>1, <1>3, <2>1 DEF TypeOK
  <2>4. todo' \in [Threads -> Seq(Regions)] /\ ret' \in [Threads -> {0, -1}]
    BY <1>1, <1>3 DEF TypeOK
  <2> QED
    BY <1>1, <1>2, <1>3, <2>2, <2>3, <2>4 DEF TypeOK
<1>8. AloneInv'
  BY <1>1, <1>2, <1>3 DEF MmapInv, AloneInv, Running
<1>9. CallInv'
  <2>1. todo'[t] = Tail(todo[t]) /\ \A u \in Threads \ {t} : todo'[u] = todo[u]
    BY <1>1, <1>3 DEF TypeOK
  <2>2. pc'[t] \in {"load", "map", "done"} /\ (pc'[t] = "load" <=> IsAccess(t))
    BY <1>3
  <2>3. req[t].op # "exit" /\ req[t] \in prog.calls
    BY <1>1 DEF MmapInv, CallInv
  <2>4. pc'[t] = "map" => Tail(todo[t]) # <<>>
    BY <1>3
  <2>5. \A u \in Threads \ {t} : pc'[u] = pc[u]
    BY <1>3
  <2> QED
    BY ZenonT(60), <1>2, <2>1, <2>2, <2>3, <2>4, <2>5 DEF MmapInv, CallInv, IsAccess
<1>10. PlaceInv'
  <2>1. pc'[t] \in {"load", "map", "done"} /\ (pc'[t] # "done" => ret' = ret)
    BY <1>3
  <2>2. \A u \in Threads \ {t} : pc'[u] = pc[u] /\ ret'[u] = ret[u]
    BY <1>3
  <2> QED
    BY <1>1, <1>2, <2>1, <2>2 DEF MmapInv, PlaceInv, Copying
<1>11. HeapInv'
  <2>1. \A h \in Regions : ~Exiting(h)'
    BY <1>5 DEF Exiting
  <2>2. \A h \in Regions : ptr[h] # NoUnit =>
            /\ owns[ptr[h]] = Parts /\ region[ptr[h]] = h /\ ptr[h] \in Units /\ ptr[h] # w
    <3>1. \A h \in Regions : ptr[h] # NoUnit =>
              owns[ptr[h]] = Parts /\ region[ptr[h]] = h /\ ptr[h] \in Units
      BY <1>1, <1>4 DEF MmapInv, HeapInv, TypeOK
    <3>2. Parts # {}
      BY DEF Parts
    <3> QED
      BY <1>3, <3>1, <3>2
  <2>3. \A h \in Regions : ptr'[h] # NoUnit => region'[ptr'[h]] = h /\ owns'[ptr'[h]] = Parts
    BY <1>6, <2>2
  <2> QED
    BY <1>5, <2>1, <2>3 DEF HeapInv
<1>12. UseInv'
  <2>1. \A u \in Threads : Uses(u)' <=> Uses(u)
    <3>1. pc[t] = "map" /\ pc'[t] \in {"load", "map", "done"}
      BY <1>1, <1>3
    <3> QED
      BY <1>2, <1>3, <3>1 DEF Uses
  <2>2. \A u \in Threads : Uses(u) => /\ unit[u] # NoUnit /\ unit[u] \in Units \ {w}
                                      /\ owns[unit[u]] = Parts /\ region[unit[u]] = req[u].region
    BY ZenonT(60), <1>1, <1>3 DEF MmapInv, UseInv, TypeOK, Parts
  <2>3. \A u \in Threads : Uses(u)' => /\ unit'[u] # NoUnit /\ owns'[unit'[u]] = Parts
                                       /\ region'[unit'[u]] = req'[u].region
    BY <1>2, <1>6, <2>1, <2>2
  <2>4. ASSUME ~failed', NEW u \in Threads
        PROVE  /\ pc'[u] = "load" => ptr'[req'[u].region] # NoUnit
               /\ pc'[u] = "enter" => unit'[u] # NoUnit
               /\ pc'[u] # "fault"
    <3>1. ~failed /\ ptr'[g] = w
      BY <1>3, <1>6, <2>4
    <3>2. w # NoUnit
      BY UnitAssumption
    <3>3. CASE u = t
      <4>1. pc'[t] \in {"load", "map", "done"} /\ (pc'[t] = "load" => g = req[t].region)
        BY <1>3
      <4> QED
        BY <1>2, <3>1, <3>2, <3>3, <4>1
    <3>4. CASE u # t
      <4>1. pc'[u] = pc[u] /\ req'[u] = req[u] /\ unit'[u] = unit[u]
        BY <1>2, <1>3, <3>4
      <4>2. pc[u] = "load" => ptr[req[u].region] # NoUnit /\ req[u].region \in Regions
        BY <3>1, CallFacts DEF MmapInv, UseInv
      <4>3. (pc[u] = "enter" => unit[u] # NoUnit) /\ pc[u] # "fault"
        BY <3>1 DEF MmapInv, UseInv
      <4> QED
        BY <1>6, <3>1, <3>2, <4>1, <4>2, <4>3
    <3> QED
      BY <3>3, <3>4
  <2> QED
    BY <2>3, <2>4 DEF UseInv
<1>13. MutexInv'
  <2>1. \A u \in Threads : pc'[u] \in {"copy", "unlock"} <=> pc[u] \in {"copy", "unlock"}
    <3>1. pc'[t] \in {"load", "map", "done"} /\ \A u \in Threads \ {t} : pc'[u] = pc[u]
      BY <1>3
    <3> QED
      BY <1>1, <3>1
  <2> QED
    BY <1>2, <2>1, HolderFacts DEF MmapInv, MutexInv, Copying
<1> QED
  BY <1>7, <1>8, <1>9, <1>10, <1>11, <1>12, <1>13 DEF MmapInv

\* Every step of the program keeps the invariant.
LEMMA MmapNext == MmapInv /\ [Next]_vars => MmapInv'
<1> SUFFICES ASSUME MmapInv, [Next]_vars PROVE MmapInv'
  OBVIOUS
<1>1. CASE Next
  <2>1. PICK t \in Threads : Call(t) \/ Step(t) \/ Consume(t)
    BY <1>1 DEF Next
  <2> QED
    BY <2>1, MmapCall, MmapConsume, MmapTest, MmapMap, MmapUnmap, MmapFree, MmapLoad,
       MmapEnter, MmapLock, MmapCopy, MmapUnlock DEF Step
<1>2. CASE UNCHANGED vars
  <2>1. UNCHANGED <<prog, ptr, owns, region, lost, failed, holder, regs, pc, req, todo, unit,
                    i, out, ret>>
    BY <1>2 DEF vars, heap, locals
  <2>2. TypeOK' /\ AloneInv' /\ CallInv' /\ PlaceInv'
    BY <2>1 DEF MmapInv, TypeOK, AloneInv, CallInv, PlaceInv, Running, Copying, IsAccess
  <2>3. HeapInv'
    BY <2>1, HeapKept
  <2>4. UseInv' /\ MutexInv'
    BY <2>1 DEF MmapInv, UseInv, MutexInv, Uses, Copying
  <2> QED
    BY <2>2, <2>3, <2>4 DEF MmapInv
<1> QED
  BY <1>1, <1>2

\* The invariant always holds.
LEMMA MmapInvariant == Spec => []MmapInv
BY MmapInit, MmapNext, PTL DEF Spec

----------------------------------------------------------------------------
(* The theorems about the heap. *)

\* Types are kept; in particular a call returns 0 or -1 and no copy runs past
\* its block.
THEOREM Typed == Spec => []TypeOK
<1>1. MmapInv => TypeOK
  BY DEF MmapInv
<1> QED
  BY <1>1, MmapInvariant, PTL

\* Unless a mapping has failed, no thread follows a null pointer, touches a unit
\* that is gone or copies beyond the end of a mapping, even if threads race to
\* map a region.
THEOREM FaultFree == Spec => []NoFault
<1>1. MmapInv => NoFault
  BY DEF MmapInv, UseInv, NoFault
<1> QED
  BY <1>1, MmapInvariant, PTL

\* A unit that a region points to is whole and maps it, except between the two
\* halves of an exit.
THEOREM WholeUnits == Spec => []PublishedWhole
<1>1. MmapInv => PublishedWhole
  BY DEF MmapInv, HeapInv, PublishedWhole, Exiting
<1> QED
  BY <1>1, MmapInvariant, PTL

\* An initial state has nothing that no region points to.
LEMMA LeakInit == Init => NoLeak
BY DEF Init, NoLeak

\* A step that fails closes and frees what it has opened; the initialisation of
\* the mutex is the one that does not.
LEMMA LeakNext ==
    ASSUME MmapInv, NoLeak, [Next]_vars, \A p \in Programs : "mutex" \notin p.failing
    PROVE  NoLeak'
<1>1. TypeOK /\ prog \in Programs
  BY DEF MmapInv, TypeOK
<1>2. CASE UNCHANGED <<ptr, owns, lost>>
  BY <1>2 DEF NoLeak
<1>3. ASSUME NEW t \in Threads, Map(t) PROVE NoLeak'
  <2>1. PICK call \in (prog.failing \ {"munmap"}) \cup {"none"}, w \in Units, g \in Regions :
          Mapped(t, call, w, g)
    BY <1>3, MapFacts
  <2> USE DEF Mapped
  <2>2. call # "mutex"
    BY <1>1
  <2>3. call # "none" => Left(call) = {}
    BY <2>2 DEF Left
  <2>4. /\ owns'[w] = Left(call) /\ \A u \in Units \ {w} : owns'[u] = owns[u]
        /\ ptr'[g] = IF call = "none" THEN w ELSE NoUnit
        /\ \A h \in Regions \ {g} : ptr'[h] = ptr[h]
    BY <1>1, <2>1 DEF TypeOK
  <2> SUFFICES ASSUME NEW u \in Units, owns'[u] # {}
               PROVE  u \in lost' \/ \E h \in Regions : ptr'[h] = u
    BY DEF NoLeak
  <2>5. CASE u = w
    BY <2>3, <2>4, <2>5
  <2>6. CASE u # w
    <3>1. u \in lost \/ \E h \in Regions : ptr[h] = u
      BY <2>4, <2>6 DEF NoLeak
    <3>2. CASE u \in lost
      BY <2>1, <3>2
    <3>3. CASE u \notin lost
      <4>1. PICK h \in Regions : ptr[h] = u
        BY <3>1, <3>3
      <4>2. CASE h = g
        BY <2>1, <4>1, <4>2, UnitAssumption
      <4>3. CASE h # g
        BY <2>4, <4>1, <4>3
      <4> QED
        BY <4>2, <4>3
    <3> QED
      BY <3>2, <3>3
  <2> QED
    BY <2>5, <2>6
<1>4. ASSUME NEW t \in Threads, Unmap(t) PROVE NoLeak'
  <2>1. ptr' = ptr /\ lost' = lost
    BY <1>4 DEF Unmap
  <2>2. \A u \in Units : owns'[u] \subseteq owns[u]
    <3>1. req[t].region \in Regions
      BY <1>4, CallFacts DEF Unmap
    <3>2. owns' = owns \/ /\ ptr[req[t].region] \in Units
                          /\ owns' = [owns EXCEPT ![ptr[req[t].region]] = @ \ {"map"}]
      BY <1>1, <1>4, <3>1 DEF Unmap, TypeOK
    <3> QED
      BY <1>1, <3>2 DEF TypeOK
  <2> QED
    BY <2>1, <2>2 DEF NoLeak
<1>5. ASSUME NEW t \in Threads, Free(t) PROVE NoLeak'
  <2> DEFINE g == req[t].region
             w == ptr[g]
  <2>1. g \in Regions /\ w # NoUnit /\ w \in Units
    <3>1. pc[t] = "free"
      BY <1>5 DEF Free
    <3>2. g \in Regions /\ w # NoUnit
      BY <3>1, CallFacts DEF MmapInv, HeapInv
    <3> QED
      BY <1>1, <3>2 DEF TypeOK
  <2>2. /\ owns' = [owns EXCEPT ![w] = {}] /\ ptr' = [ptr EXCEPT ![g] = NoUnit]
        /\ lost' = lost
    BY <1>5, <2>1 DEF Free
  <2>3. \A u \in Units : owns'[u] # {} => u # w /\ owns[u] # {}
    BY <1>1, <2>1, <2>2 DEF TypeOK
  <2>4. \A h \in Regions : ptr[h] # w => ptr'[h] = ptr[h]
    BY <1>1, <2>1, <2>2 DEF TypeOK
  <2> QED
    BY <2>2, <2>3, <2>4 DEF NoLeak
<1>6. CASE UNCHANGED vars
  BY <1>2, <1>6 DEF vars, heap
<1>7. CASE Next
  <2>1. PICK t \in Threads : Call(t) \/ Step(t) \/ Consume(t)
    BY <1>7 DEF Next
  <2>2. CASE Map(t) \/ Unmap(t) \/ Free(t)
    BY <1>3, <1>4, <1>5, <2>2
  <2>3. CASE Call(t) \/ Consume(t) \/ Test(t) \/ Load(t) \/ Enter(t) \/ Lock(t) \/ Copy(t) \/ Unlock(t)
    BY <1>2, <2>3 DEF Call, Consume, Test, Load, Enter, Lock, Copy, Unlock, heap
  <2> QED
    BY <2>1, <2>2, <2>3 DEF Step
<1> QED
  BY <1>6, <1>7

\* Whatever call of eos_mmap_init or eos_mmap_exit fails, what is allocated
\* belongs to a unit that a region points to, or that the thread which lost the
\* race to map a region has replaced.  Only a failing pthread_mutex_init forgets
\* what has been opened.
THEOREM NothingLost ==
    ASSUME \A p \in Programs : "mutex" \notin p.failing
    PROVE  Spec => []NoLeak
<1>1. MmapInv /\ NoLeak /\ [Next]_vars => NoLeak'
  BY LeakNext
<1> QED
  BY <1>1, LeakInit, MmapInvariant, PTL DEF Spec

----------------------------------------------------------------------------
(* Every access takes effect in one step, as long as no unit is lost. *)

\* Nothing that is lost is found again.
LEMMA LostStays == [Next]_vars => lost \subseteq lost'
BY ZenonT(60) DEF Next, Step, vars, heap, locals, Call, Consume, Test, Map, Unmap, Free, Load, Enter, Lock,
   Copy, Unlock

\* A step that leaves the heap and the registers alone keeps OneUnitInv if no
\* thread begins to use a unit or gets further with a copy.
LEMMA OneUnitKept ==
    ASSUME MmapInv, OneUnitInv, lost' = lost, UNCHANGED <<ptr, regs>>,
           \A u \in Threads : Uses(u)' => Uses(u) /\ req'[u] = req[u] /\ unit'[u] = unit[u],
           \A u \in Threads : Writing(u)' => Writing(u) /\ i'[u] = i[u] /\ req'[u] = req[u]
    PROVE  OneUnitInv'
BY DEF OneUnitInv

\* A mapping that replaces a unit makes lost say so; any other one changes no
\* unit in use.
LEMMA OneUnitMap ==
    ASSUME MmapInv, OneUnitInv, NEW t \in Threads, Map(t) PROVE OneUnitInv'
<1> SUFFICES ASSUME lost' = {} PROVE OneUnitInv'
  BY DEF OneUnitInv
<1>1. PICK call \in (prog.failing \ {"munmap"}) \cup {"none"}, w \in Units, g \in Regions :
        Mapped(t, call, w, g)
  BY MapFacts
<1>2. lost = {} /\ ptr[g] = NoUnit
  BY <1>1 DEF Mapped
<1>3. \A h \in Regions \ {g} : ptr'[h] = ptr[h]
  BY <1>1 DEF Mapped, MmapInv, TypeOK
<1>4. pc[t] = "map" /\ pc'[t] \in {"load", "map", "done"} /\ UNCHANGED <<req, unit, i, regs>>
  BY <1>1 DEF Map, Mapped
<1>5. \A u \in Threads \ {t} : pc'[u] = pc[u]
  BY <1>1 DEF Mapped
<1>6. \A u \in Threads : Uses(u)' => Uses(u)
  BY <1>4, <1>5 DEF Uses
<1>7. \A u \in Threads : Uses(u) => ptr[req[u].region] = unit[u] /\ unit[u] # NoUnit
  BY <1>2 DEF OneUnitInv, MmapInv, UseInv
<1>8. \A u \in Threads : Uses(u) => req[u].region \in Regions
  BY CallFacts DEF Uses
<1>9. \A u \in Threads : Writing(u)' => Writing(u)
  BY <1>4, <1>5 DEF Writing
<1>10. \A u \in Threads : Uses(u)' => ptr'[req'[u].region] = unit'[u]
  BY <1>2, <1>3, <1>4, <1>6, <1>7, <1>8
<1> QED
  BY <1>2, <1>4, <1>9, <1>10 DEF OneUnitInv

\* Two threads that copy at the same time copy blocks of different regions.
LEMMA OneCopierOfRegion ==
    ASSUME MmapInv, OneUnitInv, lost = {}, NEW t \in Threads, NEW u \in Threads,
           Copying(t), Copying(u), req[t].region = req[u].region
    PROVE  t = u
<1>1. Uses(t) /\ Uses(u)
  BY DEF Uses, Copying
<1>2. unit[t] = unit[u]
  BY <1>1 DEF OneUnitInv
<1> QED
  BY <1>2, OneCopier

\* A copy changes no pointer and no unit.
LEMMA OneUnitCopy ==
    ASSUME MmapInv, OneUnitInv, NEW t \in Threads, Copy(t) PROVE OneUnitInv'
<1>1. lost' = lost /\ UNCHANGED <<ptr, req, unit>> /\ pc[t] = "copy"
  BY DEF Copy, heap
<1> SUFFICES ASSUME lost = {} PROVE OneUnitInv'
  BY <1>1 DEF OneUnitInv
<1>2. CopyFacts(t)
  BY CopyLemma
<1>3. \A u \in Threads : Uses(u)' <=> Uses(u)
  BY <1>1, <1>2 DEF CopyFacts, Uses
<1>4. \A u \in Threads : Writing(u)' <=> Writing(u)
  BY <1>1, <1>2 DEF CopyFacts, Writing
<1>5. ASSUME NEW u \in Threads, Writing(u), NEW k \in Places, k < i'[u]
      PROVE  regs'[req[u].region][req[u].off + k] = req[u].data[k]
  <2>1. Copying(t) /\ Copying(u)
    BY <1>1, <1>5 DEF Copying, Writing
  <2>2. req[u].region \in Regions /\ req[u].off \in Nat /\ k \in Nat
    BY <2>1, CallFacts DEF Copying, Places
  <2>3. CASE u = t
    <3>1. /\ req[t].op = "write" /\ i[t] \in Nat
          /\ regs' = [regs EXCEPT ![req[t].region][req[t].off + i[t]] = req[t].data[i[t]]]
      BY <1>2, <1>5, <2>3 DEF CopyFacts, Writing
    <3>2. k < i[t] \/ k = i[t]
      BY <1>2, <1>5, <2>2, <2>3, <3>1 DEF CopyFacts
    <3>3. CASE k = i[t]
      BY <1>2, <2>2, <2>3, <3>1, <3>3 DEF CopyFacts, MmapInv, TypeOK
    <3>4. CASE k < i[t]
      <4>1. req[t].off + k # req[t].off + i[t]
        BY <2>2, <2>3, <3>1, <3>4
      <4>2. regs[req[t].region][req[t].off + k] = req[t].data[k]
        BY <1>5, <2>3, <3>4 DEF OneUnitInv
      <4>3. regs'[req[t].region][req[t].off + k] = regs[req[t].region][req[t].off + k]
        BY <1>2, <3>1, <4>1 DEF CopyFacts, MmapInv, TypeOK
      <4> QED
        BY <2>3, <4>2, <4>3
    <3> QED
      BY <3>2, <3>3, <3>4
  <2>4. CASE u # t
    <3>1. req[u].region # req[t].region
      BY <2>1, <2>4, OneCopierOfRegion
    <3>2. regs'[req[u].region] = regs[req[u].region]
      BY <1>2, <2>2, <3>1 DEF CopyFacts, MmapInv, TypeOK
    <3>3. k < i[u]
      BY <1>2, <1>5, <2>4 DEF CopyFacts
    <3> QED
      BY <1>5, <3>2, <3>3 DEF OneUnitInv
  <2> QED
    BY <2>3, <2>4
<1> QED
  BY <1>1, <1>3, <1>4, <1>5 DEF OneUnitInv

\* As long as no unit has been replaced, all accesses of a region use its one
\* unit.
LEMMA OneUnitNext == ASSUME MmapInv, OneUnitInv, [Next]_vars PROVE OneUnitInv'
<1>1. CASE UNCHANGED vars
  BY <1>1 DEF OneUnitInv, Uses, Writing, vars, heap, locals
<1>2. CASE Next
  <2>1. PICK t \in Threads : Call(t) \/ Step(t) \/ Consume(t)
    BY <1>2 DEF Next
  <2>2. CASE Map(t)
    BY <2>2, OneUnitMap
  <2>3. CASE Copy(t)
    BY <2>3, OneUnitCopy
  <2>4. CASE Call(t)
    <3>1. pc[t] = "idle" /\ pc'[t] \in {"map", "unmap", "test"}
      BY <2>4 DEF Call, Goto, MmapInv, TypeOK
    <3>2. \A u \in Threads \ {t} : pc'[u] = pc[u] /\ req'[u] = req[u]
      BY <2>4 DEF Call, Goto, MmapInv, TypeOK
    <3>3. UNCHANGED <<lost, ptr, regs, unit, i>>
      BY <2>4 DEF Call, heap
    <3> QED
      BY <3>1, <3>2, <3>3, OneUnitKept DEF Uses, Writing
  <2>5. CASE Consume(t)
    <3>1. pc'[t] = "idle"
      BY <2>5 DEF Consume, Goto, MmapInv, TypeOK
    <3>2. \A u \in Threads \ {t} : pc'[u] = pc[u] /\ req'[u] = req[u] /\ unit'[u] = unit[u] /\ i'[u] = i[u]
      BY <2>5 DEF Consume, Goto, MmapInv, TypeOK
    <3>3. UNCHANGED <<lost, ptr, regs>>
      BY <2>5 DEF Consume, heap
    <3> QED
      BY <3>1, <3>2, <3>3, OneUnitKept DEF Uses, Writing
  <2>6. CASE Test(t)
    <3>1. pc'[t] \in {"map", "load"} /\ \A u \in Threads \ {t} : pc'[u] = pc[u]
      BY <2>6 DEF Test, Goto, MmapInv, TypeOK
    <3>2. UNCHANGED <<lost, ptr, regs, req, unit, i>>
      BY <2>6 DEF Test, heap, locals
    <3> QED
      BY <3>1, <3>2, OneUnitKept DEF Uses, Writing
  <2>7. CASE Load(t)
    <3>1. /\ pc'[t] = "enter" /\ unit'[t] = ptr[req[t].region]
          /\ \A u \in Threads \ {t} : pc'[u] = pc[u] /\ unit'[u] = unit[u]
      BY <2>7 DEF Load, Goto, MmapInv, TypeOK
    <3>2. UNCHANGED <<lost, ptr, regs, req, i>>
      BY <2>7 DEF Load, heap
    <3> QED
      BY <3>1, <3>2 DEF OneUnitInv, Uses, Writing
  <2>8. CASE Enter(t)
    <3>1. /\ pc[t] = "enter" /\ pc'[t] \in {"fault", "done", "lock"}
          /\ pc'[t] = "lock" => Allocated(unit[t])
          /\ \A u \in Threads \ {t} : pc'[u] = pc[u]
      BY <2>8 DEF Enter, Goto, Finish, MmapInv, TypeOK
    <3>2. UNCHANGED <<lost, ptr, regs, req, unit, i>>
      BY <2>8 DEF Enter, heap
    <3> QED
      BY <3>1, <3>2, OneUnitKept DEF Uses, Writing, Allocated
  <2>9. CASE Lock(t)
    <3>1. /\ pc[t] = "lock" /\ Allocated(unit[t])
      BY <2>9, UsesAllocated DEF Lock
    <3>2. /\ pc'[t] \in {"unlock", "copy"}
          /\ \A u \in Threads \ {t} : pc'[u] = pc[u]
      BY <2>9, <3>1 DEF Lock, Goto, MmapInv, TypeOK
    <3>3. UNCHANGED <<lost, ptr, regs, req, unit, i>>
      BY <2>9 DEF Lock, heap, locals
    <3>4. i[t] = 0 /\ \A k \in Places : ~(k < 0)
      BY <3>1 DEF MmapInv, PlaceInv, Copying, Places
    <3> QED
      BY <3>1, <3>2, <3>3, <3>4 DEF OneUnitInv, Uses, Writing
  <2>10. CASE Unlock(t)
    <3>1. /\ pc[t] = "unlock" /\ Allocated(unit[t])
      BY <2>10, UsesAllocated DEF Unlock
    <3>2. pc'[t] = "done" /\ \A u \in Threads \ {t} : pc'[u] = pc[u]
      BY <2>10, <3>1 DEF Unlock, Goto, Finish, MmapInv, TypeOK
    <3>3. UNCHANGED <<lost, ptr, regs, req, unit, i>>
      BY <2>10 DEF Unlock, heap
    <3> QED
      BY <3>1, <3>2, <3>3, OneUnitKept DEF Uses, Writing
  <2>11. CASE Unmap(t) \/ Free(t)
    <3>1. pc[t] \in {"unmap", "free"} /\ req[t].op = "exit" /\ UNCHANGED <<lost, regs, req, unit, i>>
      BY <2>11 DEF Unmap, Free, heap, MmapInv, CallInv
    <3>2. \A u \in Threads \ {t} : pc[u] \in {"idle", "done"}
      BY <3>1, OnlyRunner DEF Running, Alone
    <3>3. pc'[t] \in {"done", "free", "fault"} /\ \A u \in Threads \ {t} : pc'[u] = pc[u]
      BY <2>11 DEF Unmap, Free, Goto, Finish, MmapInv, TypeOK
    <3>4. \A u \in Threads : ~Uses(u)' /\ ~Writing(u)'
      BY <3>2, <3>3 DEF Uses, Writing
    <3> QED
      BY <3>4 DEF OneUnitInv
  <2> QED
    BY <2>1, <2>2, <2>3, <2>4, <2>5, <2>6, <2>7, <2>8, <2>9, <2>10, <2>11 DEF Step
<1> QED
  BY <1>1, <1>2

\* What holds at every state of a run that loses no unit.
Good == MmapInv /\ OneUnitInv /\ lost = {}

WriterAt(t, g, a) == Writing(t) /\ region[unit[t]] = g /\ a \in Block(t)

\* At most one write covers a register.
LEMMA OneWriter ==
    ASSUME Good, NEW t \in Threads, NEW u \in Threads, NEW g, NEW a,
           WriterAt(t, g, a), WriterAt(u, g, a)
    PROVE  t = u
<1>1. Copying(t) /\ Copying(u)
  BY DEF WriterAt, Writing, Copying
<1>2. req[t].region = g /\ req[u].region = g
  BY <1>1, UsesAllocated DEF WriterAt, Copying, Good
<1> QED
  BY <1>1, <1>2, OneCopierOfRegion DEF Good

\* The registers as the callers see them: a write that has the mutex is done.
RegsFacts ==
    \A g \in Regions, a \in Words :
        /\ \A t \in Threads : WriterAt(t, g, a) => AtomicRegs[g][a] = req[t].data[a - req[t].off]
        /\ (\A t \in Threads : ~WriterAt(t, g, a)) => AtomicRegs[g][a] = regs[g][a]

\* What the abstract registers show: the words that the holder of the mutex has
\* yet to write count as written.
LEMMA RegsOf == Good => RegsFacts
<1> SUFFICES ASSUME Good, NEW g \in Regions, NEW a \in Words
             PROVE  /\ \A t \in Threads : WriterAt(t, g, a) =>
                            AtomicRegs[g][a] = req[t].data[a - req[t].off]
                    /\ (\A t \in Threads : ~WriterAt(t, g, a)) => AtomicRegs[g][a] = regs[g][a]
  BY DEF RegsFacts
<1>1. AtomicRegs[g][a] =
        IF \E t \in Threads : WriterAt(t, g, a)
        THEN LET t == CHOOSE t \in Threads : WriterAt(t, g, a)
             IN req[t].data[a - req[t].off]
        ELSE regs[g][a]
  BY DEF AtomicRegs, WriterAt
<1>2. ASSUME NEW t \in Threads, WriterAt(t, g, a)
      PROVE  AtomicRegs[g][a] = req[t].data[a - req[t].off]
  <2> DEFINE w == CHOOSE u \in Threads : WriterAt(u, g, a)
  <2>1. w \in Threads /\ WriterAt(w, g, a)
    BY <1>2
  <2>2. w = t
    BY <1>2, <2>1, OneWriter
  <2>3. AtomicRegs[g][a] = req[w].data[a - req[w].off]
    BY <1>1, <1>2
  <2> QED
    BY <2>2, <2>3
<1> QED
  BY <1>1, <1>2

\* The same after a step.
LEMMA RegsOfNext == Good' => RegsFacts'
BY RegsOf, PTL

\* What a thread looks like from outside is the same after a step.
KeptCopy(u) ==
    /\ Copying(u)' <=> Copying(u)
    /\ Copying(u) => /\ req'[u] = req[u] /\ i'[u] = i[u]
                     /\ region'[unit'[u]] = region[unit[u]]
KeptCall(u) ==
    /\ IsAccess(u)' <=> IsAccess(u)
    /\ IsAccess(u) => /\ req'[u] = req[u] /\ ret'[u] = ret[u]
                      /\ pc'[u] \in {"copy", "unlock", "done"} <=> pc[u] \in {"copy", "unlock", "done"}

\* Two states with the same registers seen from outside.
LEMMA SameRegs ==
    ASSUME \A g \in Regions, a \in Words : AtomicRegs'[g][a] = AtomicRegs[g][a]
    PROVE  AtomicRegs' = AtomicRegs
<1>1. AtomicRegs = [g \in Regions |-> [a \in Words |-> AtomicRegs[g][a]]]
  BY DEF AtomicRegs
<1>2. AtomicRegs' = [g \in Regions |-> [a \in Words |-> AtomicRegs'[g][a]]]
  BY DEF AtomicRegs
<1> HIDE DEF AtomicRegs
<1>3. [g \in Regions |-> [a \in Words |-> AtomicRegs'[g][a]]]
        = [g \in Regions |-> [a \in Words |-> AtomicRegs[g][a]]]
  OBVIOUS
<1> QED
  BY <1>1, <1>2, <1>3

\* A register that is not written and whose writer, if it has one, stays.
LEMMA SameRegister ==
    ASSUME Good, Good', NEW g \in Regions, NEW a \in Words, regs'[g][a] = regs[g][a],
           \A u \in Threads : WriterAt(u, g, a)' <=> WriterAt(u, g, a),
           \A u \in Threads : WriterAt(u, g, a) => req'[u] = req[u]
    PROVE  AtomicRegs'[g][a] = AtomicRegs[g][a]
<1>1. CASE \E u \in Threads : WriterAt(u, g, a)
  <2>1. PICK u \in Threads : WriterAt(u, g, a) /\ WriterAt(u, g, a)' /\ req'[u] = req[u]
    BY <1>1
  <2>2. AtomicRegs[g][a] = req[u].data[a - req[u].off]
    BY <2>1, RegsOf DEF RegsFacts
  <2>3. AtomicRegs'[g][a] = req'[u].data[a - req'[u].off]
    BY <2>1, RegsOfNext DEF RegsFacts
  <2> QED
    BY <2>1, <2>2, <2>3
<1>2. CASE \A u \in Threads : ~WriterAt(u, g, a)
  <2>1. AtomicRegs[g][a] = regs[g][a]
    BY <1>2, RegsOf DEF RegsFacts
  <2>2. AtomicRegs'[g][a] = regs'[g][a]
    BY <1>2, RegsOfNext DEF RegsFacts
  <2> QED
    BY <2>1, <2>2
<1> QED
  BY <1>1, <1>2

\* Nothing is written and no writer comes or goes.
LEMMA RegsKept ==
    ASSUME Good, Good', regs' = regs, \A u \in Threads : KeptCopy(u)
    PROVE  AtomicRegs' = AtomicRegs
<1> SUFFICES ASSUME NEW g \in Regions, NEW a \in Words
             PROVE  AtomicRegs'[g][a] = AtomicRegs[g][a]
  BY SameRegs
<1>1. \A u \in Threads : Writing(u)' <=> Writing(u)
  BY DEF KeptCopy, Writing, Copying
<1>2. \A u \in Threads : Writing(u) => req'[u] = req[u] /\ region'[unit'[u]] = region[unit[u]]
  BY DEF KeptCopy, Writing, Copying
<1>3. \A u \in Threads : WriterAt(u, g, a)' <=> WriterAt(u, g, a)
  BY <1>1, <1>2 DEF WriterAt, Block
<1>4. \A u \in Threads : WriterAt(u, g, a) => req'[u] = req[u]
  BY <1>2 DEF WriterAt
<1> QED
  BY <1>3, <1>4, SameRegister

\* The buffer of a thread that goes on as it was.
LEMMA OutAt ==
    ASSUME NEW u \in Threads, KeptCopy(u), out'[u] = out[u],
           Reading(u) => regs'[region[unit[u]]] = regs[region[unit[u]]]
    PROVE  AtomicOut'[u] = AtomicOut[u]
<1>1. Reading(u)' <=> Reading(u)
  BY DEF KeptCopy, Reading, Copying
<1>2. Reading(u) => /\ req'[u] = req[u] /\ i'[u] = i[u]
                    /\ region'[unit'[u]] = region[unit[u]]
  BY DEF KeptCopy, Reading, Copying
<1>3. AtomicOut[u] = [k \in Places |->
        IF Reading(u) /\ k >= i[u] /\ k < req[u].len
        THEN regs[region[unit[u]]][req[u].off + k] ELSE out[u][k]]
  BY DEF AtomicOut
<1>4. AtomicOut'[u] = [k \in Places |->
        IF Reading(u)' /\ k >= i'[u] /\ k < req'[u].len
        THEN regs'[region'[unit'[u]]][req'[u].off + k] ELSE out'[u][k]]
  BY DEF AtomicOut
<1> QED
  BY <1>1, <1>2, <1>3, <1>4

\* Two functions of the threads with the same values are equal: what calls have
\* read.
LEMMA SameOut ==
    ASSUME \A u \in Threads : AtomicOut'[u] = AtomicOut[u]
    PROVE  AtomicOut' = AtomicOut
<1>1. AtomicOut = [u \in Threads |-> AtomicOut[u]]
  BY DEF AtomicOut
<1>2. AtomicOut' = [u \in Threads |-> AtomicOut'[u]]
  BY DEF AtomicOut
<1> HIDE DEF AtomicOut
<1>3. [u \in Threads |-> AtomicOut'[u]] = [u \in Threads |-> AtomicOut[u]]
  OBVIOUS
<1> QED
  BY <1>1, <1>2, <1>3

\* The call of a thread that goes on as it was.
LEMMA CallAt ==
    ASSUME NEW u \in Threads, KeptCall(u)
    PROVE  /\ AtomicStage'[u] = AtomicStage[u] /\ AtomicCall'[u] = AtomicCall[u]
           /\ AtomicRet'[u] = AtomicRet[u]
<1>1. AtomicStage'[u] = AtomicStage[u]
  BY DEF KeptCall, AtomicStage
<1>2. AtomicCall'[u] = AtomicCall[u]
  BY DEF KeptCall, AtomicCall
<1>3. AtomicRet'[u] = AtomicRet[u]
  BY DEF KeptCall, AtomicRet
<1> QED
  BY <1>1, <1>2, <1>3

\* A step that keeps every call is none of the abstract calls.
LEMMA SameCalls ==
    ASSUME \A u \in Threads : KeptCall(u)
    PROVE  AtomicStage' = AtomicStage /\ AtomicCall' = AtomicCall /\ AtomicRet' = AtomicRet
<1>1. \A u \in Threads : /\ AtomicStage'[u] = AtomicStage[u] /\ AtomicCall'[u] = AtomicCall[u]
                         /\ AtomicRet'[u] = AtomicRet[u]
  BY CallAt
<1>2. /\ AtomicStage = [u \in Threads |-> AtomicStage[u]]
      /\ AtomicStage' = [u \in Threads |-> AtomicStage'[u]]
  BY DEF AtomicStage
<1>3. /\ AtomicCall = [u \in Threads |-> AtomicCall[u]]
      /\ AtomicCall' = [u \in Threads |-> AtomicCall'[u]]
  BY DEF AtomicCall
<1>4. /\ AtomicRet = [u \in Threads |-> AtomicRet[u]]
      /\ AtomicRet' = [u \in Threads |-> AtomicRet'[u]]
  BY DEF AtomicRet
<1>5. [u \in Threads |-> AtomicStage'[u]] = [u \in Threads |-> AtomicStage[u]]
  BY <1>1
<1>6. [u \in Threads |-> AtomicCall'[u]] = [u \in Threads |-> AtomicCall[u]]
  BY <1>1
<1>7. [u \in Threads |-> AtomicRet'[u]] = [u \in Threads |-> AtomicRet[u]]
  BY <1>1
<1> QED
  BY <1>2, <1>3, <1>4, <1>5, <1>6, <1>7

\* A step that nobody sees.
LEMMA Silent ==
    ASSUME Good, Good', regs' = regs,
           \A u \in Threads : KeptCopy(u) /\ KeptCall(u) /\ out'[u] = out[u]
    PROVE  UNCHANGED Atomic!vars
<1>1. AtomicRegs' = AtomicRegs
  BY RegsKept
<1>2. AtomicOut' = AtomicOut
  BY OutAt, SameOut
<1>3. AtomicStage' = AtomicStage /\ AtomicCall' = AtomicCall /\ AtomicRet' = AtomicRet
  BY SameCalls
<1> QED
  BY <1>1, <1>2, <1>3 DEF Atomic!vars

\* A function that differs from another at one place.
LEMMA OneChanged ==
    ASSUME NEW S, NEW f, NEW h, f = [u \in S |-> f[u]], h = [u \in S |-> h[u]],
           NEW t \in S, NEW x, h[t] = x, \A u \in S \ {t} : h[u] = f[u]
    PROVE  h = [f EXCEPT ![t] = x]
OBVIOUS

\* The refinement mapping yields functions of the threads and of the regions.
LEMMA AtomicFunctions ==
    /\ AtomicStage = [u \in Threads |-> AtomicStage[u]]
    /\ AtomicCall = [u \in Threads |-> AtomicCall[u]]
    /\ AtomicRet = [u \in Threads |-> AtomicRet[u]]
    /\ AtomicOut = [u \in Threads |-> AtomicOut[u]]
    /\ AtomicRegs = [g \in Regions |-> AtomicRegs[g]]
BY DEF AtomicStage, AtomicCall, AtomicRet, AtomicOut, AtomicRegs

\* The same after a step.
LEMMA AtomicFunctionsNext ==
    /\ AtomicStage' = [u \in Threads |-> AtomicStage'[u]]
    /\ AtomicCall' = [u \in Threads |-> AtomicCall'[u]]
    /\ AtomicRet' = [u \in Threads |-> AtomicRet'[u]]
    /\ AtomicOut' = [u \in Threads |-> AtomicOut'[u]]
    /\ AtomicRegs' = [g \in Regions |-> AtomicRegs'[g]]
BY DEF AtomicStage, AtomicCall, AtomicRet, AtomicOut, AtomicRegs

\* A thread that does not take part in a step.
LEMMA Bystander ==
    ASSUME NEW u \in Threads, pc'[u] = pc[u], req'[u] = req[u], unit'[u] = unit[u],
           i'[u] = i[u], ret'[u] = ret[u],
           Copying(u) => region'[unit[u]] = region[unit[u]]
    PROVE  KeptCopy(u) /\ KeptCall(u)
BY DEF KeptCopy, KeptCall, Copying, IsAccess

\* A call of an access is an abstract call; an init or an exit is none.
LEMMA RefineCall ==
    ASSUME Good, Good', NEW t \in Threads, Call(t)
    PROVE  Atomic!Invoke(t) \/ UNCHANGED Atomic!vars
<1>1. TypeOK /\ pc[t] = "idle" /\ prog \in Programs /\ req[t] = NoRequest /\ ret[t] = 0
  BY DEF Call, Good, MmapInv, TypeOK, CallInv, PlaceInv
<1>2. PICK r \in prog.calls :
         /\ req' = [req EXCEPT ![t] = r]
         /\ Goto(t, CASE r.op = "init" -> "map"
                      [] r.op = "exit" -> "unmap"
                      [] OTHER         -> "test")
  BY DEF Call
<1>3. UNCHANGED <<region, regs, unit, i, out, ret>>
  BY DEF Call, heap
<1>4. /\ pc'[t] \in {"map", "unmap", "test"} /\ req'[t] = r
      /\ \A u \in Threads \ {t} : pc'[u] = pc[u] /\ req'[u] = req[u]
  BY <1>1, <1>2 DEF Goto, TypeOK
<1>5. \A u \in Threads \ {t} : KeptCopy(u) /\ KeptCall(u)
  BY <1>3, <1>4, Bystander
<1>6. KeptCopy(t) /\ ~IsAccess(t)
  BY <1>1, <1>4 DEF KeptCopy, Copying, IsAccess, NoRequest
<1>7. AtomicRegs' = AtomicRegs /\ AtomicOut' = AtomicOut
  BY <1>3, <1>5, <1>6, RegsKept, OutAt, SameOut
<1>8. CASE ~IsAccess(t)'
  <2>1. KeptCall(t)
    BY <1>6, <1>8 DEF KeptCall
  <2> QED
    BY <1>3, <1>5, <1>6, <2>1, Silent
<1>9. CASE IsAccess(t)'
  <2>1. r \in Accesses
    BY <1>1, <1>4, <1>9 DEF IsAccess, Accesses
  <2>2. AtomicStage[t] = "idle" /\ AtomicRet[t] = 0
    BY <1>6 DEF AtomicStage, AtomicRet
  <2>3. AtomicStage'[t] = "called" /\ AtomicCall'[t] = r /\ AtomicRet'[t] = 0
    BY <1>1, <1>3, <1>4, <1>9 DEF AtomicStage, AtomicCall, AtomicRet
  <2>4. \A u \in Threads \ {t} : /\ AtomicStage'[u] = AtomicStage[u] /\ AtomicCall'[u] = AtomicCall[u]
                                 /\ AtomicRet'[u] = AtomicRet[u]
    BY <1>5, CallAt
  <2> HIDE DEF AtomicStage, AtomicCall, AtomicRet
  <2>5. AtomicStage' = [AtomicStage EXCEPT ![t] = "called"]
    BY <2>3, <2>4, OneChanged, AtomicFunctions, AtomicFunctionsNext
  <2>6. AtomicCall' = [AtomicCall EXCEPT ![t] = r]
    BY <2>3, <2>4, OneChanged, AtomicFunctions, AtomicFunctionsNext
  <2>7. AtomicRet' = AtomicRet
    <3>1. [u \in Threads |-> AtomicRet'[u]] = [u \in Threads |-> AtomicRet[u]]
      BY <2>2, <2>3, <2>4
    <3> QED
      BY <3>1, AtomicFunctions, AtomicFunctionsNext
  <2> QED
    BY <1>7, <2>1, <2>2, <2>5, <2>6, <2>7 DEF Atomic!Invoke
<1> QED
  BY <1>8, <1>9

\* Taking the result of an access is an abstract return.
LEMMA RefineConsume ==
    ASSUME Good, Good', NEW t \in Threads, Consume(t)
    PROVE  Atomic!Return(t) \/ UNCHANGED Atomic!vars
<1>1. TypeOK /\ pc[t] = "done" /\ UNCHANGED <<region, regs>>
  BY DEF Consume, Good, MmapInv, heap
<1>2. /\ pc'[t] = "idle" /\ req'[t] = NoRequest /\ out'[t] = NoBlock /\ ret'[t] = 0
      /\ \A u \in Threads \ {t} : /\ pc'[u] = pc[u] /\ req'[u] = req[u] /\ unit'[u] = unit[u]
                                  /\ i'[u] = i[u] /\ out'[u] = out[u] /\ ret'[u] = ret[u]
  BY <1>1 DEF Consume, Goto, TypeOK
<1>3. \A u \in Threads \ {t} : KeptCopy(u) /\ KeptCall(u) /\ out'[u] = out[u]
  BY <1>1, <1>2, Bystander
<1>4. KeptCopy(t) /\ ~IsAccess(t)'
  BY <1>1, <1>2 DEF KeptCopy, Copying, IsAccess, NoRequest
<1>5. AtomicRegs' = AtomicRegs
  BY <1>1, <1>3, <1>4, RegsKept
<1>6. CASE ~IsAccess(t)
  <2>1. out[t] = NoBlock
    BY <1>6 DEF Good, MmapInv, PlaceInv, IsAccess
  <2>2. KeptCall(t)
    BY <1>4, <1>6 DEF KeptCall
  <2> QED
    BY <1>1, <1>2, <1>3, <1>4, <2>1, <2>2, Silent
<1>7. CASE IsAccess(t)
  <2>1. AtomicStage[t] = "performed"
    BY <1>1, <1>7 DEF AtomicStage
  <2>2. AtomicStage'[t] = "idle" /\ AtomicCall'[t] = NoRequest /\ AtomicRet'[t] = 0
    BY <1>4 DEF AtomicStage, AtomicCall, AtomicRet
  <2>3. AtomicOut'[t] = NoBlock
    <3>1. AtomicOut'[t] = [k \in Places |-> out'[t][k]]
      BY <1>2 DEF AtomicOut, Reading
    <3> QED
      BY <1>2, <3>1 DEF NoBlock
  <2>4. \A u \in Threads \ {t} : /\ AtomicStage'[u] = AtomicStage[u] /\ AtomicCall'[u] = AtomicCall[u]
                                 /\ AtomicRet'[u] = AtomicRet[u] /\ AtomicOut'[u] = AtomicOut[u]
    BY <1>1, <1>3, CallAt, OutAt
  <2>5. AtomicStage' = [AtomicStage EXCEPT ![t] = "idle"]
    BY <2>2, <2>4, OneChanged, AtomicFunctions, AtomicFunctionsNext
  <2>6. AtomicCall' = [AtomicCall EXCEPT ![t] = Atomic!NoCall]
    BY <2>2, <2>4, OneChanged, AtomicFunctions, AtomicFunctionsNext DEF Atomic!NoCall, NoRequest
  <2>7. AtomicRet' = [AtomicRet EXCEPT ![t] = 0]
    BY <2>2, <2>4, OneChanged, AtomicFunctions, AtomicFunctionsNext
  <2>8. Atomic!NoBlock = NoBlock
    BY DEF Atomic!NoBlock, NoBlock, Atomic!Places, Places
  <2>9. AtomicOut' = [AtomicOut EXCEPT ![t] = Atomic!NoBlock]
    BY <2>3, <2>4, <2>8, OneChanged, AtomicFunctions, AtomicFunctionsNext
  <2> QED
    BY <1>5, <2>1, <2>5, <2>6, <2>7, <2>9 DEF Atomic!Return
<1> QED
  BY <1>6, <1>7

\* Mapping, unmapping and the tests before an access are not seen.
LEMMA RefineMap ==
    ASSUME Good, Good', NEW t \in Threads, Map(t) PROVE UNCHANGED Atomic!vars
<1>1. PICK call \in (prog.failing \ {"munmap"}) \cup {"none"}, w \in Units, g \in Regions :
        Mapped(t, call, w, g)
  BY MapFacts DEF Good
<1>2. pc[t] = "map" /\ UNCHANGED <<regs, req, unit, i, out>>
  BY DEF Map
<1>3. /\ pc'[t] \in {"load", "map", "done"} /\ (IsAccess(t) => pc'[t] = "load" /\ ret' = ret)
      /\ \A u \in Threads \ {t} : pc'[u] = pc[u] /\ ret'[u] = ret[u]
  BY <1>1 DEF Mapped
<1>4. \A u \in Threads : Copying(u) => region'[unit[u]] = region[unit[u]]
  <2>1. \A u \in Threads : Copying(u) => unit[u] \in Units /\ owns[unit[u]] = Parts
    BY UsesAllocated DEF Copying, Good
  <2>2. owns[w] = {} /\ Parts # {}
    BY <1>1 DEF Mapped, Parts
  <2>3. \A u \in Units \ {w} : region'[u] = region[u]
    BY <1>1 DEF Mapped, Good, MmapInv, TypeOK
  <2> QED
    BY <2>1, <2>2, <2>3
<1>5. \A u \in Threads \ {t} : KeptCopy(u) /\ KeptCall(u)
  BY <1>2, <1>3, <1>4, Bystander
<1>6. KeptCopy(t) /\ KeptCall(t)
  BY <1>2, <1>3 DEF KeptCopy, KeptCall, Copying, IsAccess
<1> QED
  BY <1>2, <1>5, <1>6, Silent

\* An exit touches no register and no access.
LEMMA RefineExit ==
    ASSUME Good, Good', NEW t \in Threads, Unmap(t) \/ Free(t) PROVE UNCHANGED Atomic!vars
<1>1. /\ pc[t] \in {"unmap", "free"} /\ req[t].op = "exit"
      /\ UNCHANGED <<regs, req, unit, i, out>>
  BY DEF Unmap, Free, Good, MmapInv, CallInv, heap
<1>2. \A u \in Threads \ {t} : pc[u] \in {"idle", "done"}
  BY <1>1, OnlyRunner DEF Running, Alone, Good
<1>3. /\ pc'[t] \in {"done", "free", "fault"}
      /\ \A u \in Threads \ {t} : pc'[u] = pc[u] /\ ret'[u] = ret[u]
  BY DEF Unmap, Free, Goto, Finish, Good, MmapInv, TypeOK
<1>4. \A u \in Threads \ {t} : KeptCopy(u) /\ KeptCall(u)
  BY <1>1, <1>2, <1>3 DEF KeptCopy, KeptCall, Copying, IsAccess
<1>5. KeptCopy(t) /\ KeptCall(t)
  BY <1>1, <1>3 DEF KeptCopy, KeptCall, Copying, IsAccess
<1> QED
  BY <1>1, <1>4, <1>5, Silent

\* The way to a unit touches no register and decides no access.
LEMMA RefineTestLoad ==
    ASSUME Good, Good', NEW t \in Threads, Test(t) \/ Load(t) PROVE UNCHANGED Atomic!vars
<1>1. pc[t] \in {"test", "load"} /\ UNCHANGED <<region, regs, req, i, out, ret>>
  BY DEF Test, Load, heap, locals
<1>2. /\ pc'[t] \in {"map", "load", "enter"}
      /\ \A u \in Threads \ {t} : pc'[u] = pc[u] /\ unit'[u] = unit[u]
  BY DEF Test, Load, Goto, locals, Good, MmapInv, TypeOK
<1>3. \A u \in Threads \ {t} : KeptCopy(u) /\ KeptCall(u)
  BY <1>1, <1>2, Bystander
<1>4. KeptCopy(t) /\ KeptCall(t)
  BY <1>1, <1>2 DEF KeptCopy, KeptCall, Copying, IsAccess
<1> QED
  BY <1>1, <1>3, <1>4, Silent

\* A refused call is refused by the specification too.
LEMMA RefineEnter ==
    ASSUME Good, Good', NEW t \in Threads, Enter(t)
    PROVE  Atomic!Refuse(t) \/ UNCHANGED Atomic!vars
<1>1. /\ pc[t] = "enter" /\ IsAccess(t) /\ ret[t] = 0
      /\ UNCHANGED <<region, regs, req, unit, i, out>>
  BY DEF Enter, Good, MmapInv, CallInv, PlaceInv, heap
<1>2. /\ \/ pc'[t] \in {"fault", "lock"} /\ ret'[t] = ret[t]
         \/ pc'[t] = "done" /\ ret'[t] = -1 /\ (req[t].off > Size \/ req[t].null)
      /\ \A u \in Threads \ {t} : pc'[u] = pc[u] /\ ret'[u] = ret[u]
  BY DEF Enter, Goto, Finish, Good, MmapInv, TypeOK
<1>3. \A u \in Threads \ {t} : KeptCopy(u) /\ KeptCall(u)
  BY <1>1, <1>2, Bystander
<1>4. KeptCopy(t)
  BY <1>1, <1>2 DEF KeptCopy, Copying
<1>5. CASE pc'[t] \in {"fault", "lock"} /\ ret'[t] = ret[t]
  <2>1. KeptCall(t)
    BY <1>1, <1>5 DEF KeptCall, IsAccess
  <2> QED
    BY <1>1, <1>3, <1>4, <2>1, Silent
<1>6. CASE pc'[t] = "done" /\ ret'[t] = -1 /\ (req[t].off > Size \/ req[t].null)
  <2>1. AtomicRegs' = AtomicRegs /\ AtomicOut' = AtomicOut
    BY <1>1, <1>3, <1>4, RegsKept, OutAt, SameOut
  <2>2. AtomicStage[t] = "called" /\ AtomicCall[t] = req[t] /\ AtomicCall'[t] = req[t]
    BY <1>1 DEF AtomicStage, AtomicCall, IsAccess
  <2>3. AtomicStage'[t] = "performed" /\ AtomicRet'[t] = -1
    BY <1>1, <1>6 DEF AtomicStage, AtomicRet, IsAccess
  <2>4. \A u \in Threads \ {t} : /\ AtomicStage'[u] = AtomicStage[u] /\ AtomicCall'[u] = AtomicCall[u]
                                 /\ AtomicRet'[u] = AtomicRet[u]
    BY <1>3, CallAt
  <2>5. AtomicStage' = [AtomicStage EXCEPT ![t] = "performed"]
    BY <2>3, <2>4, OneChanged, AtomicFunctions, AtomicFunctionsNext
  <2>6. AtomicRet' = [AtomicRet EXCEPT ![t] = -1]
    BY <2>3, <2>4, OneChanged, AtomicFunctions, AtomicFunctionsNext
  <2>7. AtomicCall' = AtomicCall
    <3>1. [u \in Threads |-> AtomicCall'[u]] = [u \in Threads |-> AtomicCall[u]]
      BY <2>2, <2>4
    <3> QED
      BY <3>1, AtomicFunctions, AtomicFunctionsNext
  <2> QED
    BY <1>6, <2>1, <2>2, <2>5, <2>6, <2>7 DEF Atomic!Refuse, Atomic!Rejected
<1> QED
  BY <1>2, <1>5, <1>6

\* The registers that an access touches are nobody else's while it has the mutex.
LEMMA NoOtherWriter ==
    ASSUME Good, NEW t \in Threads, NEW u \in Threads, NEW a, u # t,
           pc[t] \in {"lock", "copy", "unlock"}, pc[t] = "lock" => holder[unit[t]] = NoThread
    PROVE  ~WriterAt(u, req[t].region, a)
<1> SUFFICES ASSUME WriterAt(u, req[t].region, a) PROVE FALSE
  OBVIOUS
<1>1. Copying(u) /\ req[u].region = req[t].region
  BY UsesAllocated DEF WriterAt, Writing, Copying, Good
<1>2. unit[u] = unit[t]
  BY <1>1 DEF Good, OneUnitInv, Uses, Copying
<1>3. holder[unit[u]] = u
  BY <1>1 DEF Good, MmapInv, MutexInv
<1>4. CASE pc[t] = "lock"
  BY <1>2, <1>3, <1>4, UnitAssumption
<1>5. CASE pc[t] # "lock"
  BY <1>1, <1>2, <1>5, OneCopier DEF Good, Copying
<1> QED
  BY <1>4, <1>5

\* The mutex makes the access happen.
LEMMA RefineLock ==
    ASSUME Good, Good', NEW t \in Threads, Lock(t)
    PROVE  Atomic!Read(t) \/ Atomic!Write(t)
<1>1. /\ pc[t] = "lock" /\ IsAccess(t) /\ ret[t] = 0 /\ i[t] = 0
      /\ UNCHANGED <<region, regs, req, unit, i, out, ret>>
  BY DEF Lock, Good, MmapInv, CallInv, PlaceInv, Copying, heap, locals
<1> DEFINE r == req[t]
<1>g. PICK g \in Regions : g = req[t].region
  BY <1>1, UsesAllocated DEF Good
<1>2. /\ Allocated(unit[t]) /\ region[unit[t]] = g /\ g \in Regions
      /\ r.off <= Size /\ ~r.null /\ r.off + r.len <= Size
  BY <1>1, <1>g, UsesAllocated DEF Good
<1>3. r.off \in Nat /\ r.len \in Nat /\ Size \in Nat /\ MaxLen \in Nat /\ r.len <= MaxLen
  BY <1>1, CallFacts, RegionAssumption DEF Good
<1>4. /\ pc'[t] \in {"unlock", "copy"} /\ holder[unit[t]] = NoThread
      /\ \A u \in Threads \ {t} : pc'[u] = pc[u]
  BY <1>2 DEF Lock, Goto, Good, MmapInv, TypeOK
<1>5. \A u \in Threads \ {t} : KeptCopy(u) /\ KeptCall(u)
  BY <1>1, <1>4, Bystander
<1>6. \A u \in Threads, a \in Words : ~WriterAt(u, g, a)
  <2>1. \A u \in Threads, a \in Words : u # t => ~WriterAt(u, g, a)
    BY <1>1, <1>4, <1>g, NoOtherWriter
  <2>2. ~Writing(t)
    BY <1>1 DEF Writing
  <2> QED
    BY <2>1, <2>2 DEF WriterAt
<1>7. \A a \in Words : AtomicRegs[g][a] = regs[g][a]
  BY <1>2, <1>6, RegsOf DEF RegsFacts
<1>8. /\ AtomicStage[t] = "called" /\ AtomicStage'[t] = "performed"
      /\ AtomicCall[t] = r /\ AtomicCall'[t] = r /\ AtomicRet'[t] = AtomicRet[t]
  BY <1>1, <1>4 DEF AtomicStage, AtomicCall, AtomicRet, IsAccess
<1>9. /\ AtomicStage' = [AtomicStage EXCEPT ![t] = "performed"]
      /\ AtomicCall' = AtomicCall /\ AtomicRet' = AtomicRet
  <2>1. \A u \in Threads \ {t} : /\ AtomicStage'[u] = AtomicStage[u] /\ AtomicCall'[u] = AtomicCall[u]
                                 /\ AtomicRet'[u] = AtomicRet[u]
    BY <1>5, CallAt
  <2>2. AtomicStage' = [AtomicStage EXCEPT ![t] = "performed"]
    BY <1>8, <2>1, OneChanged, AtomicFunctions, AtomicFunctionsNext
  <2>3. [u \in Threads |-> AtomicCall'[u]] = [u \in Threads |-> AtomicCall[u]]
    BY <1>8, <2>1
  <2>4. [u \in Threads |-> AtomicRet'[u]] = [u \in Threads |-> AtomicRet[u]]
    BY <1>8, <2>1
  <2> QED
    BY <2>2, <2>3, <2>4, AtomicFunctions, AtomicFunctionsNext
<1>10. \A u \in Threads \ {t} : AtomicOut'[u] = AtomicOut[u]
  BY <1>1, <1>5, OutAt
<1>11. ~Atomic!Rejected(r)
  BY <1>2, <1>3, RegionAssumption DEF Atomic!Rejected
<1>12. CASE r.op = "read"
  <2>1. AtomicRegs' = AtomicRegs
    <3>1. \A u \in Threads, h \in Regions, a \in Words : WriterAt(u, h, a)' <=> WriterAt(u, h, a)
      <4>1. \A u \in Threads : Writing(u)' <=> Writing(u)
        BY <1>1, <1>4, <1>12 DEF Writing
      <4> QED
        BY <1>1, <4>1 DEF WriterAt, Block
    <3> SUFFICES ASSUME NEW h \in Regions, NEW a \in Words
                 PROVE  AtomicRegs'[h][a] = AtomicRegs[h][a]
      BY SameRegs
    <3> QED
      BY <1>1, <3>1, SameRegister
  <2>2. AtomicOut'[t] = Atomic!ReadBlock(r)
    <3>1. AtomicOut'[t] = [k \in Places |->
            IF Reading(t)' /\ k >= i'[t] /\ k < req'[t].len
            THEN regs'[region'[unit'[t]]][req'[t].off + k] ELSE out'[t][k]]
      BY DEF AtomicOut
    <3>2. Reading(t)' /\ \A k \in Places : k >= 0
      BY <1>1, <1>4, <1>12 DEF Reading, Places
    <3>3. \A k \in Places : out[t][k] = Blank
      BY <1>1, <3>2 DEF Good, MmapInv, PlaceInv
    <3>4. \A k \in Places : k < r.len => r.off + k \in Words
      BY <1>2, <1>3 DEF Words, Places
    <3>5. \A k \in Places : AtomicOut'[t][k] = IF k < r.len THEN AtomicRegs[g][r.off + k] ELSE Blank
      BY <1>1, <1>2, <1>7, <3>1, <3>2, <3>3, <3>4
    <3>6. AtomicOut'[t] = [k \in Places |-> AtomicOut'[t][k]]
      BY <3>1
    <3>7. [k \in Places |-> AtomicOut'[t][k]]
            = [k \in Places |-> IF k < r.len THEN AtomicRegs[g][r.off + k] ELSE Blank]
      BY <3>5
    <3> QED
      BY <1>g, <3>6, <3>7 DEF Atomic!ReadBlock, Atomic!Places, Places
  <2>3. AtomicOut' = [AtomicOut EXCEPT ![t] = Atomic!ReadBlock(r)]
    BY <1>10, <2>2, OneChanged, AtomicFunctions, AtomicFunctionsNext
  <2> QED
    BY <1>8, <1>9, <1>11, <1>12, <1>g, <2>1, <2>3 DEF Atomic!Read
<1>13. CASE r.op = "write"
  <2>1. AtomicOut'[t] = AtomicOut[t]
    <3>1. AtomicOut[t] = [k \in Places |-> out[t][k]] /\ AtomicOut'[t] = [k \in Places |-> out'[t][k]]
      BY <1>1, <1>13 DEF AtomicOut, Reading
    <3> QED
      BY <1>1, <3>1
  <2>2. AtomicOut' = AtomicOut
    BY <1>10, <2>1, SameOut
  <2>3. Writing(t)' /\ Block(t)' = r.off .. r.off + r.len - 1
    BY <1>1, <1>4, <1>13 DEF Writing, Block
  <2>4. \A u \in Threads \ {t}, h \in Regions, a \in Words : WriterAt(u, h, a)' <=> WriterAt(u, h, a)
    BY <1>1, <1>4 DEF WriterAt, Block, Writing
  <2>5. \A a \in Words : AtomicRegs'[g][a] = IF a \in r.off .. r.off + r.len - 1
                                             THEN r.data[a - r.off] ELSE AtomicRegs[g][a]
    <3> SUFFICES ASSUME NEW a \in Words
                 PROVE  AtomicRegs'[g][a] = IF a \in r.off .. r.off + r.len - 1
                                            THEN r.data[a - r.off] ELSE AtomicRegs[g][a]
      OBVIOUS
    <3>1. CASE a \in r.off .. r.off + r.len - 1
      <4>1. WriterAt(t, g, a)'
        BY <1>1, <1>2, <2>3, <3>1 DEF WriterAt
      <4>2. AtomicRegs'[g][a] = req'[t].data[a - req'[t].off]
        BY <1>2, <4>1, RegsOfNext DEF RegsFacts
      <4> QED
        BY <1>1, <3>1, <4>2
    <3>2. CASE a \notin r.off .. r.off + r.len - 1
      <4>1. \A u \in Threads : ~WriterAt(u, g, a)'
        BY <1>2, <1>6, <2>3, <2>4, <3>2 DEF WriterAt
      <4>2. AtomicRegs'[g][a] = regs'[g][a]
        BY <1>2, <4>1, RegsOfNext DEF RegsFacts
      <4> QED
        BY <1>1, <1>7, <3>2, <4>2
    <3> QED
      BY <3>1, <3>2
  <2>6. AtomicRegs'[g] = Atomic!WriteBlock(r)
    <3>1. AtomicRegs'[g] = [a \in Words |-> AtomicRegs'[g][a]]
      BY <1>2 DEF AtomicRegs
    <3>2. [a \in Words |-> AtomicRegs'[g][a]]
            = [a \in Words |-> IF a \in r.off .. r.off + r.len - 1
                               THEN r.data[a - r.off] ELSE AtomicRegs[g][a]]
      BY <2>5
    <3> QED
      BY <1>g, <3>1, <3>2 DEF Atomic!WriteBlock, Atomic!Words, Words
  <2>7. \A h \in Regions \ {g} : AtomicRegs'[h] = AtomicRegs[h]
    <3> SUFFICES ASSUME NEW h \in Regions, h # g PROVE AtomicRegs'[h] = AtomicRegs[h]
      OBVIOUS
    <3>1. \A u \in Threads, a \in Words : WriterAt(u, h, a)' <=> WriterAt(u, h, a)
      BY <1>1, <1>2, <2>4 DEF WriterAt
    <3>2. ASSUME NEW a \in Words PROVE AtomicRegs'[h][a] = AtomicRegs[h][a]
      BY <1>1, <3>1, SameRegister
    <3>3. /\ AtomicRegs[h] = [a \in Words |-> AtomicRegs[h][a]]
          /\ AtomicRegs'[h] = [a \in Words |-> AtomicRegs'[h][a]]
      BY DEF AtomicRegs
    <3>4. [a \in Words |-> AtomicRegs'[h][a]] = [a \in Words |-> AtomicRegs[h][a]]
      BY <3>2
    <3> QED
      BY <3>3, <3>4
  <2>8. AtomicRegs' = [AtomicRegs EXCEPT ![g] = Atomic!WriteBlock(r)]
    BY <1>2, <2>6, <2>7, OneChanged, AtomicFunctions, AtomicFunctionsNext
  <2> QED
    BY <1>8, <1>9, <1>11, <1>13, <1>g, <2>2, <2>8 DEF Atomic!Write
<1> QED
  BY <1>1, <1>12, <1>13 DEF IsAccess

\* A word of a copy is not seen: the block has been read or written already.
LEMMA RefineCopy ==
    ASSUME Good, Good', NEW t \in Threads, Copy(t) PROVE UNCHANGED Atomic!vars
<1>1. /\ pc[t] = "copy" /\ UNCHANGED <<region, req, unit, ret>> /\ TypeOK
  BY DEF Copy, heap, Good, MmapInv
<1>2. CopyFacts(t)
  BY CopyLemma DEF Good
<1>3. PICK g \in Regions : g = req[t].region
  BY <1>2 DEF CopyFacts
<1>4. \A u \in Threads \ {t} : pc'[u] = pc[u] /\ i'[u] = i[u] /\ KeptCopy(u) /\ KeptCall(u)
  BY <1>1, <1>2, Bystander DEF CopyFacts
<1>5. KeptCall(t) /\ pc'[t] \in {"copy", "unlock"} /\ Copying(t)
  BY <1>1, <1>2 DEF CopyFacts, KeptCall, IsAccess, Copying
<1>6. AtomicStage' = AtomicStage /\ AtomicCall' = AtomicCall /\ AtomicRet' = AtomicRet
  BY <1>4, <1>5, SameCalls
<1>7. \A u \in Threads, h \in Regions, a \in Words : WriterAt(u, h, a)' <=> WriterAt(u, h, a)
  <2>1. \A u \in Threads : Writing(u)' <=> Writing(u)
    BY <1>1, <1>4, <1>5 DEF Writing
  <2> QED
    BY <1>1, <2>1 DEF WriterAt, Block
<1>8. \A u \in Threads \ {t} : Copying(u) => region[unit[u]] \in Regions \ {g}
  BY <1>3, <1>5, OneCopierOfRegion, UsesAllocated DEF Good, Copying
<1>9. CASE req[t].op = "read"
  <2>1. /\ regs' = regs
        /\ out' = [out EXCEPT ![t][i[t]] = regs[g][req[t].off + i[t]]]
    BY <1>2, <1>3, <1>9 DEF CopyFacts
  <2>2. AtomicRegs' = AtomicRegs
    BY <1>1, <1>7, <2>1, SameRegister, SameRegs
  <2>3. \A u \in Threads \ {t} : AtomicOut'[u] = AtomicOut[u]
    BY <1>1, <1>4, <2>1, OutAt DEF TypeOK
  <2>4. AtomicOut'[t] = AtomicOut[t]
    <3>1. AtomicOut[t] = [k \in Places |->
            IF Reading(t) /\ k >= i[t] /\ k < req[t].len
            THEN regs[region[unit[t]]][req[t].off + k] ELSE out[t][k]]
      BY DEF AtomicOut
    <3>2. AtomicOut'[t] = [k \in Places |->
            IF Reading(t)' /\ k >= i'[t] /\ k < req'[t].len
            THEN regs'[region'[unit'[t]]][req'[t].off + k] ELSE out'[t][k]]
      BY DEF AtomicOut
    <3>3. Reading(t) /\ Reading(t)' /\ region[unit[t]] = g
      BY <1>1, <1>2, <1>3, <1>5, <1>9 DEF Reading, CopyFacts
    <3>4. /\ \A k \in Places : k # i[t] => out'[t][k] = out[t][k]
          /\ out'[t][i[t]] = regs[g][req[t].off + i[t]]
      BY <1>1, <1>2, <2>1 DEF TypeOK, CopyFacts
    <3>5. \A k \in Places : AtomicOut'[t][k] = AtomicOut[t][k]
      <4> SUFFICES ASSUME NEW k \in Places PROVE AtomicOut'[t][k] = AtomicOut[t][k]
        OBVIOUS
      <4>1. k \in Int /\ i[t] \in Nat /\ i'[t] = i[t] + 1 /\ i[t] < req[t].len
        BY <1>2 DEF CopyFacts, Places
      <4>2. /\ AtomicOut[t][k] = IF k >= i[t] /\ k < req[t].len
                                 THEN regs[g][req[t].off + k] ELSE out[t][k]
            /\ AtomicOut'[t][k] = IF k >= i[t] + 1 /\ k < req[t].len
                                  THEN regs[g][req[t].off + k] ELSE out'[t][k]
        BY <1>1, <2>1, <3>1, <3>2, <3>3, <4>1
      <4>3. CASE k = i[t]
        BY <3>4, <4>1, <4>2, <4>3
      <4>4. CASE k # i[t]
        <5>1. k >= i[t] <=> k >= i[t] + 1
          BY <4>1, <4>4
        <5> QED
          BY <3>4, <4>2, <4>4, <5>1
      <4> QED
        BY <4>3, <4>4
    <3>6. /\ AtomicOut[t] = [k \in Places |-> AtomicOut[t][k]]
          /\ AtomicOut'[t] = [k \in Places |-> AtomicOut'[t][k]]
      BY <3>1, <3>2
    <3>7. [k \in Places |-> AtomicOut'[t][k]] = [k \in Places |-> AtomicOut[t][k]]
      BY <3>5
    <3> QED
      BY <3>6, <3>7
  <2> QED
    BY <1>6, <2>2, <2>3, <2>4, SameOut DEF Atomic!vars
<1>10. CASE req[t].op = "write"
  <2>1. /\ out' = out
        /\ regs' = [regs EXCEPT ![g][req[t].off + i[t]] = req[t].data[i[t]]]
    BY <1>2, <1>3, <1>10 DEF CopyFacts
  <2>2. \A h \in Regions, a \in Words :
            h # g \/ a # req[t].off + i[t] => regs'[h][a] = regs[h][a]
    BY <1>1, <1>2, <2>1 DEF TypeOK, CopyFacts
  <2>3. WriterAt(t, g, req[t].off + i[t]) /\ req[t].off + i[t] \in Words
    <3>1. Writing(t) /\ region[unit[t]] = g
      BY <1>1, <1>2, <1>3, <1>10 DEF Writing, CopyFacts
    <3>2. req[t].off + i[t] \in Block(t)
      BY <1>2 DEF Block, CopyFacts
    <3> QED
      BY <1>2, <3>1, <3>2 DEF WriterAt, CopyFacts
  <2>4. \A h \in Regions, a \in Words : AtomicRegs'[h][a] = AtomicRegs[h][a]
    <3> SUFFICES ASSUME NEW h \in Regions, NEW a \in Words
                 PROVE  AtomicRegs'[h][a] = AtomicRegs[h][a]
      OBVIOUS
    <3>1. CASE h # g \/ a # req[t].off + i[t]
      BY <1>1, <1>7, <2>2, <3>1, SameRegister
    <3>2. CASE h = g /\ a = req[t].off + i[t]
      <4>1. WriterAt(t, h, a)
        BY <2>3, <3>2
      <4>2. WriterAt(t, h, a)'
        BY <1>7, <4>1
      <4>3. AtomicRegs[h][a] = req[t].data[a - req[t].off]
        BY <4>1, RegsOf DEF RegsFacts
      <4>4. AtomicRegs'[h][a] = req'[t].data[a - req'[t].off]
        BY <4>2, RegsOfNext DEF RegsFacts
      <4> QED
        BY <1>1, <4>3, <4>4
    <3> QED
      BY <3>1, <3>2
  <2>5. \A u \in Threads \ {t} : AtomicOut'[u] = AtomicOut[u]
    <3> SUFFICES ASSUME NEW u \in Threads, u # t PROVE AtomicOut'[u] = AtomicOut[u]
      OBVIOUS
    <3>1. Reading(u) => regs'[region[unit[u]]] = regs[region[unit[u]]]
      BY <1>1, <1>2, <1>8, <2>1 DEF Reading, Copying, TypeOK, CopyFacts
    <3> QED
      BY <1>4, <2>1, <3>1, OutAt
  <2>6. AtomicOut'[t] = AtomicOut[t]
    <3>1. AtomicOut[t] = [k \in Places |-> out[t][k]] /\ AtomicOut'[t] = [k \in Places |-> out'[t][k]]
      BY <1>1, <1>10 DEF AtomicOut, Reading
    <3> QED
      BY <2>1, <3>1
  <2> QED
    BY <1>6, <2>4, <2>5, <2>6, SameRegs, SameOut DEF Atomic!vars
<1> QED
  BY <1>2, <1>9, <1>10 DEF CopyFacts

\* When the mutex is given back the copy is what has been seen since it was taken.
LEMMA RefineUnlock ==
    ASSUME Good, Good', NEW t \in Threads, Unlock(t) PROVE UNCHANGED Atomic!vars
<1>1. /\ pc[t] = "unlock" /\ UNCHANGED <<region, regs, req, unit, i, out>>
      /\ TypeOK /\ IsAccess(t) /\ ret[t] = 0 /\ i[t] = req[t].len
  BY DEF Unlock, heap, Good, MmapInv, CallInv, PlaceInv
<1>2. /\ Allocated(unit[t]) /\ region[unit[t]] = req[t].region /\ req[t].region \in Regions
      /\ req[t].off \in Nat /\ req[t].len \in Nat /\ req[t].len <= MaxLen /\ MaxLen \in Nat
  BY <1>1, UsesAllocated, CallFacts, RegionAssumption DEF Good
<1>3. PICK g \in Regions : g = req[t].region
  BY <1>2
<1>4. /\ pc'[t] = "done" /\ ret'[t] = 0
      /\ \A u \in Threads \ {t} : pc'[u] = pc[u] /\ ret'[u] = ret[u]
  BY <1>1, <1>2 DEF Unlock, Goto, Finish, TypeOK
<1>5. \A u \in Threads \ {t} : KeptCopy(u) /\ KeptCall(u)
  BY <1>1, <1>4, Bystander
<1>6. KeptCall(t)
  BY <1>1, <1>4 DEF KeptCall, IsAccess
<1>7. \A h \in Regions, a \in Words : AtomicRegs'[h][a] = AtomicRegs[h][a]
  <2> SUFFICES ASSUME NEW h \in Regions, NEW a \in Words
               PROVE  AtomicRegs'[h][a] = AtomicRegs[h][a]
    OBVIOUS
  <2>1. \A u \in Threads \ {t} : WriterAt(u, h, a)' <=> WriterAt(u, h, a)
    BY <1>1, <1>4 DEF WriterAt, Writing, Block
  <2>2. ~WriterAt(t, h, a)'
    BY <1>4 DEF WriterAt, Writing
  <2>3. CASE ~WriterAt(t, h, a)
    BY <1>1, <2>1, <2>2, <2>3, SameRegister
  <2>4. CASE WriterAt(t, h, a)
    <3>1. h = g /\ Writing(t) /\ a \in req[t].off .. req[t].off + req[t].len - 1
      BY <1>2, <1>3, <2>4 DEF WriterAt, Block
    <3>2. \A u \in Threads : ~WriterAt(u, h, a)'
      <4>1. \A u \in Threads \ {t} : ~WriterAt(u, h, a)
        BY <1>1, <1>3, <3>1, NoOtherWriter
      <4> QED
        BY <2>1, <2>2, <4>1
    <3>3. AtomicRegs'[h][a] = regs[h][a]
      BY <1>1, <3>2, RegsOfNext DEF RegsFacts
    <3>4. AtomicRegs[h][a] = req[t].data[a - req[t].off]
      BY <2>4, RegsOf DEF RegsFacts
    <3>5. /\ a - req[t].off \in Places /\ a - req[t].off < i[t]
          /\ req[t].off + (a - req[t].off) = a
      BY <1>1, <1>2, <3>1 DEF Places
    <3>6. regs[req[t].region][req[t].off + (a - req[t].off)] = req[t].data[a - req[t].off]
      BY <3>1, <3>5 DEF Good, OneUnitInv
    <3> QED
      BY <1>3, <3>1, <3>3, <3>4, <3>5, <3>6
  <2> QED
    BY <2>3, <2>4
<1>8. \A u \in Threads \ {t} : AtomicOut'[u] = AtomicOut[u]
  BY <1>1, <1>5, OutAt
<1>9. AtomicOut'[t] = AtomicOut[t]
  <2>1. AtomicOut'[t] = [k \in Places |-> out[t][k]]
    BY <1>1, <1>4 DEF AtomicOut, Reading
  <2>2. AtomicOut[t] = [k \in Places |->
          IF Reading(t) /\ k >= i[t] /\ k < req[t].len
          THEN regs[region[unit[t]]][req[t].off + k] ELSE out[t][k]]
    BY DEF AtomicOut
  <2>3. \A k \in Places : ~(k >= i[t] /\ k < req[t].len)
    BY <1>1, <1>2 DEF Places
  <2> QED
    BY <2>1, <2>2, <2>3
<1> QED
  BY <1>5, <1>6, <1>7, <1>8, <1>9, SameRegs, SameOut, SameCalls DEF Atomic!vars

\* The first states of the mappings are first states of the registers.
LEMMA RefineInit == Init => Atomic!Init
<1> SUFFICES ASSUME Init PROVE Atomic!Init
  OBVIOUS
<1>1. /\ pc = [t \in Threads |-> "idle"] /\ req = [t \in Threads |-> NoRequest]
      /\ out = [t \in Threads |-> NoBlock] /\ ret = [t \in Threads |-> 0] /\ regs = InitRegs
  BY DEF Init
<1>2. \A t \in Threads : ~Writing(t) /\ ~Reading(t) /\ ~IsAccess(t)
  BY <1>1 DEF Writing, Reading, IsAccess, NoRequest
<1>3. AtomicRegs = InitRegs
  <2>1. AtomicRegs = [g \in Regions |-> [a \in Words |-> regs[g][a]]]
    BY <1>2 DEF AtomicRegs
  <2> QED
    BY <1>1, <2>1, RegionAssumption
<1>4. Atomic!NoBlock = NoBlock /\ Atomic!NoCall = NoRequest
  BY DEF Atomic!NoBlock, NoBlock, Atomic!Places, Places, Atomic!NoCall, NoRequest
<1>5. AtomicOut = [t \in Threads |-> NoBlock]
  <2>1. AtomicOut = [t \in Threads |-> [k \in Places |-> out[t][k]]]
    BY <1>2 DEF AtomicOut
  <2>2. \A t \in Threads : [k \in Places |-> out[t][k]] = NoBlock
    BY <1>1 DEF NoBlock
  <2> QED
    BY <2>1, <2>2
<1>6. /\ AtomicStage = [t \in Threads |-> "idle"] /\ AtomicCall = [t \in Threads |-> NoRequest]
      /\ AtomicRet = [t \in Threads |-> 0]
  BY <1>2 DEF AtomicStage, AtomicCall, AtomicRet
<1> QED
  BY <1>3, <1>4, <1>5, <1>6 DEF Atomic!Init

\* Every step of the mappings is one of the abstract registers or a stutter.
LEMMA RefineNext == Good /\ Good' /\ [Next]_vars => [Atomic!Next]_(Atomic!vars)
<1> SUFFICES ASSUME Good, Good', [Next]_vars PROVE [Atomic!Next]_(Atomic!vars)
  OBVIOUS
<1>1. CASE UNCHANGED vars
  <2>1. UNCHANGED <<region, regs, pc, req, unit, i, out, ret>>
    BY <1>1 DEF vars, heap, locals
  <2>2. \A u \in Threads : KeptCopy(u) /\ KeptCall(u)
    BY <2>1, Bystander
  <2> QED
    BY <2>1, <2>2, Silent
<1>2. CASE Next
  <2>1. PICK t \in Threads : Call(t) \/ Step(t) \/ Consume(t)
    BY <1>2 DEF Next
  <2>2. \/ Atomic!Invoke(t) \/ Atomic!Refuse(t) \/ Atomic!Read(t) \/ Atomic!Write(t)
        \/ Atomic!Return(t)
        \/ UNCHANGED Atomic!vars
    BY <2>1, RefineCall, RefineConsume, RefineMap, RefineExit, RefineTestLoad, RefineEnter,
       RefineLock, RefineCopy, RefineUnlock DEF Step
  <2> QED
    BY <2>2 DEF Atomic!Next
<1> QED
  BY <1>1, <1>2

\* Without a replaced unit both invariants always hold.
LEMMA GoodAlways == Spec /\ [](lost = {}) => []Good
<1>1. Init => OneUnitInv
  BY DEF Init, OneUnitInv, Uses, Writing
<1>2. MmapInv /\ OneUnitInv /\ [Next]_vars => OneUnitInv'
  BY OneUnitNext
<1>3. Spec => []OneUnitInv
  BY <1>1, <1>2, MmapInvariant, PTL DEF Spec
<1>4. MmapInv /\ OneUnitInv /\ lost = {} => Good
  BY DEF Good
<1> QED
  BY <1>3, <1>4, MmapInvariant, PTL

\* Every register access takes effect in one step, although the code copies word
\* by word, and a refused call touches nothing: as long as no two threads race to
\* map a region, for every number of threads and every length of a block.
THEOREM AccessesAtomic == Spec /\ [](lost = {}) => Implements
<1>1. Good /\ Good' /\ [Next]_vars => [Atomic!Next]_(Atomic!vars)
  BY RefineNext
<1> QED
  BY <1>1, RefineInit, GoodAlways, PTL DEF Spec, Implements, Atomic!Spec

\* Every region is mapped, and nobody maps or unmaps one.
AllMapped ==
    /\ \A g \in Regions : ptr[g] # NoUnit
    /\ \A t \in Threads : pc[t] \notin {"map", "unmap", "free"}
    /\ lost = {}

\* Threads that share a library which one of them has initialised, and which none
\* leaves, need not fear the race: their accesses take effect in one step.
THEOREM InitialisedAtomic ==
    ASSUME \A p \in Programs : p.mapped /\ \A r \in p.calls : r.op # "exit"
    PROVE  Spec => Implements
<1>1. Init => AllMapped
  <2> SUFFICES ASSUME Init PROVE AllMapped
    OBVIOUS
  <2>1. OneEach \in [Regions -> Units]
    BY RegionAssumption DEF OneEach
  <2>2. ptr = OneEach
    BY DEF Init
  <2> QED
    BY <2>1, <2>2, UnitAssumption DEF Init, AllMapped
<1>2. MmapInv /\ AllMapped /\ [Next]_vars => AllMapped'
  <2> SUFFICES ASSUME MmapInv, AllMapped, [Next]_vars PROVE AllMapped'
    OBVIOUS
  <2>1. CASE UNCHANGED vars
    BY <2>1 DEF AllMapped, vars, heap
  <2>2. CASE Next
    <3>1. PICK t \in Threads : Call(t) \/ Step(t) \/ Consume(t)
      BY <2>2 DEF Next
    <3>2. ~Map(t) /\ ~Unmap(t) /\ ~Free(t)
      BY DEF AllMapped, Map, Unmap, Free
    <3>3. UNCHANGED <<ptr, lost>>
      BY <3>1, <3>2 DEF Step, Call, Consume, Test, Load, Enter, Lock, Copy, Unlock, heap
    <3>4. pc \in [Threads -> Pcs] /\ pc'[t] \notin {"map", "unmap", "free"}
                                  /\ \A u \in Threads \ {t} : pc'[u] = pc[u]
      <4>1. pc \in [Threads -> Pcs]
        BY DEF MmapInv, TypeOK
      <4>2. CASE Call(t)
        <5>1. PICK r \in prog.calls :
                /\ r.op = "init" => \A g \in Regions : ptr[g] = NoUnit
                /\ pc' = [pc EXCEPT ![t] = CASE r.op = "init" -> "map"
                                             [] r.op = "exit" -> "unmap"
                                             [] OTHER         -> "test"]
          BY <4>2 DEF Call, Goto
        <5>2. r.op # "init" /\ r.op # "exit"
          BY <5>1, RegionAssumption DEF AllMapped, MmapInv, TypeOK
        <5> QED
          BY <4>1, <5>1, <5>2
      <4>3. CASE Test(t)
        <5>1. req[t].region \in Regions
          BY <4>3, CallFacts DEF Test
        <5> QED
          BY <4>1, <4>3, <5>1 DEF Test, Goto, AllMapped
      <4>4. CASE Consume(t) \/ Load(t) \/ Enter(t) \/ Lock(t) \/ Copy(t) \/ Unlock(t)
        BY <4>1, <4>4 DEF Consume, Load, Enter, Lock, Copy, Unlock, Goto, Finish
      <4> QED
        BY <3>1, <3>2, <4>1, <4>2, <4>3, <4>4 DEF Step
    <3> QED
      BY <3>3, <3>4 DEF AllMapped
  <2> QED
    BY <2>1, <2>2
<1>3. AllMapped => lost = {}
  BY DEF AllMapped
<1> QED
  BY <1>1, <1>2, <1>3, MmapInvariant, AccessesAtomic, PTL DEF Spec
=============================================================================
