------------------------ MODULE OwnedChildrenProofs -------------------------
(***************************************************************************)
(* Proofs about the threads of a supervised session.  The owned children   *)
(* first, for any number of owner threads, process ids and orphans, and    *)
(* any moment at which a child exits.  Then the parts of SessionThreads    *)
(* through their instances: the prompt gate, for any number of workers;    *)
(* the attach socket, for any clients, output and scrollback; the keys,   *)
(* for any detach sequence and input; the approval chain, for any chain,   *)
(* callers and deadlines.                                                  *)
(***************************************************************************)
EXTENDS OwnedChildren, SessionThreads, FiniteSetTheorems, SequenceTheorems, TLAPS


\* A thread whose child is in the registry, and one whose child is its own to
\* wait for.
Registered == {"waiting", "waited", "gave_up"}
Waitable == {"spawned", "waiting"}
Holding == Registered \cup {"spawned"}

OwnerPlaces == {"idle", "spawned", "waiting", "waited", "gave_up", "echild", "done", "failed"}
PidOrNone == Pids \cup {NoPid}

ReaperPlaces == {"loop", "draining", "reaping", "wait_primary", "ended"}
ReaperRecords == [pc : ReaperPlaces, pid : PidOrNone]
ReaperOK ==
    /\ lock \in Owners \cup {Reaper, Nobody} /\ reaper \in ReaperRecords
    /\ (lock = Reaper) <=> (reaper.pc \in {"draining", "reaping"})

\* No owner has the sandboxed child for its own.
NotThePrimary == \A o \in Owners : owner[o].pc # "idle" => owner[o].pid \in Pids \ {Primary}

BaseInv == ChildrenConstants /\ TypeOK /\ NotThePrimary /\ PrimaryStatusKept

\* Between the fork and the insertion the thread has the lock.
SpawnedLocked == \A o \in Owners : owner[o].pc = "spawned" => lock = o
RegisteredOwned == \A o \in Owners : owner[o].pc \in Registered => owner[o].pid \in owned
WaitableExists == \A o \in Owners : owner[o].pc \in Waitable => proc[owner[o].pid] # "none"
PidsDistinct ==
    \A o1, o2 \in Owners :
        o1 # o2 /\ owner[o1].pc \in Holding /\ owner[o2].pc \in Holding
            => owner[o1].pid # owner[o2].pid
\* What the reaper is about to reap is nobody's.
ObservedFree ==
    reaper.pc = "reaping" =>
        reaper.pid \in Pids /\ (reaper.pid = Primary \/ reaper.pid \notin owned)

ChildrenInv ==
    /\ BaseInv /\ ~PidReuse
    /\ OwnersGetTheirStatus
    /\ SpawnedLocked /\ RegisteredOwned /\ WaitableExists /\ PidsDistinct /\ ObservedFree

-----------------------------------------------------------------------------
(* Types *)

\* What the type invariant says of the threads.
LEMMA OwnerFacts ==
  ASSUME TypeOK, NEW o \in Owners
  PROVE  owner[o].pc \in OwnerPlaces /\ owner[o].pid \in PidOrNone
  BY DEF TypeOK, OwnerPlaces, PidOrNone

\* Moving a thread to another place keeps the threads typed.
LEMMA OwnerMoves ==
  ASSUME TypeOK, NEW o \in Owners, NEW step \in OwnerPlaces,
         owner' = [owner EXCEPT ![o].pc = step]
  PROVE  /\ owner' \in [Owners -> [pc : OwnerPlaces, pid : PidOrNone]]
         /\ owner'[o].pc = step /\ owner'[o].pid = owner[o].pid
         /\ \A q \in Owners : q # o => owner'[q] = owner[q]
  BY DEF TypeOK, OwnerPlaces, PidOrNone

\* The steps of the kernel keep the base invariant.
LEMMA KernelBase ==
  ASSUME BaseInv, NEW p \in Pids, Orphan(p) \/ Exit(p)
  PROVE  BaseInv'
  <1>0. proc' \in [Pids -> {"none", "running", "zombie"}]
    BY DEF BaseInv, TypeOK, Orphan, Exit
  <1>1. orphans' \in 0 .. MaxOrphans
    BY DEF BaseInv, ChildrenConstants, TypeOK, Orphan, Exit
  <1>2. TypeOK'
    BY <1>0, <1>1 DEF BaseInv, TypeOK, Orphan, Exit
  <1>3. NotThePrimary' /\ PrimaryStatusKept'
    BY DEF BaseInv, ChildrenConstants, TypeOK, NotThePrimary, PrimaryStatusKept,
           Orphan, Exit, Free
  <1> QED BY <1>2, <1>3 DEF BaseInv, ChildrenConstants

\* Spawning gives a thread a child that is not the sandboxed one.
LEMMA SpawnBase ==
  ASSUME BaseInv, NEW o \in Owners, NEW p \in Pids, Spawn(o, p)
  PROVE  BaseInv'
  <1>1. proc' \in [Pids -> {"none", "running", "zombie"}] /\ p # Primary
    BY DEF BaseInv, TypeOK, Spawn, Free
  <1>2. owner' \in [Owners -> [pc : OwnerPlaces, pid : PidOrNone]]
    BY DEF BaseInv, TypeOK, Spawn, OwnerPlaces, PidOrNone
  <1>3. o # Reaper /\ lock # Reaper
    BY DEF BaseInv, ChildrenConstants, Spawn, Reaper, Nobody
  <1>4. TypeOK'
    BY <1>1, <1>2, <1>3 DEF BaseInv, TypeOK, Spawn, OwnerPlaces, PidOrNone
  <1>5. NotThePrimary'
    BY <1>1 DEF BaseInv, TypeOK, NotThePrimary, Spawn
  <1>6. PrimaryStatusKept'
    BY <1>1 DEF BaseInv, TypeOK, ChildrenConstants, PrimaryStatusKept, Spawn
  <1> QED BY <1>4, <1>5, <1>6 DEF BaseInv, ChildrenConstants

\* The later steps of a thread leave the sandboxed child alone.
LEMMA OwnerBase ==
  ASSUME BaseInv, NEW o \in Owners, OwnerStep(o) \/ GiveUp(o)
  PROVE  BaseInv'
  <1>1. PICK step \in OwnerPlaces : owner' = [owner EXCEPT ![o].pc = step]
    <2>1. owner[o].pc \in OwnerPlaces
      BY OwnerFacts DEF BaseInv
    <2> QED BY <2>1 DEF OwnerStep, RegisterPid, Wait, Unregister, GiveUp, OwnerPlaces
  <1>2. /\ owner' \in [Owners -> [pc : OwnerPlaces, pid : PidOrNone]]
        /\ owner'[o].pid = owner[o].pid
        /\ \A q \in Owners : q # o => owner'[q] = owner[q]
    BY <1>1, OwnerMoves DEF BaseInv
  <1>3. owner[o].pc # "idle" /\ owner[o].pid \in Pids \ {Primary}
    BY DEF BaseInv, NotThePrimary, OwnerStep, RegisterPid, Wait, Unregister, GiveUp
  <1>4. NotThePrimary'
    BY <1>2, <1>3 DEF BaseInv, NotThePrimary
  <1>5. proc' = proc \/ proc' = [proc EXCEPT ![owner[o].pid] = "none"]
    BY DEF OwnerStep, RegisterPid, Wait, Unregister, GiveUp
  <1>6. PrimaryStatusKept'
    BY <1>3, <1>5 DEF BaseInv, TypeOK, ChildrenConstants, PrimaryStatusKept, OwnerStep,
                      RegisterPid, Wait, Unregister, GiveUp
  <1>7. /\ owned' \subseteq Pids
        /\ lock' \in Owners \cup {Reaper, Nobody} /\ (lock' = Reaper <=> lock = Reaper)
    BY <1>3 DEF BaseInv, TypeOK, ChildrenConstants, Reaper, Nobody, OwnerStep,
                RegisterPid,
                Wait, Unregister, GiveUp
  <1>8. TypeOK'
    BY <1>2, <1>3, <1>5, <1>7 DEF BaseInv, TypeOK, OwnerStep, RegisterPid, Wait,
                                  Unregister,
                                  GiveUp, OwnerPlaces, PidOrNone
  <1> QED BY <1>4, <1>6, <1>8 DEF BaseInv, ChildrenConstants

\* The reaper collects the sandboxed child's status when it reaps it.
LEMMA ReaperBase == ASSUME BaseInv, ReaperStep PROVE BaseInv'
  <1>1. CASE BeginDrain \/ ObserveNothing \/ \E p \in Pids : Observe(p)
    <2>1. ReaperOK'
      BY <1>1 DEF BaseInv, TypeOK, ReaperOK, ReaperRecords, ReaperPlaces, PidOrNone,
                  Reaper,
                  Nobody, BeginDrain, ObserveNothing, Observe
    <2>3. TypeOK'
      BY <1>1, <2>1 DEF BaseInv, TypeOK, ReaperOK, ReaperRecords, ReaperPlaces,
                        PidOrNone,
                        BeginDrain, ObserveNothing, Observe
    <2>2. NotThePrimary' /\ PrimaryStatusKept'
      BY <1>1 DEF BaseInv, NotThePrimary, PrimaryStatusKept, BeginDrain,
                  ObserveNothing, Observe
    <2> QED BY <2>3, <2>2 DEF BaseInv, ChildrenConstants
  <1>2. CASE Reap
    <2>1. ReaperOK'
      BY <1>2 DEF BaseInv, TypeOK, ReaperOK, ReaperRecords, ReaperPlaces, PidOrNone,
                  Reaper,
                  Nobody, Reap
    <2>3. proc' \in [Pids -> {"none", "running", "zombie"}] /\ status' \in BOOLEAN
      BY <1>2 DEF BaseInv, TypeOK, Reap
    <2>4. TypeOK'
      BY <1>2, <2>1, <2>3 DEF BaseInv, TypeOK, ReaperOK, ReaperRecords, ReaperPlaces,
                              PidOrNone,
                              Reap
    <2>2. NotThePrimary' /\ PrimaryStatusKept'
      BY <1>2 DEF BaseInv, TypeOK, NotThePrimary, PrimaryStatusKept, ChildrenConstants,
                  Reap
    <2> QED BY <2>4, <2>2 DEF BaseInv, ChildrenConstants
  <1>3. CASE WaitPrimary
    <2>1. ReaperOK'
      BY <1>3 DEF BaseInv, TypeOK, ReaperOK, ReaperRecords, ReaperPlaces, PidOrNone,
                  Reaper,
                  Nobody, WaitPrimary
    <2>3. proc' \in [Pids -> {"none", "running", "zombie"}] /\ status' \in BOOLEAN
      BY <1>3 DEF BaseInv, TypeOK, WaitPrimary
    <2>4. TypeOK'
      BY <1>3, <2>1, <2>3 DEF BaseInv, TypeOK, ReaperOK, ReaperRecords, ReaperPlaces,
                              PidOrNone,
                              WaitPrimary
    <2>2. NotThePrimary' /\ PrimaryStatusKept'
      BY <1>3 DEF BaseInv, TypeOK, NotThePrimary, PrimaryStatusKept, ChildrenConstants,
                  WaitPrimary
    <2> QED BY <2>4, <2>2 DEF BaseInv, ChildrenConstants
  <1> QED BY <1>1, <1>2, <1>3 DEF ReaperStep

\* Every step keeps the base invariant, also where ids are given out again.
LEMMA StepKeepsBase == ASSUME BaseInv, [Next]_vars PROVE BaseInv'
  <1>1. CASE Next
    BY <1>1, KernelBase, SpawnBase, OwnerBase, ReaperBase DEF Next
  <1>2. CASE UNCHANGED vars
    BY <1>2 DEF BaseInv, ChildrenConstants, TypeOK, NotThePrimary, PrimaryStatusKept,
                vars
  <1> QED BY <1>1, <1>2
-----------------------------------------------------------------------------
(* Without PidReuse *)

Guarded ==
    /\ OwnersGetTheirStatus
    /\ SpawnedLocked /\ RegisteredOwned /\ WaitableExists /\ PidsDistinct /\ ObservedFree

\* Nothing of the kernel's doing takes a child away.
LEMMA KernelGuarded ==
  ASSUME ChildrenInv, NEW p \in Pids, Orphan(p) \/ Exit(p)
  PROVE  Guarded'
  <1>1. UNCHANGED <<owned, lock, owner, reaper>>
    BY DEF Orphan, Exit
  <1>2. ASSUME NEW o \in Owners, owner[o].pc \in Waitable PROVE proc'[owner[o].pid] # "none"
    <2>1. owner[o].pid \in Pids /\ proc[owner[o].pid] # "none"
      BY <1>2 DEF ChildrenInv, BaseInv, NotThePrimary, WaitableExists, Waitable
    <2> QED BY <2>1 DEF Orphan, Exit, ChildrenInv, BaseInv, TypeOK
  <1>3. WaitableExists'
    BY <1>1, <1>2 DEF WaitableExists
  <1>4. /\ OwnersGetTheirStatus' /\ SpawnedLocked' /\ RegisteredOwned'
        /\ PidsDistinct' /\ ObservedFree'
    BY <1>1 DEF ChildrenInv, OwnersGetTheirStatus, SpawnedLocked, RegisteredOwned,
                PidsDistinct,
                ObservedFree
  <1> QED BY <1>3, <1>4 DEF Guarded

\* The id of a new child is nobody else's: it is neither in use nor registered.
LEMMA SpawnGuarded ==
  ASSUME ChildrenInv, NEW o \in Owners, NEW p \in Pids, Spawn(o, p)
  PROVE  Guarded'
  <1>1. /\ proc[p] = "none" /\ p \notin owned /\ lock = Nobody /\ lock' = o
        /\ UNCHANGED <<owned, reaper>>
    BY DEF Spawn, Free, ChildrenInv
  <1>2. /\ owner'[o].pc = "spawned" /\ owner'[o].pid = p
        /\ \A q \in Owners : q # o => owner'[q] = owner[q]
    BY DEF Spawn, ChildrenInv, BaseInv, TypeOK
  <1>3. proc'[p] = "running" /\ \A r \in Pids : r # p => proc'[r] = proc[r]
    BY DEF Spawn, ChildrenInv, BaseInv, TypeOK
  <1>4. \A q \in Owners : owner[q].pc # "spawned"
    BY <1>1 DEF ChildrenInv, BaseInv, ChildrenConstants, SpawnedLocked
  <1>5. \A q \in Owners : owner[q].pc \in Holding => owner[q].pid # p
    BY <1>1, <1>4 DEF ChildrenInv, RegisteredOwned, Holding
  <1>6. OwnersGetTheirStatus' /\ SpawnedLocked'
    BY <1>1, <1>2, <1>4 DEF ChildrenInv, OwnersGetTheirStatus, SpawnedLocked
  <1>7. RegisteredOwned'
    BY <1>1, <1>2 DEF ChildrenInv, RegisteredOwned, Registered
  <1>8. WaitableExists'
    <2>1. \A q \in Owners : owner[q].pc # "idle" => owner[q].pid \in Pids
      BY DEF ChildrenInv, BaseInv, NotThePrimary
    <2> QED BY <1>2, <1>3, <2>1 DEF ChildrenInv, WaitableExists, Waitable
  <1>9. PidsDistinct'
    BY <1>2, <1>5 DEF ChildrenInv, PidsDistinct
  <1>10. ObservedFree'
    BY <1>1 DEF ChildrenInv, ObservedFree
  <1> QED BY <1>6, <1>7, <1>8, <1>9, <1>10 DEF Guarded

\* The insertion ends the critical section; the reaper was not in its own.
LEMMA RegisterGuarded == ASSUME ChildrenInv, NEW o \in Owners, RegisterPid(o) PROVE Guarded'
  <1>1. /\ owner[o].pc = "spawned" /\ lock = o /\ lock' = Nobody
        /\ owned' = owned \cup {owner[o].pid} /\ UNCHANGED <<proc, reaper>>
    BY DEF RegisterPid, ChildrenInv, SpawnedLocked
  <1>2. /\ owner'[o].pc = "waiting" /\ owner'[o].pid = owner[o].pid
        /\ \A q \in Owners : q # o => owner'[q] = owner[q]
    BY OwnerMoves DEF RegisterPid, ChildrenInv, BaseInv, OwnerPlaces
  <1>3. reaper.pc # "reaping"
    BY <1>1 DEF ChildrenInv, BaseInv, TypeOK, ChildrenConstants
  <1>4. \A q \in Owners : q # o => owner[q].pc # "spawned"
    BY <1>1 DEF ChildrenInv, SpawnedLocked
  <1>5. OwnersGetTheirStatus' /\ SpawnedLocked'
    BY <1>1, <1>2, <1>4 DEF ChildrenInv, OwnersGetTheirStatus, SpawnedLocked
  <1>6. RegisteredOwned'
    BY <1>1, <1>2 DEF ChildrenInv, RegisteredOwned
  <1>7. WaitableExists'
    BY <1>1, <1>2 DEF ChildrenInv, WaitableExists, Waitable
  <1>8. PidsDistinct'
    BY <1>1, <1>2 DEF ChildrenInv, PidsDistinct, Holding
  <1>9. ObservedFree'
    BY <1>1, <1>3 DEF ObservedFree
  <1> QED BY <1>5, <1>6, <1>7, <1>8, <1>9 DEF Guarded

\* A thread that waits finds its child, and takes nobody else's.
LEMMA WaitGuarded == ASSUME ChildrenInv, NEW o \in Owners, Wait(o) PROVE Guarded'
  <1>1. /\ owner[o].pc = "waiting" /\ UNCHANGED <<owned, lock, reaper>>
        /\ proc[owner[o].pid] # "none" /\ owner[o].pid \in Pids
    BY DEF Wait, ChildrenInv, WaitableExists, Waitable, BaseInv, NotThePrimary
  <1>2. owner' = [owner EXCEPT ![o].pc = "waited"] /\ proc' = [proc EXCEPT ![owner[o].pid] = "none"]
    BY <1>1 DEF Wait
  <1>3. /\ owner'[o].pc = "waited" /\ owner'[o].pid = owner[o].pid
        /\ \A q \in Owners : q # o => owner'[q] = owner[q]
    BY <1>2, OwnerMoves DEF ChildrenInv, BaseInv, OwnerPlaces
  <1>4. OwnersGetTheirStatus' /\ SpawnedLocked'
    BY <1>1, <1>3 DEF ChildrenInv, OwnersGetTheirStatus, SpawnedLocked
  <1>5. RegisteredOwned'
    BY <1>1, <1>3 DEF ChildrenInv, RegisteredOwned, Registered
  <1>6. ASSUME NEW q \in Owners, owner'[q].pc \in Waitable PROVE proc'[owner'[q].pid] # "none"
    <2>1. q # o /\ owner'[q] = owner[q]
      BY <1>3, <1>6 DEF Waitable
    <2>2. owner[q].pid # owner[o].pid /\ owner[q].pid \in Pids
      BY <1>1, <1>6, <2>1 DEF ChildrenInv, PidsDistinct, Holding, Registered, Waitable,
                              BaseInv,
                              NotThePrimary
    <2> QED BY <1>2, <1>6, <2>1, <2>2 DEF ChildrenInv, WaitableExists, BaseInv, TypeOK
  <1>7. WaitableExists'
    BY <1>6 DEF WaitableExists
  <1>8. PidsDistinct'
    BY <1>1, <1>3 DEF ChildrenInv, PidsDistinct, Holding, Registered
  <1>9. ObservedFree'
    BY <1>1 DEF ChildrenInv, ObservedFree
  <1> QED BY <1>4, <1>5, <1>7, <1>8, <1>9 DEF Guarded

\* A thread that gives up keeps its child registered.
LEMMA GiveUpGuarded == ASSUME ChildrenInv, NEW o \in Owners, GiveUp(o) PROVE Guarded'
  <1>1. owner[o].pc = "waiting" /\ UNCHANGED <<proc, owned, lock, reaper>>
    BY DEF GiveUp
  <1>2. /\ owner'[o].pc = "gave_up" /\ owner'[o].pid = owner[o].pid
        /\ \A q \in Owners : q # o => owner'[q] = owner[q]
    BY OwnerMoves DEF GiveUp, ChildrenInv, BaseInv, OwnerPlaces
  <1>3. OwnersGetTheirStatus' /\ SpawnedLocked' /\ RegisteredOwned'
    BY <1>1, <1>2 DEF ChildrenInv, OwnersGetTheirStatus, SpawnedLocked,
                      RegisteredOwned, Registered
  <1>4. WaitableExists' /\ PidsDistinct' /\ ObservedFree'
    BY <1>1, <1>2 DEF ChildrenInv, WaitableExists, Waitable, PidsDistinct, Holding,
                      Registered,
                      ObservedFree
  <1> QED BY <1>3, <1>4 DEF Guarded

\* Dropping a registration drops nobody else's.
LEMMA UnregisterGuarded == ASSUME ChildrenInv, NEW o \in Owners, Unregister(o) PROVE Guarded'
  <1>1. /\ owner[o].pc \in {"waited", "gave_up"} /\ UNCHANGED <<proc, lock, reaper>>
        /\ owned' = owned \ {owner[o].pid} /\ lock = Nobody
    BY DEF Unregister, ChildrenInv, OwnersGetTheirStatus
  <1>2. owner' = [owner EXCEPT ![o].pc = "done"]
    BY <1>1 DEF Unregister
  <1>3. /\ owner'[o].pc = "done" /\ owner'[o].pid = owner[o].pid
        /\ \A q \in Owners : q # o => owner'[q] = owner[q]
    BY <1>2, OwnerMoves DEF ChildrenInv, BaseInv, OwnerPlaces
  <1>4. OwnersGetTheirStatus' /\ SpawnedLocked'
    BY <1>1, <1>3 DEF ChildrenInv, OwnersGetTheirStatus, SpawnedLocked
  <1>5. RegisteredOwned'
    BY <1>1, <1>3 DEF ChildrenInv, RegisteredOwned, PidsDistinct, Holding, Registered
  <1>6. WaitableExists' /\ PidsDistinct'
    BY <1>1, <1>3 DEF ChildrenInv, WaitableExists, Waitable, PidsDistinct, Holding,
                      Registered
  <1>7. ObservedFree'
    BY <1>1 DEF ChildrenInv, ObservedFree
  <1> QED BY <1>4, <1>5, <1>6, <1>7 DEF Guarded

\* While the reaper looks, nobody is between the fork and the insertion.
LEMMA LookGuarded ==
  ASSUME ChildrenInv, BeginDrain \/ ObserveNothing \/ \E p \in Pids : Observe(p)
  PROVE  Guarded'
  <1>1. /\ UNCHANGED <<proc, owned, owner>> /\ lock \in {Reaper, Nobody}
    BY DEF BeginDrain, ObserveNothing, Observe, ChildrenInv, BaseInv, TypeOK
  <1>2. \A o \in Owners : owner[o].pc # "spawned"
    BY <1>1 DEF ChildrenInv, BaseInv, ChildrenConstants, SpawnedLocked
  <1>3. OwnersGetTheirStatus' /\ SpawnedLocked'
    BY <1>1, <1>2 DEF ChildrenInv, OwnersGetTheirStatus, SpawnedLocked
  <1>4. RegisteredOwned' /\ WaitableExists' /\ PidsDistinct'
    BY <1>1 DEF ChildrenInv, RegisteredOwned, WaitableExists, PidsDistinct
  <1>5. ObservedFree'
    BY DEF BeginDrain, ObserveNothing, Observe, ObservedFree
  <1> QED BY <1>3, <1>4, <1>5 DEF Guarded

\* What the reaper reaps is not the child of a thread that waits for it.
LEMMA ReapGuarded == ASSUME ChildrenInv, Reap \/ WaitPrimary PROVE Guarded'
  <1>1. PICK p \in Pids : /\ proc' = proc \/ proc' = [proc EXCEPT ![p] = "none"]
                          /\ p = Primary \/ (reaper.pc = "reaping" /\ p \notin owned)
    <2>1. CASE Reap
      BY <2>1 DEF Reap, ChildrenInv, ObservedFree
    <2>2. CASE WaitPrimary
      BY <2>2 DEF WaitPrimary, ChildrenInv, BaseInv, ChildrenConstants
    <2> QED BY <2>1, <2>2
  <1>2. UNCHANGED <<owned, owner>> /\ reaper'.pc # "reaping"
    BY DEF Reap, WaitPrimary
  <1>3. lock' = lock \/ lock = Reaper
    BY DEF Reap, WaitPrimary, ChildrenInv, BaseInv, TypeOK
  <1>4. lock = Reaper => \A o \in Owners : owner[o].pc # "spawned"
    BY DEF ChildrenInv, BaseInv, ChildrenConstants, SpawnedLocked
  <1>5. OwnersGetTheirStatus' /\ SpawnedLocked'
    BY <1>2, <1>3, <1>4 DEF ChildrenInv, OwnersGetTheirStatus, SpawnedLocked
  <1>6. ASSUME NEW o \in Owners, owner[o].pc \in Waitable PROVE proc'[owner[o].pid] # "none"
    <2>1. owner[o].pid \in Pids \ {Primary} /\ proc[owner[o].pid] # "none"
      BY <1>6 DEF ChildrenInv, BaseInv, NotThePrimary, WaitableExists, Waitable
    <2>2. reaper.pc = "reaping" => owner[o].pid \in owned
      BY <1>4, <1>6 DEF ChildrenInv, BaseInv, TypeOK, RegisteredOwned, Registered,
                        Waitable
    <2>3. owner[o].pid # p
      BY <1>1, <2>1, <2>2
    <2> QED BY <1>1, <2>1, <2>3 DEF ChildrenInv, BaseInv, TypeOK
  <1>7. WaitableExists'
    BY <1>2, <1>6 DEF WaitableExists
  <1>8. RegisteredOwned' /\ PidsDistinct' /\ ObservedFree'
    BY <1>2 DEF ChildrenInv, RegisteredOwned, PidsDistinct, ObservedFree
  <1> QED BY <1>5, <1>7, <1>8 DEF Guarded

-----------------------------------------------------------------------------
(* The theorems *)

\* The invariants hold when the sandboxed child has been forked.
LEMMA InitHolds ==
  ASSUME ChildrenConstants, Init PROVE BaseInv /\ (~PidReuse => ChildrenInv)
  <1>1. TypeOK
    <2>1. owner \in [Owners -> [pc : OwnerPlaces, pid : PidOrNone]] /\ reaper \in ReaperRecords
      BY DEF Init, OwnerPlaces, ReaperRecords, ReaperPlaces, PidOrNone
    <2>2. proc \in [Pids -> {"none", "running", "zombie"}]
      BY DEF Init
    <2>3. owned \subseteq Pids /\ lock = Nobody /\ status \in BOOLEAN
      BY DEF Init
    <2>4. orphans \in 0 .. MaxOrphans
      BY DEF Init, ChildrenConstants
    <2>5. (lock = Reaper) <=> (reaper.pc \in {"draining", "reaping"})
      BY DEF Init, Reaper, Nobody
    <2> QED BY <2>1, <2>2, <2>3, <2>4, <2>5
            DEF TypeOK, OwnerPlaces, ReaperRecords, ReaperPlaces, PidOrNone
  <1>2. NotThePrimary /\ PrimaryStatusKept
    BY DEF ChildrenConstants, Init, NotThePrimary, PrimaryStatusKept
  <1>3. Guarded
    BY DEF Init, Guarded, OwnersGetTheirStatus, SpawnedLocked, RegisteredOwned,
           Registered,
           WaitableExists, Waitable, PidsDistinct, Holding, ObservedFree
  <1> QED BY <1>1, <1>2, <1>3 DEF BaseInv, ChildrenInv, Guarded

\* Every step keeps the invariant: one case for each action.
LEMMA StepKeepsInv == ASSUME ChildrenInv, [Next]_vars PROVE ChildrenInv'
  <1>0. BaseInv' /\ ~PidReuse
    BY StepKeepsBase DEF ChildrenInv
  <1> SUFFICES Guarded'
    BY <1>0 DEF ChildrenInv, Guarded
  <1>1. CASE \E p \in Pids : Orphan(p) \/ Exit(p)
    BY <1>1, KernelGuarded
  <1>2. CASE \E o \in Owners, p \in Pids : Spawn(o, p)
    BY <1>2, SpawnGuarded
  <1>3. CASE \E o \in Owners : OwnerStep(o) \/ GiveUp(o)
    BY <1>3, RegisterGuarded, WaitGuarded, UnregisterGuarded,
       GiveUpGuarded DEF OwnerStep
  <1>4. CASE ReaperStep
    BY <1>4, LookGuarded, ReapGuarded DEF ReaperStep
  <1>5. CASE UNCHANGED vars
    BY <1>5 DEF vars, ChildrenInv, Guarded, OwnersGetTheirStatus, SpawnedLocked,
                RegisteredOwned,
                WaitableExists, PidsDistinct, ObservedFree
  <1> QED BY <1>1, <1>2, <1>3, <1>4, <1>5 DEF Next

\* For every configuration, also one whose kernel reuses ids that are still
\* registered: the variables have their types, no owner has the sandboxed
\* child, and its status is never reaped away.
THEOREM BaseInvariant == ChildrenConstants /\ Spec => []BaseInv
  <1>1. BaseInv /\ [Next]_vars => BaseInv'
    BY StepKeepsBase
  <1>2. ChildrenConstants /\ Init => BaseInv
    BY InitHolds
  <1> QED BY <1>1, <1>2, PTL DEF Spec

\* Whichever thread reaps, the status of the sandboxed child is kept.
THEOREM PrimaryStatusNeverLost == ChildrenConstants /\ Spec => []PrimaryStatusKept
  <1>1. BaseInv => PrimaryStatusKept
    BY DEF BaseInv
  <1> QED BY <1>1, BaseInvariant, PTL

\* While no registered id is given out again: a registered child is its
\* owner's alone, and the reaper's wildcard wait never takes it.
THEOREM ChildrenInvariant == ChildrenConstants /\ ~PidReuse /\ Spec => []ChildrenInv
  <1>1. ChildrenInv /\ [Next]_vars => ChildrenInv'
    BY StepKeepsInv
  <1>2. ChildrenConstants /\ ~PidReuse /\ Init => ChildrenInv
    BY InitHolds
  <1> QED BY <1>1, <1>2, PTL DEF Spec

\* A thread that spawned a child through the registry and waits for it gets
\* its status, at whatever moment the child exits, for any number of threads.
THEOREM OwnersKeepTheirStatus == ChildrenConstants /\ ~PidReuse /\ Spec => []OwnersGetTheirStatus
  <1>1. ChildrenInv => OwnersGetTheirStatus
    BY DEF ChildrenInv
  <1> QED BY <1>1, ChildrenInvariant, PTL

-----------------------------------------------------------------------------
\* The gate between the relay and the prompts (RelayPromptGate).

\* Cardinalities as the instance counts them.
LEMMA GateFinite == ASSUME NEW S PROVE Gate!IsFiniteSet(S) <=> IsFiniteSet(S)
  BY Zenon DEF Gate!IsFiniteSet, IsFiniteSet

LEMMA GateCounts == ASSUME NEW S PROVE Gate!Cardinality(S) = Cardinality(S)
  BY Zenon DEF Gate!Cardinality, Cardinality

LEMMA GateCardinalityType ==
  ASSUME NEW S, Gate!IsFiniteSet(S) PROVE Gate!Cardinality(S) \in Nat
  BY GateFinite, GateCounts, FS_CardinalityType

LEMMA GateEmptySet ==
  /\ Gate!IsFiniteSet({})
  /\ Gate!Cardinality({}) = 0
  /\ \A S : Gate!IsFiniteSet(S) => (Gate!Cardinality(S) = 0 <=> S = {})
  BY GateFinite, GateCounts, FS_EmptySet

LEMMA GateAddElement ==
  ASSUME NEW S, NEW x, Gate!IsFiniteSet(S)
  PROVE  /\ Gate!IsFiniteSet(S \cup {x})
         /\ Gate!Cardinality(S \cup {x}) =
               IF x \in S THEN Gate!Cardinality(S) ELSE Gate!Cardinality(S) + 1
  <1>1. IsFiniteSet(S)
    BY GateFinite
  <1>2. /\ IsFiniteSet(S \cup {x})
        /\ Cardinality(S \cup {x}) = IF x \in S THEN Cardinality(S) ELSE Cardinality(S) + 1
    BY <1>1, FS_AddElement
  <1> QED  BY <1>2, GateFinite, GateCounts, Zenon

LEMMA GateSubset ==
  ASSUME NEW S, Gate!IsFiniteSet(S), NEW T \in SUBSET S
  PROVE  Gate!IsFiniteSet(T) /\ Gate!Cardinality(T) <= Gate!Cardinality(S)
  <1>1. IsFiniteSet(S)
    BY GateFinite
  <1>2. IsFiniteSet(T) /\ Cardinality(T) <= Cardinality(S)
    BY <1>1, FS_Subset
  <1> QED  BY <1>2, GateFinite, GateCounts, Zenon

LEMMA GateRemoveElement ==
  ASSUME NEW S, NEW x, Gate!IsFiniteSet(S)
  PROVE  /\ Gate!IsFiniteSet(S \ {x})
         /\ Gate!Cardinality(S \ {x}) =
               IF x \in S THEN Gate!Cardinality(S) - 1 ELSE Gate!Cardinality(S)
  <1>1. IsFiniteSet(S)
    BY GateFinite
  <1>2. /\ IsFiniteSet(S \ {x})
        /\ Cardinality(S \ {x}) = IF x \in S THEN Cardinality(S) - 1 ELSE Cardinality(S)
    BY <1>1, FS_RemoveElement
  <1> QED  BY <1>2, GateFinite, GateCounts, Zenon

\* The workers that the count stands for.
AtTheGate == {w \in Workers : worker[w] \in Gate!Counted}

\* The relay is registered from Register to Unregister, and paused exactly while
\* the supervisor waits for the prompts, on a cooked terminal.
PauseIsHeld ==
    /\ gate_owner <=> relay \notin {"forked", "attached", "draining", "done"}
    /\ paused <=> relay \in {"holding", "hold_notified"}
    /\ relay \in {"hold", "holding", "hold_notified"} => termios = "cooked"

\* Nobody is at the gate before it is there.
NobodyEarly == relay \in {"forked", "attached"} => AtTheGate = {}

\* Whoever passed the gate of a registered relay passed it under the pause.
PassedWhilePaused ==
    gate_owner => \A w \in Workers : worker[w] \in {"asking", "prompting"} => paused

GateInv ==
    /\ Gate!TypeOK
    /\ Gate!PendingIsCounted
    /\ PauseIsHeld
    /\ NobodyEarly
    /\ PassedWhilePaused

LEMMA GateCounted ==
  ASSUME Gate!GateConstants
  PROVE  /\ Gate!IsFiniteSet(AtTheGate)
         /\ Gate!Cardinality(AtTheGate) \in Nat
         /\ Gate!Cardinality(AtTheGate) = 0 <=> AtTheGate = {}
  <1>1. AtTheGate \in SUBSET Workers
    BY DEF AtTheGate
  <1>2. Gate!IsFiniteSet(AtTheGate)
    BY <1>1, GateSubset DEF Gate!GateConstants
  <1> QED  BY <1>2, GateCardinalityType, GateEmptySet

LEMMA GateBegins == ASSUME Gate!GateConstants, Gate!Init PROVE GateInv
  <1>1. AtTheGate = {}
    BY DEF Gate!Init, AtTheGate, Gate!Counted
  <1>2. Gate!PendingIsCounted
    BY <1>1, GateEmptySet DEF Gate!Init, Gate!PendingIsCounted, AtTheGate
  <1>3. Gate!TypeOK
    <2>1. /\ prompting \in SUBSET (Workers \cup {Gate!Supervisor})
          /\ own_prompts \in 0 .. MaxOwnPrompts
      BY DEF Gate!Init, Gate!GateConstants
    <2>2. worker \in [Workers -> Gate!Counted \cup {"idle", "asking_ungated", "prompting_ungated", "done"}]
      BY DEF Gate!Init
    <2>3. gate_owner \in BOOLEAN /\ paused \in BOOLEAN
      BY DEF Gate!Init
    <2> QED  BY <2>1, <2>2, <2>3 DEF Gate!Init, Gate!TypeOK
  <1> QED  BY <1>1, <1>2, <1>3
              DEF Gate!Init, GateInv, PauseIsHeld, NobodyEarly, PassedWhilePaused

\* A notification wakes those who wait and moves no one through the gate.
LEMMA NotifyKeeps ==
  ASSUME NEW f \in [Workers -> Gate!Counted \cup {"idle", "asking_ungated", "prompting_ungated", "done"}]
  PROVE  /\ Gate!NotifyWorkers(f) \in [Workers -> Gate!Counted \cup {"idle", "asking_ungated",
                                                           "prompting_ungated", "done"}]
         /\ \A w \in Workers : /\ Gate!NotifyWorkers(f)[w] \in Gate!Counted <=> f[w] \in Gate!Counted
                               /\ Gate!NotifyWorkers(f)[w] \in {"asking", "prompting"} <=>
                                    f[w] \in {"asking", "prompting"}
  BY DEF Gate!NotifyWorkers, Gate!Counted

\* No worker comes or goes: a step that leaves the count alone.
LEMMA CountKept ==
  ASSUME GateInv, pending' = pending,
         \A w \in Workers : worker'[w] \in Gate!Counted <=> worker[w] \in Gate!Counted
  PROVE  Gate!PendingIsCounted' /\ AtTheGate' = AtTheGate
  <1>1. AtTheGate' = AtTheGate
    BY DEF AtTheGate
  <1> QED  BY <1>1 DEF GateInv, Gate!PendingIsCounted, AtTheGate

LEMMA WorkerTyped ==
  ASSUME Gate!TypeOK, NEW w \in Workers,
         NEW next \in Gate!Counted \cup {"idle", "asking_ungated", "prompting_ungated", "done"}
  PROVE  /\ [worker EXCEPT ![w] = next] \in
              [Workers -> Gate!Counted \cup {"idle", "asking_ungated", "prompting_ungated", "done"}]
         /\ [worker EXCEPT ![w] = next][w] = next
         /\ \A v \in Workers : v # w => [worker EXCEPT ![w] = next][v] = worker[v]
  BY DEF Gate!TypeOK

LEMMA RunPausedKeeps ==
  ASSUME Gate!GateConstants, GateInv, NEW w \in Workers, Gate!RunPaused(w)
  PROVE  GateInv'
  <1> DEFINE next == IF gate_owner THEN IF paused THEN "asking" ELSE "waiting" ELSE "asking_ungated"
  <1>1. next \in Gate!Counted \cup {"idle", "asking_ungated", "prompting_ungated", "done"}
    BY DEF Gate!Counted
  <1>2. worker' = [worker EXCEPT ![w] = next] /\ Gate!TypeOK
    BY DEF Gate!RunPaused, GateInv
  <1>3. /\ /\ worker' \in [Workers -> Gate!Counted \cup {"idle", "asking_ungated", "prompting_ungated", "done"}]
        /\ worker'[w] = next /\ \A v \in Workers : v # w => worker'[v] = worker[v]
    BY <1>1, <1>2, WorkerTyped
  <1>4. worker[w] \notin Gate!Counted
    BY DEF Gate!RunPaused, Gate!Counted
  <1>5. CASE gate_owner
    <2>1. AtTheGate' = AtTheGate \cup {w} /\ w \notin AtTheGate
      BY <1>3, <1>4, <1>5 DEF AtTheGate, Gate!Counted
    <2>2. Gate!PendingIsCounted'
      <3>1. Gate!Cardinality(AtTheGate') = Gate!Cardinality(AtTheGate) + 1
        BY <2>1, GateCounted, GateAddElement
      <3> QED  BY <1>5, <3>1 DEF GateInv, Gate!PendingIsCounted, AtTheGate, Gate!RunPaused
    <2>3. Gate!TypeOK'
      BY <1>2, <1>3, <1>5 DEF Gate!RunPaused, Gate!TypeOK
    <2> QED
      BY <1>3, <1>5, <2>2, <2>3
      DEF GateInv, Gate!RunPaused, PauseIsHeld, NobodyEarly, PassedWhilePaused
  <1>6. CASE ~gate_owner
    <2>1. Gate!PendingIsCounted' /\ AtTheGate' = AtTheGate
      BY <1>3, <1>4, <1>6, CountKept DEF Gate!RunPaused, Gate!Counted
    <2>2. Gate!TypeOK'
      BY <1>2, <1>3, <1>6 DEF Gate!RunPaused, Gate!TypeOK
    <2> QED
      BY <1>3, <1>6, <2>1, <2>2
      DEF GateInv, Gate!RunPaused, PauseIsHeld, NobodyEarly, PassedWhilePaused
  <1> QED  BY <1>5, <1>6

\* A worker that stays at the gate, or away from it.
LEMMA WorkerMoves ==
  ASSUME GateInv, NEW w \in Workers,
         NEW next \in Gate!Counted \cup {"idle", "asking_ungated", "prompting_ungated", "done"},
         worker' = [worker EXCEPT ![w] = next],
         next \in Gate!Counted <=> worker[w] \in Gate!Counted,
         next \in {"asking", "prompting"} => paused \/ ~gate_owner \/ worker[w] \in {"asking", "prompting"},
         prompting' \in SUBSET (Workers \cup {Gate!Supervisor}),
         UNCHANGED <<gate_owner, pending, paused, relay, termios, own_prompts>>
  PROVE  GateInv'
  <1>1. Gate!TypeOK
    BY DEF GateInv
  <1>2. /\ /\ worker' \in [Workers -> Gate!Counted \cup {"idle", "asking_ungated", "prompting_ungated", "done"}]
        /\ worker'[w] = next /\ \A v \in Workers : v # w => worker'[v] = worker[v]
    BY <1>1, WorkerTyped
  <1>3. Gate!PendingIsCounted' /\ AtTheGate' = AtTheGate
    BY <1>2, CountKept
  <1>4. Gate!TypeOK'
    BY <1>1, <1>2 DEF Gate!TypeOK
  <1> QED
    BY <1>2, <1>3, <1>4 DEF GateInv, PauseIsHeld, NobodyEarly, PassedWhilePaused

LEMMA WorkerStepKeeps ==
  ASSUME Gate!GateConstants, GateInv, NEW w \in Workers, Gate!WorkerStep(w)
  PROVE  GateInv'
  <1>0. Gate!TypeOK
    BY DEF GateInv
  <1>1. ASSUME NEW expired \in BOOLEAN, Gate!WaitUntilPaused(w, expired) PROVE GateInv'
    <2> DEFINE next == IF paused \/ ~gate_owner THEN "asking" ELSE IF expired THEN "leaving" ELSE "waiting"
    <2>1. /\ worker' = [worker EXCEPT ![w] = next]
          /\ UNCHANGED <<gate_owner, pending, paused, relay, termios, own_prompts, prompting>>
      BY <1>1 DEF Gate!WaitUntilPaused, Gate!gate
    <2>2. next \in Gate!Counted /\ worker[w] \in Gate!Counted
      BY <1>1 DEF Gate!WaitUntilPaused, Gate!Counted
    <2>3. next \in {"asking", "prompting"} => paused \/ ~gate_owner
      OBVIOUS
    <2>4. prompting' \in SUBSET (Workers \cup {Gate!Supervisor})
      BY <1>0, <2>1 DEF Gate!TypeOK
    <2> HIDE DEF next
    <2> QED  BY <2>1, <2>2, <2>3, <2>4, WorkerMoves
  <1>2. CASE Gate!AcquireSlot(w)
    <2> DEFINE next == IF worker[w] = "asking" THEN "prompting" ELSE "prompting_ungated"
    <2>1. /\ worker' = [worker EXCEPT ![w] = next]
          /\ UNCHANGED <<gate_owner, pending, paused, relay, termios, own_prompts>>
      BY <1>2 DEF Gate!AcquireSlot, Gate!gate
    <2>2. /\ next \in Gate!Counted \cup {"idle", "asking_ungated", "prompting_ungated", "done"}
          /\ next \in Gate!Counted <=> worker[w] \in Gate!Counted
          /\ next \in {"asking", "prompting"} => worker[w] \in {"asking", "prompting"}
      BY <1>2 DEF Gate!AcquireSlot, Gate!Counted
    <2>3. prompting' \in SUBSET (Workers \cup {Gate!Supervisor})
      BY <1>2 DEF Gate!AcquireSlot
    <2> HIDE DEF next
    <2> QED  BY <2>1, <2>2, <2>3, WorkerMoves
  <1>3. CASE Gate!PromptEnds(w)
    <2> DEFINE next == IF worker[w] \in {"asking", "prompting"} THEN "leaving" ELSE "done"
    <2>1. /\ worker' = [worker EXCEPT ![w] = next]
          /\ UNCHANGED <<gate_owner, pending, paused, relay, termios, own_prompts>>
      BY <1>3 DEF Gate!PromptEnds, Gate!gate
    <2>2. /\ next \in Gate!Counted \cup {"idle", "asking_ungated", "prompting_ungated", "done"}
          /\ next \in Gate!Counted <=> worker[w] \in Gate!Counted
          /\ next \notin {"asking", "prompting"}
      BY <1>3 DEF Gate!PromptEnds, Gate!Counted
    <2>3. prompting' \in SUBSET (Workers \cup {Gate!Supervisor})
      BY <1>0, <1>3 DEF Gate!PromptEnds, Gate!TypeOK
    <2> HIDE DEF next
    <2> QED  BY <2>1, <2>2, <2>3, WorkerMoves
  <1>4. CASE Gate!DropPending(w)
    <2> DEFINE f == [worker EXCEPT ![w] = "done"]
    <2>1. /\ /\ f \in [Workers -> Gate!Counted \cup {"idle", "asking_ungated", "prompting_ungated", "done"}]
          /\ f[w] = "done" /\ \A v \in Workers : v # w => f[v] = worker[v]
      BY <1>0 DEF Gate!TypeOK
    <2>2. worker' = Gate!NotifyWorkers(f)
      BY <1>4 DEF Gate!DropPending
    <2> HIDE DEF f
    <2>3. /\ /\ worker' \in [Workers -> Gate!Counted \cup {"idle", "asking_ungated", "prompting_ungated", "done"}]
          /\ \A v \in Workers : worker'[v] \in Gate!Counted <=> (v # w /\ worker[v] \in Gate!Counted)
          /\ \A v \in Workers : worker'[v] \in {"asking", "prompting"} => worker[v] \in {"asking", "prompting"}
      BY <2>1, <2>2, NotifyKeeps DEF Gate!Counted
    <2>4. AtTheGate' = AtTheGate \ {w} /\ w \in AtTheGate
      BY <1>4, <2>3 DEF AtTheGate, Gate!DropPending, Gate!Counted
    <2>5. Gate!PendingIsCounted' /\ pending' \in Nat
      <3>1. /\ Gate!Cardinality(AtTheGate') = Gate!Cardinality(AtTheGate) - 1
            /\ Gate!Cardinality(AtTheGate') \in Nat
        BY <2>4, GateCounted, GateRemoveElement, GateCardinalityType
      <3> QED  BY <1>4, <3>1 DEF GateInv, Gate!PendingIsCounted, AtTheGate, Gate!DropPending
    <2>6. relay' \in {"forked", "attached", "loop", "pausing", "hold", "holding",
                    "hold_notified", "resume", "asking", "prompting", "draining", "done"}
      BY <1>0, <1>4 DEF Gate!TypeOK, Gate!DropPending, Gate!NotifySupervisor
    <2>7. Gate!TypeOK'
      BY <1>0, <1>4, <2>3, <2>5, <2>6 DEF Gate!TypeOK, Gate!DropPending
    <2>8. PauseIsHeld' /\ NobodyEarly'
      BY <1>4, <2>4
         DEF GateInv, PauseIsHeld, NobodyEarly, Gate!DropPending, Gate!NotifySupervisor
    <2> QED
      BY <1>4, <2>3, <2>5, <2>7, <2>8 DEF GateInv, PassedWhilePaused, Gate!DropPending
  <1> QED  BY <1>1, <1>2, <1>3, <1>4 DEF Gate!WorkerStep

\* The supervisor moves and the gate is as it was.
LEMMA SupervisorMoves ==
  ASSUME GateInv,
         UNCHANGED <<gate_owner, pending, paused, worker>>,
         relay' \in {"attached", "loop", "pausing", "hold", "resume", "asking", "prompting", "done"},
         gate_owner <=> relay' \notin {"attached", "done"}, ~paused,
         relay' = "attached" => relay = "forked",
         relay' = "hold" => termios' = "cooked", termios' \in {"cooked", "raw"},
         prompting' \in SUBSET (Workers \cup {Gate!Supervisor}),
         own_prompts' \in 0 .. MaxOwnPrompts
  PROVE  GateInv'
  <1>1. Gate!PendingIsCounted' /\ AtTheGate' = AtTheGate
    BY CountKept
  <1> QED  BY <1>1 DEF GateInv, Gate!TypeOK, PauseIsHeld, NobodyEarly, PassedWhilePaused

LEMMA SupervisorStepKeeps ==
  ASSUME Gate!GateConstants, GateInv,
         Gate!SupervisorStep \/ Gate!OwnPrompt \/ Gate!Unregister PROVE GateInv'
  <1>0. Gate!TypeOK /\ PauseIsHeld
    BY DEF GateInv
  <1>1. CASE Gate!AttachTerminal
    BY <1>0, <1>1, SupervisorMoves DEF Gate!AttachTerminal, Gate!gate, Gate!TypeOK, PauseIsHeld
  <1>2. CASE Gate!Register
    <2>1. Gate!PendingIsCounted' /\ AtTheGate' = AtTheGate /\ AtTheGate = {}
      BY <1>2, CountKept DEF Gate!Register, GateInv, NobodyEarly
    <2>2. \A w \in Workers : worker[w] \notin {"asking", "prompting"}
      BY <2>1 DEF AtTheGate, Gate!Counted
    <2>3. Gate!TypeOK'
      BY <1>0, <1>2 DEF Gate!Register, Gate!TypeOK
    <2> QED
      BY <1>2, <2>1, <2>2, <2>3
         DEF Gate!Register, GateInv, PauseIsHeld, NobodyEarly, PassedWhilePaused
  <1>3. CASE Gate!Service
    BY <1>0, <1>3, SupervisorMoves DEF Gate!Service, Gate!gate, Gate!TypeOK, PauseIsHeld
  <1>4. CASE Gate!PauseRelay
    BY <1>0, <1>4, SupervisorMoves DEF Gate!PauseRelay, Gate!gate, Gate!TypeOK, PauseIsHeld
  <1>5. CASE Gate!HoldPause
    <2>1. /\ /\ worker' \in [Workers -> Gate!Counted \cup {"idle", "asking_ungated", "prompting_ungated", "done"}]
          /\ \A v \in Workers : worker'[v] \in Gate!Counted <=> worker[v] \in Gate!Counted
          /\ \A v \in Workers : worker'[v] \in {"asking", "prompting"} <=> worker[v] \in {"asking", "prompting"}
      BY <1>0, <1>5, NotifyKeeps DEF Gate!HoldPause, Gate!TypeOK
    <2>2. Gate!PendingIsCounted' /\ AtTheGate' = AtTheGate
      BY <1>5, <2>1, CountKept DEF Gate!HoldPause
    <2>3. Gate!TypeOK'
      BY <1>0, <1>5, <2>1 DEF Gate!HoldPause, Gate!TypeOK
    <2>4. PauseIsHeld' /\ NobodyEarly'
      BY <1>0, <1>5 DEF Gate!HoldPause, PauseIsHeld, NobodyEarly
    <2>5. pending = 0 => \A w \in Workers : worker[w] \notin {"asking", "prompting"}
      <3>1. pending = 0 => AtTheGate = {}
        BY GateCounted DEF GateInv, Gate!PendingIsCounted, AtTheGate
      <3> QED  BY <3>1 DEF AtTheGate, Gate!Counted
    <2>6. PassedWhilePaused'
      BY <1>0, <1>5, <2>1, <2>5 DEF Gate!HoldPause, PassedWhilePaused, Gate!TypeOK
    <2> QED  BY <2>2, <2>3, <2>4, <2>6 DEF GateInv
  <1>6. CASE Gate!ResumeRelay
    BY <1>0, <1>6, SupervisorMoves DEF Gate!ResumeRelay, Gate!gate, Gate!TypeOK, PauseIsHeld
  <1>7. CASE Gate!OwnAcquireSlot
    BY <1>0, <1>7, SupervisorMoves DEF Gate!OwnAcquireSlot, Gate!gate, Gate!TypeOK, PauseIsHeld
  <1>8. CASE Gate!OwnPromptEnds
    <2>1. prompting' \in SUBSET (Workers \cup {Gate!Supervisor})
      BY <1>0, <1>8 DEF Gate!OwnPromptEnds, Gate!TypeOK
    <2> QED  BY <1>0, <1>8, <2>1, SupervisorMoves
                DEF Gate!OwnPromptEnds, Gate!gate, Gate!TypeOK, PauseIsHeld
  <1>9. CASE Gate!RestoreTerminal
    BY <1>0, <1>9, SupervisorMoves DEF Gate!RestoreTerminal, Gate!gate, Gate!TypeOK, PauseIsHeld
  <1>10. CASE Gate!OwnPrompt
    <2>1. own_prompts' \in 0 .. MaxOwnPrompts
      BY <1>0, <1>10 DEF Gate!OwnPrompt, Gate!TypeOK, Gate!GateConstants
    <2> QED  BY <1>0, <1>10, <2>1, SupervisorMoves
                DEF Gate!OwnPrompt, Gate!gate, Gate!TypeOK, PauseIsHeld
  <1>11. CASE Gate!Unregister
    <2>1. /\ /\ worker' \in [Workers -> Gate!Counted \cup {"idle", "asking_ungated", "prompting_ungated", "done"}]
          /\ \A v \in Workers : worker'[v] \in Gate!Counted <=> worker[v] \in Gate!Counted
      BY <1>0, <1>11, NotifyKeeps DEF Gate!Unregister, Gate!TypeOK
    <2>2. Gate!PendingIsCounted' /\ AtTheGate' = AtTheGate
      BY <1>11, <2>1, CountKept DEF Gate!Unregister
    <2>3. Gate!TypeOK'
      BY <1>0, <1>11, <2>1 DEF Gate!Unregister, Gate!TypeOK
    <2> QED
      BY <1>0, <1>11, <2>2, <2>3
         DEF Gate!Unregister, GateInv, PauseIsHeld, NobodyEarly, PassedWhilePaused
  <1> QED
    BY <1>1, <1>2, <1>3, <1>4, <1>5, <1>6, <1>7, <1>8, <1>9, <1>10, <1>11
       DEF Gate!SupervisorStep

LEMMA GateNext == ASSUME Gate!GateConstants, GateInv, [Gate!Next]_(Gate!vars) PROVE GateInv'
  <1>1. CASE UNCHANGED Gate!vars
    BY <1>1
       DEF Gate!vars, GateInv, Gate!TypeOK, Gate!PendingIsCounted, PauseIsHeld, NobodyEarly,
           AtTheGate,
       PassedWhilePaused
  <1> QED
    BY <1>1, RunPausedKeeps, WorkerStepKeeps, SupervisorStepKeeps DEF Gate!Next, Gate!Finished

\* GateInv is an invariant of the gate.
THEOREM GateInvariant == Gate!GateConstants /\ Gate!Spec => [](Gate!GateConstants /\ GateInv)
  <1> DEFINE I == Gate!GateConstants /\ GateInv
  <1>1. Gate!GateConstants /\ Gate!Init => I
    BY GateBegins
  <1>2. I /\ [Gate!Next]_(Gate!vars) => I'
    BY GateNext DEF Gate!GateConstants
  <1> QED  BY <1>1, <1>2, PTL DEF Gate!Spec

\* However prompts come, time out and go under the pause, a prompt that passed the
\* gate of a registered relay runs on a paused relay and a cooked terminal.
THEOREM PromptsOnCookedTerminal ==
  Gate!GateConstants /\ Gate!Spec => []GatedPromptsOnlyWhilePaused
  <1>1. GateInv => Gate!GatedPromptsOnlyWhilePaused
    BY DEF GateInv, PauseIsHeld, PassedWhilePaused, Gate!GatedPromptsOnlyWhilePaused
  <1>9. Gate!GatedPromptsOnlyWhilePaused => GatedPromptsOnlyWhilePaused
    BY DEF GatedPromptsOnlyWhilePaused
  <1> QED  BY <1>9, <1>1, GateInvariant, PTL

\* The count the supervisor waits on is the number of workers at the gate.
THEOREM PendingPromptsCounted == Gate!GateConstants /\ Gate!Spec => []Gate!PendingIsCounted
  <1>1. GateInv => Gate!PendingIsCounted
    BY DEF GateInv
  <1> QED  BY <1>1, GateInvariant, PTL

-----------------------------------------------------------------------------
\* The attach socket (PtyAttach).

Steps == {"idle", "connected", "wait", "ready", "busy", "failed", "gone", "ended"}
Socks == {"none", "queued", "open", "shut", "left"}
Acks == {"none", "OK", "BUSY", "DENIED"}

\* A client's side of its connection.
Side == [pc : Steps, sock : Socks, sent : BOOLEAN, ack : Acks,
         buf : Seq(1..Chunks), seen : Seq(1..Chunks), retried : BOOLEAN]

\* The sequence holds the last Len(s) chunks up to number hi.
RunsTo(s, hi) == \A k \in 1..Len(s) : s[k] = hi - Len(s) + k

Empty(r) == r.buf = <<>> /\ r.seen = <<>>

\* What a client has been given is a run of chunks up to hi.
GivenTo(r, hi) == RunsTo(r.buf, hi) /\ RunsTo(r.seen, hi - Len(r.buf))

\* ... and if nothing, then there was nothing to give.
UpToDate(r, hi) == GivenTo(r, hi) /\ (Empty(r) => hi = 0)

\* A client a step of somebody leaves as far as it was.
Keeps(r, s) ==
    /\ \A hi \in Int : GivenTo(r, hi) => GivenTo(s, hi)
    /\ Empty(r) => Empty(s)
    /\ s.sock = "open" => r.sock = "open" /\ (Empty(s) => Empty(r))
    /\ s.pc = "idle" => r.pc = "idle"

\* Something of the output is kept as soon as there is any.
ScrollKept ==
    /\ scroll <= relayed + 1 /\ (relayed > 0 => scroll <= relayed)
    /\ sup = "write" => slot # NoClient /\ relayed > 0

\* Who is being served has connected, and until the replay was given nothing.
Served ==
    /\ sup \in {"request", "fd", "replay"} => serving \in Pty!Clients /\ conn[serving].pc # "idle"
    /\ sup \in {"fd", "replay"} => slot = NoClient /\ serving \in Attachers
    /\ sup \in {"request", "fd"} => Empty(conn[serving])

\* Who is queued is queued once, and is neither served nor attached.
Queued ==
    \A k \in 1..Len(queue) :
        /\ queue[k] \in Pty!Clients /\ conn[queue[k]].pc # "idle" /\ Empty(conn[queue[k]])
        /\ queue[k] # slot
        /\ sup \in {"request", "fd", "replay"} => queue[k] # serving
        /\ \A j \in 1..Len(queue) : queue[j] = queue[k] => j = k

Started ==
    /\ slot # NoClient => conn[slot].pc # "idle"
    /\ \A c \in Pty!Clients : conn[c].pc = "idle" => Empty(conn[c])

\* Every client was given one run of chunks.
OneRun == \A c \in Pty!Clients : \E hi \in Int : GivenTo(conn[c], hi)

\* The client in the slot has all that was relayed, but for the chunk in hand.
SlotUpToDate ==
    slot # NoClient /\ conn[slot].sock = "open" =>
        UpToDate(conn[slot], IF sup = "write" THEN relayed - 1 ELSE relayed)

\* Replay and what the client has of it together end with what was relayed.
ReplayUpToDate ==
    sup = "replay" =>
        /\ RunsTo(replay, relayed)
        /\ conn[serving].sock = "open" =>
              /\ GivenTo(conn[serving], relayed - Len(replay))
              /\ Empty(conn[serving]) /\ replay = <<>> => relayed = 0

PtyInv ==
    /\ Pty!TypeOK /\ ScrollKept /\ Served /\ Queued /\ Started
    /\ OneRun /\ SlotUpToDate /\ ReplayUpToDate

LEMMA EmptyRuns == \A hi \in Int : RunsTo(<<>>, hi)
  BY DEF RunsTo

LEMMA EmptyGiven == ASSUME NEW r, Empty(r), NEW hi \in Int PROVE GivenTo(r, hi)
  <1>1. Len(r.buf) = 0 /\ hi - Len(r.buf) \in Int
    BY DEF Empty
  <1> QED  BY <1>1, EmptyRuns DEF Empty, GivenTo

LEMMA RunGrows ==
  ASSUME NEW s \in Seq(1..Chunks), NEW hi \in Int, RunsTo(s, hi), NEW x \in 1..Chunks,
         x = hi + 1
  PROVE  RunsTo(Append(s, x), hi + 1)
  <1>1. /\ Len(Append(s, x)) = Len(s) + 1 /\ Append(s, x)[Len(s) + 1] = x
        /\ \A k \in 1..Len(s) : Append(s, x)[k] = s[k]
    OBVIOUS
  <1>2. Len(s) \in Nat
    OBVIOUS
  <1>3. \A k \in 1..Len(s) + 1 : k \in 1..Len(s) \/ k = Len(s) + 1
    BY <1>2
  <1>4. ASSUME NEW k \in 1..Len(s) PROVE Append(s, x)[k] = (hi + 1) - (Len(s) + 1) + k
    <2>1. s[k] = hi - Len(s) + k
      BY DEF RunsTo
    <2> QED  BY <1>1, <1>2, <2>1
  <1>5. x = (hi + 1) - (Len(s) + 1) + (Len(s) + 1)
    BY <1>2
  <1> QED  BY <1>1, <1>3, <1>4, <1>5 DEF RunsTo

LEMMA RunShrinks ==
  ASSUME NEW s \in Seq(1..Chunks), s # <<>>, NEW hi \in Int, RunsTo(s, hi)
  PROVE  Head(s) = (hi - Len(s)) + 1 /\ Len(Tail(s)) = Len(s) - 1 /\ RunsTo(Tail(s), hi)
  <1>1. Len(s) \in Nat \ {0} /\ Head(s) = s[1] /\ Len(Tail(s)) = Len(s) - 1
    OBVIOUS
  <1>2. \A k \in 1..Len(s) - 1 : Tail(s)[k] = s[k + 1]
    OBVIOUS
  <1>3. ASSUME NEW k \in 1..Len(s) - 1 PROVE Tail(s)[k] = hi - (Len(s) - 1) + k
    <2>1. k + 1 \in 1..Len(s)
      BY <1>1
    <2>2. s[k + 1] = hi - Len(s) + (k + 1)
      BY <2>1 DEF RunsTo
    <2> QED  BY <1>1, <1>2, <2>2
  <1>4. s[1] = hi - Len(s) + 1
    BY <1>1 DEF RunsTo
  <1> QED  BY <1>1, <1>3, <1>4 DEF RunsTo

LEMMA HeadTyped ==
  ASSUME NEW S, NEW s \in Seq(S), s # <<>>
  PROVE  Head(s) \in S /\ Len(s) \in Nat /\ Tail(s) \in Seq(S)
  OBVIOUS

LEMMA FunctionIsSeq ==
  ASSUME NEW S, NEW n \in Nat, NEW f \in [1..n -> S] PROVE f \in Seq(S) /\ Len(f) = n
  OBVIOUS

LEMMA AppendTyped == ASSUME NEW S, NEW s \in Seq(S), NEW x \in S PROVE Append(s, x) \in Seq(S)
  OBVIOUS

LEMMA SideTyped == ASSUME Pty!TypeOK PROVE conn \in [Pty!Clients -> Side]
  BY DEF Pty!TypeOK, Side, Steps, Socks, Acks

\* Whoever is given the next chunk has a run that is one longer.
LEMMA GivenNext ==
  ASSUME NEW r \in Side, NEW s \in Side, NEW x \in 1..Chunks, s.seen = r.seen,
         s.buf = Append(r.buf, x),
         NEW hi \in Int, GivenTo(r, hi), x = hi + 1
  PROVE  GivenTo(s, hi + 1) /\ ~Empty(s)
  <1>1. r.buf \in Seq(1..Chunks) /\ Len(r.buf) \in Nat
    BY DEF Side
  <1>2. RunsTo(s.buf, hi + 1)
    BY <1>1, RunGrows DEF GivenTo
  <1>3. (hi + 1) - Len(s.buf) = hi - Len(r.buf) /\ s.buf # <<>>
    <2>1. PICK b \in Seq(1..Chunks) : b = r.buf
      BY <1>1, Zenon
    <2>2. Len(Append(b, x)) = Len(b) + 1 /\ Append(b, x) # <<>> /\ Len(b) \in Nat
      OBVIOUS
    <2>3. \A n \in Nat : \A m : m = n + 1 => (hi + 1) - m = hi - n
      OBVIOUS
    <2> QED  BY <2>1, <2>2, <2>3
  <1> QED  BY <1>2, <1>3 DEF GivenTo, Empty

\* Reading moves a chunk from the socket to the screen.
LEMMA ReadKeeps ==
  ASSUME NEW r \in Side, NEW s \in Side, r.buf # <<>>, s.buf = Tail(r.buf),
         s.seen = Append(r.seen, Head(r.buf)), s.sock = r.sock, s.pc = r.pc
  PROVE  Keeps(r, s)
  <1>0. r.buf \in Seq(1..Chunks) /\ r.seen \in Seq(1..Chunks)
    BY DEF Side
  <1>1. /\ r.buf \in Seq(1..Chunks)
        /\ r.seen \in Seq(1..Chunks)
        /\ Head(r.buf) \in 1..Chunks
        /\ Len(r.buf) \in Nat
    BY <1>0, HeadTyped
  <1>2. ASSUME NEW hi \in Int, GivenTo(r, hi) PROVE GivenTo(s, hi)
    <2>1. /\ Head(r.buf) = (hi - Len(r.buf)) + 1
          /\ Len(s.buf) = Len(r.buf) - 1
          /\ RunsTo(s.buf, hi)
      BY <1>1, <1>2, RunShrinks DEF GivenTo
    <2>2. RunsTo(s.seen, (hi - Len(r.buf)) + 1)
      <3>1. hi - Len(r.buf) \in Int
        BY <1>1
      <3> QED  BY <1>1, <1>2, <2>1, <3>1, RunGrows DEF GivenTo
    <2>3. hi - Len(s.buf) = (hi - Len(r.buf)) + 1
      <3>1. \A a \in Nat : \A b : b = a - 1 => hi - b = (hi - a) + 1
        OBVIOUS
      <3> QED  BY <1>1, <2>1, <3>1, Zenon
    <2> QED  BY <2>1, <2>2, <2>3 DEF GivenTo
  <1>3. s.seen # <<>>
    BY <1>1
  <1> QED  BY <1>2, <1>3 DEF Keeps, Empty

\* A step that changes neither what was given nor, but for closing, the socket.
LEMMA QuietKeeps ==
  ASSUME NEW r, NEW s, s.buf = r.buf, s.seen = r.seen, s.sock = "open" => r.sock = "open",
         s.pc = "idle" => r.pc = "idle"
  PROVE  Keeps(r, s)
  BY DEF Keeps, GivenTo, Empty

LEMMA EmptiedKeeps ==
  ASSUME NEW r, NEW s, Empty(s), s.sock # "open", s.pc # "idle"
  PROVE  Keeps(r, s)
  BY EmptyGiven DEF Keeps

-----------------------------------------------------------------------------

LEMMA PtyBegins == ASSUME Pty!AttachAssumption, Pty!Init PROVE PtyInv
  <1>1. /\ Pty!NoConn \in Side
        /\ Empty(Pty!NoConn)
        /\ Pty!NoConn.pc = "idle"
        /\ Pty!NoConn.sock = "none"
    BY DEF Pty!NoConn, Side, Steps, Socks, Acks, Empty
  <1> DEFINE first == [Pty!NoConn EXCEPT !.pc = "ready", !.sock = "open"]
  <1>2. first \in Side /\ Empty(first) /\ first.pc = "ready"
    <2> DEFINE started == [Pty!NoConn EXCEPT !.pc = "ready"]
    <2>1. started \in Side /\ Empty(started) /\ started.pc = "ready"
      BY <1>1 DEF Side, Steps, Empty
    <2>2. first = [started EXCEPT !.sock = "open"]
      BY DEF Pty!NoConn
    <2> HIDE DEF started, first
    <2> QED  BY <2>1, <2>2 DEF Side, Socks, Empty
  <1> HIDE DEF first
  <1>3. conn \in [Pty!Clients -> Side] /\ \A c \in Pty!Clients : Empty(conn[c]) /\ (c = slot => conn[c].pc = "ready")
    <2>1. conn = [c \in Pty!Clients |-> IF c = slot THEN first ELSE Pty!NoConn]
      BY DEF Pty!Init, first
    <2> QED  BY <1>1, <1>2, <2>1
  <1>4. slot \in Pty!Viewers \cup {NoClient} /\ NoClient \notin Pty!Clients /\ (slot # NoClient => slot \in Pty!Clients)
    BY DEF Pty!Init, Pty!Viewers, Pty!Clients, Pty!AttachAssumption
  <1>5. Pty!TypeOK
    <2>1. /\ conn \in [Pty!Clients -> Side]
          /\ stalled \subseteq Pty!Clients
          /\ exited \in BOOLEAN
          /\ path \in BOOLEAN
      BY <1>3 DEF Pty!Init
    <2>2. /\ sup \in Pty!Sup
          /\ serving \in Pty!Clients \cup {NoClient}
          /\ queue \in Seq(Pty!Clients)
          /\ replay \in Seq(1..Chunks)
      BY DEF Pty!Init, Pty!Sup
    <2>3. written \in 0..Chunks /\ relayed \in 0..written /\ scroll \in 1..(Chunks + 1)
      BY DEF Pty!Init, Pty!AttachAssumption
    <2> QED  BY <1>4, <2>1, <2>2, <2>3 DEF Pty!TypeOK, Side, Steps, Socks, Acks
  <1>6. ScrollKept /\ Served /\ Queued /\ ReplayUpToDate
    BY DEF Pty!Init, ScrollKept, Served, Queued, ReplayUpToDate
  <1>7. Started
    BY <1>3, <1>4 DEF Started
  <1>8. OneRun
    <2>1. \A c \in Pty!Clients : GivenTo(conn[c], 0)
      BY <1>3, EmptyGiven
    <2> QED  BY <2>1 DEF OneRun
  <1>9. SlotUpToDate
    BY <1>3, <1>4, EmptyGiven DEF SlotUpToDate, UpToDate, Pty!Init
  <1> QED  BY <1>5, <1>6, <1>7, <1>8, <1>9 DEF PtyInv

\* A step that gives nothing to anybody and relays nothing.
LEMMA OutputsKept ==
  ASSUME Pty!AttachAssumption, PtyInv, conn' \in [Pty!Clients -> Side],
         \A c \in Pty!Clients : Keeps(conn[c], conn'[c]),
         UNCHANGED <<relayed, scroll>>, written' \in relayed..Chunks,
         exited' \in BOOLEAN, path' \in BOOLEAN, stalled' \subseteq Pty!Clients,
         slot' \in {slot, NoClient}, queue' \in {queue, <<>>},
         \/ UNCHANGED <<sup, serving, replay>> /\ (sup = "write" => slot' = slot)
         \/ /\ sup' \in {"poll", "unlinked", "gone"} /\ sup # "write"
            /\ serving' \in {serving, NoClient} /\ replay' = replay
         \/ /\ sup = "request" /\ sup' = "fd" /\ slot = NoClient /\ serving \in Attachers
            /\ UNCHANGED <<serving, replay>>
  PROVE  PtyInv'
  <1>0. /\ Pty!TypeOK
        /\ ScrollKept
        /\ Served
        /\ Queued
        /\ Started
        /\ OneRun
        /\ SlotUpToDate
        /\ ReplayUpToDate
    BY DEF PtyInv
  <1>1. Pty!TypeOK'
    <2>1. /\ /\ sup' \in Pty!Sup
          /\ slot' \in Pty!Viewers \cup {NoClient}
          /\ serving' \in Pty!Clients \cup {NoClient}
          /\ replay' \in Seq(1..Chunks)
      BY <1>0 DEF Pty!TypeOK, Pty!Sup
    <2>3. queue' \in Seq(Pty!Clients)
      <3>1. <<>> \in Seq(Pty!Clients)
        OBVIOUS
      <3> QED  BY <1>0, <3>1 DEF Pty!TypeOK
    <2>2. written' \in 0..Chunks /\ relayed' \in 0..written' /\ scroll' \in 1..(Chunks + 1)
      BY <1>0 DEF Pty!TypeOK, Pty!AttachAssumption
    <2> QED  BY <2>1, <2>2, <2>3 DEF Pty!TypeOK, Side, Steps, Socks, Acks
  <1>2. ScrollKept'
    BY <1>0 DEF ScrollKept
  <1>3. Served'
    BY <1>0 DEF Served, Keeps, Pty!Clients
  <1>4. Queued'
    <2>1. CASE queue' = <<>>
      BY <2>1 DEF Queued
    <2>2. CASE queue' = queue
      <3>1. ASSUME NEW k \in 1..Len(queue)
            PROVE  /\ queue[k] \in Pty!Clients /\ conn'[queue[k]].pc # "idle" /\ Empty(conn'[queue[k]])
                   /\ queue[k] # slot'
                   /\ sup' \in {"request", "fd", "replay"} => queue[k] # serving'
                   /\ \A j \in 1..Len(queue) : queue[j] = queue[k] => j = k
        <4>1. queue[k] \in Pty!Clients /\ queue[k] # NoClient
          BY <1>0 DEF Queued, Pty!Clients, Pty!AttachAssumption
        <4> QED  BY <1>0, <4>1 DEF Queued, Keeps
      <3> QED  BY <2>2, <3>1 DEF Queued
    <2> QED  BY <2>1, <2>2
  <1>5. Started'
    <2>1. slot # NoClient => slot \in Pty!Clients
      BY <1>0 DEF Pty!TypeOK, Pty!Viewers, Pty!Clients
    <2> QED  BY <1>0, <2>1 DEF Started, Keeps
  <1>6. OneRun'
    BY <1>0 DEF OneRun, Keeps
  <1>7. SlotUpToDate'
    <2> SUFFICES ASSUME slot' # NoClient, conn'[slot'].sock = "open"
                 PROVE  UpToDate(conn'[slot'], IF sup' = "write" THEN relayed - 1 ELSE relayed)
      BY DEF SlotUpToDate
    <2>1. slot' = slot /\ slot \in Pty!Clients /\ Keeps(conn[slot], conn'[slot])
      BY <1>0 DEF Pty!TypeOK, Pty!Viewers, Pty!Clients
    <2>2. conn[slot].sock = "open" /\ (Empty(conn'[slot]) => Empty(conn[slot])) /\ (sup' = "write" <=> sup = "write")
      BY <2>1 DEF Keeps
    <2>3. PICK hi \in Int : hi = IF sup = "write" THEN relayed - 1 ELSE relayed
      BY <1>0 DEF Pty!TypeOK
    <2>4. UpToDate(conn[slot], hi)
      BY <1>0, <2>1, <2>2, <2>3 DEF SlotUpToDate
    <2>5. UpToDate(conn'[slot], hi)
      BY <2>1, <2>2, <2>4 DEF UpToDate, Keeps
    <2> QED  BY <2>1, <2>2, <2>3, <2>5
  <1>8. ReplayUpToDate'
    <2> SUFFICES ASSUME sup' = "replay" PROVE ReplayUpToDate'
      BY DEF ReplayUpToDate
    <2>1. sup = "replay" /\ UNCHANGED <<serving, replay>> /\ serving \in Pty!Clients
      BY <1>0 DEF Served
    <2>2. relayed - Len(replay) \in Int
      BY <1>0 DEF Pty!TypeOK
    <2> QED  BY <1>0, <2>1, <2>2 DEF ReplayUpToDate, Keeps
  <1> QED  BY <1>1, <1>2, <1>3, <1>4, <1>5, <1>6, <1>7, <1>8 DEF PtyInv

-----------------------------------------------------------------------------
\* Updating a client's side.

\* Only the socket, and only by closing it, or nothing the output depends on.
Quiet(r, s) ==
    /\ s.buf = r.buf /\ s.seen = r.seen /\ s.pc = r.pc
    /\ s.sock = "open" => r.sock = "open"

LEMMA SockSet ==
  ASSUME NEW r \in Side, NEW x \in Socks, NEW s, s = [r EXCEPT !.sock = x]
  PROVE  s \in Side /\ s.buf = r.buf /\ s.seen = r.seen /\ s.pc = r.pc /\ s.sock = x /\ s.ack = r.ack
  BY DEF Side

LEMMA PcSet ==
  ASSUME NEW r \in Side, NEW x \in Steps, NEW s, s = [r EXCEPT !.pc = x]
  PROVE  s \in Side /\ s.buf = r.buf /\ s.seen = r.seen /\ s.pc = x /\ s.sock = r.sock
  BY DEF Side

LEMMA AckSet ==
  ASSUME NEW r \in Side, NEW x \in Acks, NEW s, s = [r EXCEPT !.ack = x]
  PROVE  s \in Side /\ Quiet(r, s) /\ s.sock = r.sock
  BY DEF Side, Quiet

LEMMA SentSet ==
  ASSUME NEW r \in Side, NEW s, s = [r EXCEPT !.sent = TRUE]
  PROVE  s \in Side /\ Quiet(r, s) /\ s.sock = r.sock
  BY DEF Side, Quiet

LEMMA RetriedSet ==
  ASSUME NEW r \in Side, NEW s, s = [r EXCEPT !.retried = TRUE]
  PROVE  s \in Side /\ Quiet(r, s) /\ s.sock = r.sock
  BY DEF Side, Quiet

LEMMA BufSet ==
  ASSUME NEW r \in Side, NEW x \in Seq(1..Chunks), NEW s, s = [r EXCEPT !.buf = x]
  PROVE  s \in Side /\ s.buf = x /\ s.seen = r.seen /\ s.pc = r.pc /\ s.sock = r.sock
  BY DEF Side

LEMMA SeenSet ==
  ASSUME NEW r \in Side, NEW x \in Seq(1..Chunks), NEW s, s = [r EXCEPT !.seen = x]
  PROVE  s \in Side /\ s.buf = r.buf /\ s.seen = x /\ s.pc = r.pc /\ s.sock = r.sock
  BY DEF Side

LEMMA OneSet ==
  ASSUME NEW f \in [Pty!Clients -> Side], NEW c \in Pty!Clients, NEW s \in Side, NEW g,
         g = [f EXCEPT ![c] = s]
  PROVE  g \in [Pty!Clients -> Side] /\ g[c] = s /\ \A e \in Pty!Clients : e # c => g[e] = f[e]
  OBVIOUS

LEMMA QuietSet ==
  ASSUME NEW f \in [Pty!Clients -> Side], NEW c \in Pty!Clients, NEW s \in Side, Quiet(f[c], s),
         NEW g, g = [f EXCEPT ![c] = s]
  PROVE  g \in [Pty!Clients -> Side] /\ \A e \in Pty!Clients : Quiet(f[e], g[e])
  <1>1. \A r : Quiet(r, r)
    BY DEF Quiet
  <1> QED  BY <1>1, OneSet

\* PtyProxy::detach closes one socket.
LEMMA ClosedQuiet ==
  ASSUME Pty!TypeOK, NEW c \in Pty!Clients
  PROVE  Pty!Closed(c) \in [Pty!Clients -> Side] /\ \A e \in Pty!Clients : Quiet(conn[e], Pty!Closed(c)[e])
  <1> DEFINE x == IF conn[c].sock = "open" THEN "shut" ELSE conn[c].sock
             s == [conn[c] EXCEPT !.sock = x]
  <1>1. conn[c] \in Side /\ conn \in [Pty!Clients -> Side]
    BY SideTyped
  <1>2. x \in Socks /\ (x = "open" => conn[c].sock = "open")
    BY <1>1 DEF Side, Socks
  <1>3. Pty!Closed(c) = [conn EXCEPT ![c] = s]
    BY <1>1 DEF Pty!Closed
  <1> HIDE DEF x
  <1>4. s \in Side /\ Quiet(conn[c], s)
    BY <1>1, <1>2, SockSet DEF Quiet
  <1> HIDE DEF s
  <1> QED  BY <1>1, <1>3, <1>4, QuietSet

LEMMA DetachedQuiet ==
  ASSUME Pty!AttachAssumption, Pty!TypeOK
  PROVE  Pty!Detached \in [Pty!Clients -> Side] /\ \A e \in Pty!Clients : Quiet(conn[e], Pty!Detached[e])
  <1>1. \A r : Quiet(r, r)
    BY DEF Quiet
  <1>2. slot # NoClient => slot \in Pty!Clients
    BY DEF Pty!TypeOK, Pty!Viewers, Pty!Clients
  <1> QED  BY <1>1, <1>2, SideTyped, ClosedQuiet DEF Pty!Detached

LEMMA QuietKeepsAll ==
  ASSUME NEW f, NEW g, \A e \in Pty!Clients : Quiet(f[e], g[e])
  PROVE  \A e \in Pty!Clients : Keeps(f[e], g[e])
  BY QuietKeeps DEF Quiet

-----------------------------------------------------------------------------
\* The steps of the supervisor that move output.

LEMMA RelayOutputKeeps == ASSUME Pty!AttachAssumption, PtyInv, Pty!RelayOutput PROVE PtyInv'
  <1>0. /\ Pty!TypeOK
        /\ ScrollKept
        /\ Served
        /\ Queued
        /\ Started
        /\ OneRun
        /\ SlotUpToDate
        /\ ReplayUpToDate
    BY DEF PtyInv
  <1>1. /\ /\ sup = "poll"
        /\ relayed \in Nat
        /\ written \in 0..Chunks
        /\ relayed < written
        /\ relayed' = relayed + 1
        /\ sup' = (IF slot = NoClient THEN "poll" ELSE "write")
        /\ UNCHANGED <<slot, written, exited, path, queue, serving, replay, conn, stalled>>
    BY <1>0 DEF Pty!RelayOutput, Pty!TypeOK, Pty!AttachAssumption
  <1>2. /\ scroll' \in 1..(Chunks + 1) /\ scroll' <= relayed'
    BY <1>0, <1>1 DEF Pty!RelayOutput, Pty!TypeOK, Pty!AttachAssumption, ScrollKept
  <1>3. Pty!TypeOK'
    <2>1. sup' \in Pty!Sup /\ relayed' \in 0..written' /\ written' \in 0..Chunks
      BY <1>1 DEF Pty!Sup
    <2> QED  BY <1>0, <1>1, <1>2, <2>1 DEF Pty!TypeOK
  <1>4. ScrollKept'
    BY <1>1, <1>2 DEF ScrollKept
  <1>5. Served' /\ Started' /\ OneRun' /\ ReplayUpToDate'
    BY <1>0, <1>1 DEF Served, Started, OneRun, ReplayUpToDate
  <1>6. Queued'
    BY <1>0, <1>1 DEF Queued
  <1>7. SlotUpToDate'
    <2>1. (relayed + 1) - 1 = relayed
      BY <1>1
    <2> QED  BY <1>0, <1>1, <2>1 DEF SlotUpToDate
  <1> QED  BY <1>3, <1>4, <1>5, <1>6, <1>7 DEF PtyInv

LEMMA OneGiven ==
  ASSUME NEW f \in [Pty!Clients -> Side], NEW c \in Pty!Clients, NEW q \in Seq(1..Chunks),
         NEW g, g = [f EXCEPT ![c].buf = q]
  PROVE  /\ g \in [Pty!Clients -> Side] /\ \A e \in Pty!Clients : e # c => g[e] = f[e]
         /\ g[c].pc = f[c].pc /\ g[c].sock = f[c].sock /\ g[c].buf = q /\ g[c].seen = f[c].seen
  <1>1. PICK s : s = [f[c] EXCEPT !.buf = q]
    OBVIOUS
  <1>2. g = [f EXCEPT ![c] = s]
    BY <1>1
  <1>3. s \in Side /\ s.buf = q /\ s.seen = f[c].seen /\ s.pc = f[c].pc /\ s.sock = f[c].sock
    BY <1>1, BufSet
  <1> QED  BY <1>2, <1>3, OneSet

\* A chunk is put into the socket of c.
PutInto(c, x) == conn' = [conn EXCEPT ![c].buf = Append(@, x)]

LEMMA PutIntoGives ==
  ASSUME Pty!TypeOK, NEW c \in Pty!Clients, NEW x \in 1..Chunks, PutInto(c, x)
  PROVE  /\ conn' \in [Pty!Clients -> Side] /\ \A e \in Pty!Clients : e # c => conn'[e] = conn[e]
         /\ conn'[c].pc = conn[c].pc /\ conn'[c].sock = conn[c].sock
         /\ conn'[c].buf = Append(conn[c].buf, x) /\ conn'[c].seen = conn[c].seen
  <1>1. conn[c] \in Side /\ conn \in [Pty!Clients -> Side]
    BY SideTyped
  <1>2. PICK q \in Seq(1..Chunks) : q = Append(conn[c].buf, x)
    <2>1. conn[c].buf \in Seq(1..Chunks)
      BY <1>1 DEF Side
    <2>2. Append(conn[c].buf, x) \in Seq(1..Chunks)
      BY <2>1, AppendTyped
    <2> QED  BY <2>2, Zenon
  <1>3. conn' = [conn EXCEPT ![c].buf = q]
    BY <1>1, <1>2 DEF PutInto
  <1>4. /\ conn' \in [Pty!Clients -> Side] /\ \A e \in Pty!Clients : e # c => conn'[e] = conn[e]
        /\ conn'[c].pc = conn[c].pc /\ conn'[c].sock = conn[c].sock
        /\ conn'[c].buf = q /\ conn'[c].seen = conn[c].seen
    BY <1>1, <1>3, OneGiven
  <1> QED  BY <1>2, <1>4

LEMMA WriteOutputKeeps == ASSUME Pty!AttachAssumption, PtyInv, Pty!WriteOutput PROVE PtyInv'
  <1>0. /\ Pty!TypeOK
        /\ ScrollKept
        /\ Served
        /\ Queued
        /\ Started
        /\ OneRun
        /\ SlotUpToDate
        /\ ReplayUpToDate
    BY DEF PtyInv
  <1>1. /\ /\ sup = "write"
        /\ sup' = "poll"
        /\ slot \in Pty!Clients
        /\ slot # NoClient
        /\ relayed \in 1..Chunks
        /\ UNCHANGED <<written, relayed, scroll, exited, path, queue, serving, replay, stalled>>
    BY <1>0
       DEF Pty!WriteOutput, Pty!TypeOK, Pty!AttachAssumption, ScrollKept, Pty!Viewers,
           Pty!Clients
  <1>2. ScrollKept'
    BY <1>0, <1>1 DEF ScrollKept
  <1>3. CASE slot' = NoClient /\ conn' = conn
    <2>1. Pty!TypeOK'
      BY <1>0, <1>1, <1>3 DEF Pty!TypeOK, Pty!Sup
    <2>2. Served' /\ Started' /\ OneRun' /\ ReplayUpToDate' /\ SlotUpToDate'
      BY <1>0, <1>1, <1>3 DEF Served, Started, OneRun, ReplayUpToDate, SlotUpToDate
    <2>3. Queued'
      <3>1. \A k \in 1..Len(queue) : queue[k] # NoClient
        BY <1>0 DEF Queued, Pty!Clients, Pty!AttachAssumption
      <3> QED  BY <1>0, <1>1, <1>3, <3>1 DEF Queued
    <2> QED  BY <1>2, <2>1, <2>2, <2>3 DEF PtyInv
  <1>4. CASE /\ conn[slot].sock = "open" /\ slot' = slot
             /\ conn' = [conn EXCEPT ![slot].buf = Append(@, relayed)]
    <2>1. /\ conn' \in [Pty!Clients -> Side] /\ \A e \in Pty!Clients : e # slot => conn'[e] = conn[e]
          /\ conn'[slot].pc = conn[slot].pc /\ conn'[slot].sock = conn[slot].sock
          /\ conn'[slot].buf = Append(conn[slot].buf, relayed) /\ conn'[slot].seen = conn[slot].seen
      BY <1>0, <1>1, <1>4, PutIntoGives DEF PutInto
    <2>2. GivenTo(conn'[slot], relayed) /\ ~Empty(conn'[slot])
      <3>1. /\ GivenTo(conn[slot], relayed - 1)
            /\ relayed - 1 \in Int
            /\ (relayed - 1) + 1 = relayed
        BY <1>0, <1>1, <1>4 DEF SlotUpToDate, UpToDate
      <3>2. conn[slot] \in Side /\ conn'[slot] \in Side
        BY <1>0, <1>1, <2>1, SideTyped
      <3>3. GivenTo(conn'[slot], (relayed - 1) + 1) /\ ~Empty(conn'[slot])
        BY <1>1, <2>1, <3>1, <3>2, GivenNext
      <3> QED  BY <3>1, <3>3
    <2>3. Pty!TypeOK'
      BY <1>0, <1>1, <1>4, <2>1 DEF Pty!TypeOK, Pty!Sup, Side, Steps, Socks, Acks
    <2>4. Served' /\ ReplayUpToDate'
      BY <1>1 DEF Served, ReplayUpToDate
    <2>5. Started'
      BY <1>0, <1>1, <1>4, <2>1 DEF Started
    <2>6. OneRun'
      <3>1. relayed \in Int
        BY <1>1
      <3> QED  BY <1>0, <2>1, <2>2, <3>1 DEF OneRun
    <2>7. SlotUpToDate'
      BY <1>1, <1>4, <2>2 DEF SlotUpToDate, UpToDate
    <2>8. Queued'
      BY <1>0, <1>1, <1>4, <2>1 DEF Queued
    <2> QED  BY <1>2, <2>3, <2>4, <2>5, <2>6, <2>7, <2>8 DEF PtyInv
  <1> QED  BY <1>3, <1>4 DEF Pty!WriteOutput

LEMMA AcceptKeeps == ASSUME Pty!AttachAssumption, PtyInv, Pty!Accept PROVE PtyInv'
  <1>0. /\ Pty!TypeOK
        /\ ScrollKept
        /\ Served
        /\ Queued
        /\ Started
        /\ OneRun
        /\ SlotUpToDate
        /\ ReplayUpToDate
    BY DEF PtyInv
  <1>1. /\ /\ sup = "poll"
        /\ queue # <<>>
        /\ serving' = Head(queue)
        /\ queue' = Tail(queue)
        /\ sup' = "request"
        /\ UNCHANGED <<slot, written, relayed, scroll, exited, path, replay, stalled>>
    BY DEF Pty!Accept
  <1>2. PICK c \in Pty!Clients : c = queue[1] /\ serving' = c
    <2>1. queue \in Seq(Pty!Clients)
      BY <1>0 DEF Pty!TypeOK
    <2> QED  BY <1>1, <2>1
  <1>3. /\ /\ Len(queue) \in Nat \ {0}
        /\ Len(queue') = Len(queue) - 1
        /\ queue' \in Seq(Pty!Clients)
        /\ \A k \in 1..Len(queue') : queue'[k] = queue[k + 1] /\ k + 1 \in 1..Len(queue)
    <2>1. queue \in Seq(Pty!Clients)
      BY <1>0 DEF Pty!TypeOK
    <2> QED  BY <1>1, <2>1
  <1>4. 1 \in 1..Len(queue)
    BY <1>3
  <1>5. conn[c].pc # "idle" /\ Empty(conn[c]) /\ c # slot
    BY <1>0, <1>2, <1>4 DEF Queued
  <1>6. /\ conn' \in [Pty!Clients -> Side] /\ \A e \in Pty!Clients : e # c => conn'[e] = conn[e]
        /\ conn'[c].pc = conn[c].pc /\ Empty(conn'[c])
    <2>1. conn[c] \in Side /\ conn \in [Pty!Clients -> Side]
      BY <1>0, SideTyped
    <2>2. PICK x \in Socks : x = IF conn[c].sock = "queued" THEN "open" ELSE conn[c].sock
      BY <2>1 DEF Side, Socks
    <2>3. PICK s : s = [conn[c] EXCEPT !.sock = x]
      OBVIOUS
    <2>4. conn' = [conn EXCEPT ![c] = s]
      <3>1. Head(queue) = c
        BY <1>1, <1>2
      <3>2. conn' = [conn EXCEPT ![c].sock = IF @ = "queued" THEN "open" ELSE @]
        BY <3>1 DEF Pty!Accept
      <3> QED  BY <2>1, <2>2, <2>3, <3>2
    <2>5. s \in Side /\ s.buf = conn[c].buf /\ s.seen = conn[c].seen /\ s.pc = conn[c].pc
      BY <2>1, <2>3, SockSet
    <2> QED  BY <1>5, <2>1, <2>4, <2>5, OneSet DEF Empty
  <1>7. Pty!TypeOK'
    BY <1>0, <1>1, <1>2, <1>3, <1>6 DEF Pty!TypeOK, Pty!Sup, Side, Steps, Socks, Acks
  <1>8. ScrollKept' /\ Served' /\ ReplayUpToDate'
    BY <1>0, <1>1, <1>2, <1>5, <1>6 DEF ScrollKept, Served, ReplayUpToDate
  <1>9. Started'
    BY <1>0, <1>1, <1>5, <1>6 DEF Started, Pty!TypeOK, Pty!Viewers, Pty!Clients
  <1>10. OneRun'
    <2>1. 0 \in Int /\ GivenTo(conn'[c], 0)
      BY <1>6, EmptyGiven
    <2> QED  BY <1>0, <1>6, <2>1 DEF OneRun
  <1>11. SlotUpToDate'
    <2>1. slot # NoClient => slot \in Pty!Clients /\ conn'[slot] = conn[slot]
      BY <1>0, <1>5, <1>6 DEF Pty!TypeOK, Pty!Viewers, Pty!Clients
    <2> QED  BY <1>0, <1>1, <2>1 DEF SlotUpToDate
  <1>12. Queued'
    <2>1. ASSUME NEW k \in 1..Len(queue')
          PROVE  /\ queue'[k] \in Pty!Clients /\ conn'[queue'[k]].pc # "idle" /\ Empty(conn'[queue'[k]])
                 /\ queue'[k] # slot' /\ queue'[k] # serving'
      <3>1. queue'[k] = queue[k + 1] /\ k + 1 \in 1..Len(queue) /\ k + 1 # 1
        BY <1>3
      <3>2. queue[k + 1] # c /\ queue[k + 1] \in Pty!Clients /\ conn[queue[k + 1]].pc # "idle"
            /\ Empty(conn[queue[k + 1]]) /\ queue[k + 1] # slot
        BY <1>0, <1>2, <1>4, <3>1 DEF Queued
      <3> QED  BY <1>1, <1>2, <1>6, <3>1, <3>2
    <2>2. ASSUME NEW k \in 1..Len(queue'), NEW j \in 1..Len(queue'), queue'[j] = queue'[k]
          PROVE  j = k
      <3>1. queue[j + 1] = queue[k + 1] /\ j + 1 \in 1..Len(queue) /\ k + 1 \in 1..Len(queue)
        BY <1>3, <2>2
      <3>2. j + 1 = k + 1
        BY <1>0, <3>1 DEF Queued
      <3> QED  BY <1>3, <3>2
    <2> QED  BY <2>1, <2>2 DEF Queued
  <1> QED  BY <1>7, <1>8, <1>9, <1>10, <1>11, <1>12 DEF PtyInv

LEMMA ReplayBegins ==
  ASSUME Pty!AttachAssumption, PtyInv, Pty!SendResizeFd,
         conn[serving].sock # "left" PROVE PtyInv'
  <1>0. /\ Pty!TypeOK
        /\ ScrollKept
        /\ Served
        /\ Queued
        /\ Started
        /\ OneRun
        /\ SlotUpToDate
        /\ ReplayUpToDate
    BY DEF PtyInv
  <1>1. /\ sup = "fd" /\ sup' = "replay" /\ slot = NoClient /\ Empty(conn[serving])
        /\ UNCHANGED <<slot, written, relayed, scroll, exited, path, queue, conn, stalled, serving>>
    BY <1>0 DEF Pty!SendResizeFd, Served
  <1>2. PICK n \in Nat : n = relayed - scroll + 1 /\ relayed \in Nat /\ scroll \in Nat \ {0} /\ relayed <= Chunks
    BY <1>0 DEF ScrollKept, Pty!TypeOK, Pty!AttachAssumption
  <1>3. replay' = [i \in 1..n |-> scroll + i - 1]
    BY <1>1, <1>2 DEF Pty!SendResizeFd
  <1>4. /\ replay' \in Seq(1..Chunks) /\ Len(replay') = n
        /\ \A k \in 1..n : replay'[k] = scroll + k - 1
    <2>1. \A k \in 1..n : scroll + k - 1 \in 1..Chunks
      BY <1>2 DEF Pty!AttachAssumption
    <2>2. replay' \in [1..n -> 1..Chunks]
      BY <1>3, <2>1
    <2>3. replay' \in Seq(1..Chunks) /\ Len(replay') = n
      BY <2>2, FunctionIsSeq
    <2> QED  BY <1>3, <2>3
  <1>5. RunsTo(replay', relayed)
    <2>1. \A k \in 1..n : scroll + k - 1 = relayed - n + k
      BY <1>2
    <2> QED  BY <1>4, <2>1 DEF RunsTo
  <1>6. Pty!TypeOK'
    BY <1>0, <1>1, <1>4 DEF Pty!TypeOK, Pty!Sup
  <1>7. ScrollKept' /\ Served' /\ Started' /\ OneRun' /\ SlotUpToDate'
    BY <1>0, <1>1 DEF ScrollKept, Served, Started, OneRun, SlotUpToDate
  <1>8. Queued'
    BY <1>0, <1>1 DEF Queued
  <1>9. ReplayUpToDate'
    <2>1. relayed - Len(replay') \in Int
      BY <1>2, <1>4
    <2>2. GivenTo(conn[serving], relayed - Len(replay'))
      BY <1>1, <2>1, EmptyGiven
    <2>3. replay' = <<>> => relayed = 0
      <3>1. replay' = <<>> => n = 0
        BY <1>4
      <3> QED  BY <1>0, <1>2, <3>1 DEF ScrollKept
    <2> QED  BY <1>1, <1>5, <2>2, <2>3 DEF ReplayUpToDate
  <1> QED  BY <1>6, <1>7, <1>8, <1>9 DEF PtyInv

LEMMA WriteReplayKeeps == ASSUME Pty!AttachAssumption, PtyInv, Pty!WriteReplay PROVE PtyInv'
  <1>0. /\ Pty!TypeOK
        /\ ScrollKept
        /\ Served
        /\ Queued
        /\ Started
        /\ OneRun
        /\ SlotUpToDate
        /\ ReplayUpToDate
    BY DEF PtyInv
  <1>1. /\ /\ sup = "replay"
        /\ slot = NoClient
        /\ serving \in Pty!Clients
        /\ relayed \in Int
        /\ replay # <<>>
        /\ replay \in Seq(1..Chunks)
        /\ UNCHANGED <<sup, slot, written, relayed, scroll, exited, path, queue, serving, stalled>>
    BY <1>0 DEF Pty!WriteReplay, Pty!TypeOK, Served
  <1>2. CASE conn[serving].sock = "left" /\ replay' = <<>> /\ conn' = conn
    <2>1. Pty!TypeOK'
      BY <1>0, <1>1, <1>2 DEF Pty!TypeOK
    <2>2. ScrollKept' /\ Served' /\ Started' /\ OneRun' /\ SlotUpToDate'
      BY <1>0, <1>1, <1>2 DEF ScrollKept, Served, Started, OneRun, SlotUpToDate
    <2>3. Queued'
      BY <1>0, <1>1, <1>2 DEF Queued
    <2>4. ReplayUpToDate'
      BY <1>1, <1>2, EmptyRuns DEF ReplayUpToDate
    <2> QED  BY <2>1, <2>2, <2>3, <2>4 DEF PtyInv
  <1>3. CASE conn[serving].sock = "open" /\ PutInto(serving, Head(replay)) /\ replay' = Tail(replay)
    <2>1. /\ Head(replay) \in 1..Chunks /\ Len(replay) \in Nat /\ replay' \in Seq(1..Chunks)
          /\ Head(replay) = (relayed - Len(replay)) + 1 /\ Len(replay') = Len(replay) - 1
          /\ RunsTo(replay', relayed)
      <3>1. Head(replay) \in 1..Chunks /\ Len(replay) \in Nat /\ Tail(replay) \in Seq(1..Chunks)
        BY <1>1, HeadTyped
      <3>2. RunsTo(replay, relayed)
        BY <1>0, <1>1 DEF ReplayUpToDate
      <3> QED  BY <1>1, <1>3, <3>1, <3>2, RunShrinks
    <2>2. /\ conn' \in [Pty!Clients -> Side] /\ \A e \in Pty!Clients : e # serving => conn'[e] = conn[e]
          /\ conn'[serving].pc = conn[serving].pc /\ conn'[serving].sock = conn[serving].sock
          /\ conn'[serving].buf = Append(conn[serving].buf, Head(replay))
          /\ conn'[serving].seen = conn[serving].seen
      BY <1>0, <1>1, <1>3, <2>1, PutIntoGives
    <2>3. GivenTo(conn'[serving], relayed - Len(replay')) /\ ~Empty(conn'[serving])
          /\ relayed - Len(replay') \in Int
      <3>1. PICK hi \in Int : hi = relayed - Len(replay)
        BY <1>1, <2>1
      <3>2. GivenTo(conn[serving], hi) /\ Head(replay) = hi + 1
        BY <1>0, <1>1, <1>3, <2>1, <3>1 DEF ReplayUpToDate
      <3>3. conn[serving] \in Side /\ conn'[serving] \in Side
        BY <1>0, <1>1, <2>2, SideTyped
      <3>4. GivenTo(conn'[serving], hi + 1) /\ ~Empty(conn'[serving])
        BY <2>1, <2>2, <3>2, <3>3, GivenNext
      <3>5. relayed - Len(replay') = hi + 1
        BY <1>1, <2>1, <3>1
      <3> QED  BY <3>4, <3>5
    <2>4. Pty!TypeOK'
      BY <1>0, <1>1, <2>1, <2>2 DEF Pty!TypeOK, Side, Steps, Socks, Acks
    <2>5. ScrollKept' /\ Served' /\ SlotUpToDate'
      BY <1>0, <1>1, <2>2 DEF ScrollKept, Served, SlotUpToDate
    <2>6. Started'
      BY <1>0, <1>1, <2>2 DEF Started, Served
    <2>7. OneRun'
      BY <1>0, <2>2, <2>3 DEF OneRun
    <2>8. Queued'
      BY <1>0, <1>1, <2>2 DEF Queued
    <2>9. ReplayUpToDate'
      BY <1>1, <2>1, <2>3 DEF ReplayUpToDate
    <2> QED  BY <2>4, <2>5, <2>6, <2>7, <2>8, <2>9 DEF PtyInv
  <1> QED  BY <1>2, <1>3 DEF Pty!WriteReplay, PutInto

LEMMA TakeSlotKeeps == ASSUME Pty!AttachAssumption, PtyInv, Pty!TakeSlot PROVE PtyInv'
  <1>0. /\ Pty!TypeOK
        /\ ScrollKept
        /\ Served
        /\ Queued
        /\ Started
        /\ OneRun
        /\ SlotUpToDate
        /\ ReplayUpToDate
    BY DEF PtyInv
  <1>1. /\ /\ sup = "replay"
        /\ replay = <<>>
        /\ slot' = serving
        /\ serving' = NoClient
        /\ sup' = "poll"
        /\ serving \in Attachers /\ serving \in Pty!Clients /\ relayed \in Int
        /\ UNCHANGED <<written, relayed, scroll, exited, path, queue, replay, conn, stalled>>
    BY <1>0 DEF Pty!TakeSlot, Served, Pty!TypeOK, Pty!Clients
  <1>2. Pty!TypeOK'
    BY <1>0, <1>1 DEF Pty!TypeOK, Pty!Sup, Pty!Viewers
  <1>3. ScrollKept' /\ Served' /\ Started' /\ OneRun' /\ ReplayUpToDate'
    BY <1>0, <1>1 DEF ScrollKept, Served, Started, OneRun, ReplayUpToDate
  <1>4. Queued'
    BY <1>0, <1>1 DEF Queued
  <1>5. SlotUpToDate'
    <2>1. relayed - Len(replay) = relayed
      BY <1>1
    <2> QED  BY <1>0, <1>1, <2>1 DEF SlotUpToDate, UpToDate, ReplayUpToDate
  <1> QED  BY <1>2, <1>3, <1>4, <1>5 DEF PtyInv

-----------------------------------------------------------------------------
\* The clients.

LEMMA ConnectQueues ==
  ASSUME Pty!AttachAssumption, PtyInv, NEW c \in Pty!Clients, Pty!Connect(c), path
  PROVE  PtyInv'
  <1>0. /\ Pty!TypeOK
        /\ ScrollKept
        /\ Served
        /\ Queued
        /\ Started
        /\ OneRun
        /\ SlotUpToDate
        /\ ReplayUpToDate
    BY DEF PtyInv
  <1>1. /\ conn[c].pc = "idle" /\ queue' = Append(queue, c)
        /\ UNCHANGED <<sup, slot, written, relayed, scroll, exited, path, serving, replay, stalled>>
    BY DEF Pty!Connect, Pty!SupSame, Pty!Runs
  <1>2. Empty(conn[c]) /\ c # slot /\ (sup \in {"request", "fd", "replay"} => c # serving)
    BY <1>0, <1>1 DEF Started, Served, Pty!TypeOK, Pty!AttachAssumption, Pty!Clients
  <1>3. \A k \in 1..Len(queue) : queue[k] # c
    BY <1>0, <1>1 DEF Queued
  <1>4. /\ conn' \in [Pty!Clients -> Side] /\ \A e \in Pty!Clients : e # c => conn'[e] = conn[e]
        /\ conn'[c].pc = "connected" /\ conn'[c].sock = "queued" /\ Empty(conn'[c])
    <2>1. conn[c] \in Side /\ conn \in [Pty!Clients -> Side]
      BY <1>0, SideTyped
    <2>2. PICK r : r = [conn[c] EXCEPT !.pc = "connected"]
      OBVIOUS
    <2>3. r \in Side /\ r.buf = conn[c].buf /\ r.seen = conn[c].seen /\ r.pc = "connected"
      BY <2>1, <2>2, PcSet DEF Steps
    <2>4. PICK s : s = [r EXCEPT !.sock = "queued"]
      OBVIOUS
    <2>5. s \in Side /\ s.buf = r.buf /\ s.seen = r.seen /\ s.pc = r.pc /\ s.sock = "queued"
      BY <2>3, <2>4, SockSet DEF Socks
    <2>6. conn' = [conn EXCEPT ![c] = s]
      BY <2>1, <2>2, <2>4 DEF Pty!Connect
    <2> QED  BY <1>2, <2>1, <2>3, <2>5, <2>6, OneSet DEF Empty
  <1>5. /\ queue' \in Seq(Pty!Clients) /\ Len(queue) \in Nat /\ Len(queue') = Len(queue) + 1
        /\ queue'[Len(queue) + 1] = c /\ \A k \in 1..Len(queue) : queue'[k] = queue[k]
    <2>1. queue \in Seq(Pty!Clients)
      BY <1>0 DEF Pty!TypeOK
    <2> QED  BY <1>1, <2>1
  <1>6. \A k \in 1..Len(queue') : k \in 1..Len(queue) \/ k = Len(queue) + 1
    BY <1>5
  <1>7. Pty!TypeOK'
    BY <1>0, <1>1, <1>4, <1>5 DEF Pty!TypeOK, Side, Steps, Socks, Acks
  <1>8. ScrollKept'
    BY <1>0, <1>1 DEF ScrollKept
  <1>9. Served' /\ Started'
    <2>1. slot # NoClient => slot \in Pty!Clients
      BY <1>0 DEF Pty!TypeOK, Pty!Viewers, Pty!Clients
    <2> QED  BY <1>0, <1>1, <1>2, <1>4, <2>1 DEF Served, Started
  <1>10. OneRun'
    <2>1. 0 \in Int /\ GivenTo(conn'[c], 0)
      BY <1>4, EmptyGiven
    <2> QED  BY <1>0, <1>4, <2>1 DEF OneRun
  <1>11. SlotUpToDate' /\ ReplayUpToDate'
    <2>1. slot # NoClient => slot \in Pty!Clients /\ conn'[slot] = conn[slot]
      BY <1>0, <1>2, <1>4 DEF Pty!TypeOK, Pty!Viewers, Pty!Clients
    <2>2. sup = "replay" => conn'[serving] = conn[serving]
      BY <1>0, <1>2, <1>4 DEF Served
    <2> QED  BY <1>0, <1>1, <2>1, <2>2 DEF SlotUpToDate, ReplayUpToDate
  <1>12. Queued'
    <2>1. ASSUME NEW k \in 1..Len(queue')
          PROVE  /\ queue'[k] \in Pty!Clients /\ conn'[queue'[k]].pc # "idle" /\ Empty(conn'[queue'[k]])
                 /\ queue'[k] # slot' /\ (sup' \in {"request", "fd", "replay"} => queue'[k] # serving')
      <3>1. CASE k \in 1..Len(queue)
        <4>1. queue'[k] = queue[k] /\ queue[k] # c /\ queue[k] \in Pty!Clients
          BY <1>0, <1>3, <1>5, <3>1 DEF Queued
        <4> QED  BY <1>0, <1>1, <1>4, <3>1, <4>1 DEF Queued
      <3>2. CASE k = Len(queue) + 1
        BY <1>1, <1>2, <1>4, <1>5, <3>2
      <3> QED  BY <1>6, <3>1, <3>2
    <2>2. ASSUME NEW k \in 1..Len(queue'), NEW j \in 1..Len(queue'), queue'[j] = queue'[k]
          PROVE  j = k
      <3>1. CASE k \in 1..Len(queue) /\ j \in 1..Len(queue)
        BY <1>0, <1>5, <2>2, <3>1 DEF Queued
      <3>2. CASE k = Len(queue) + 1 \/ j = Len(queue) + 1
        BY <1>3, <1>5, <1>6, <2>2, <3>2
      <3> QED  BY <1>6, <3>1, <3>2
    <2> QED  BY <2>1, <2>2 DEF Queued
  <1> QED  BY <1>7, <1>8, <1>9, <1>10, <1>11, <1>12 DEF PtyInv

\* Client c moves on; the supervisor's state is as it was.
LEMMA ClientMoves ==
  ASSUME Pty!AttachAssumption, PtyInv, NEW c \in Pty!Clients, NEW s \in Side, Keeps(conn[c], s),
         conn' = [conn EXCEPT ![c] = s], Pty!SupSame, queue' = queue,
         stalled' \subseteq Pty!Clients
  PROVE  PtyInv'
  <1>1. Pty!TypeOK /\ conn \in [Pty!Clients -> Side]
    BY SideTyped DEF PtyInv
  <1>2. conn' \in [Pty!Clients -> Side] /\ conn'[c] = s /\ \A e \in Pty!Clients : e # c => conn'[e] = conn[e]
    BY <1>1, OneSet
  <1>3. \A e \in Pty!Clients : Keeps(conn[e], conn'[e])
    <2>1. \A r : Keeps(r, r)
      BY DEF Keeps
    <2> QED  BY <1>2, <2>1
  <1>4. written \in relayed..Chunks /\ exited \in BOOLEAN /\ path \in BOOLEAN
    BY <1>1 DEF Pty!TypeOK, Pty!AttachAssumption
  <1> QED  BY <1>2, <1>3, <1>4, OutputsKept DEF Pty!SupSame

LEMMA ClientKeeps ==
  ASSUME Pty!AttachAssumption, PtyInv, NEW c \in Pty!Clients,
         Pty!Connect(c) \/ Pty!ClientStep(c) \/ Pty!Leave(c) \/ Pty!Stall(c) \/ Pty!Resume(c)
  PROVE  PtyInv'
  <1>0. /\ Pty!TypeOK
        /\ conn \in [Pty!Clients -> Side]
        /\ conn[c] \in Side
        /\ stalled \subseteq Pty!Clients
    BY SideTyped DEF PtyInv, Pty!TypeOK
  <1>e. PICK nothing \in Seq(1..Chunks) : nothing = <<>>
    <2>1. <<>> \in Seq(1..Chunks)
      OBVIOUS
    <2> QED  BY <2>1, Zenon
  <1>1. CASE Pty!Connect(c) /\ path
    BY <1>1, ConnectQueues
  <1>2. CASE Pty!Connect(c) /\ ~path
    <2>1. conn[c].pc = "idle" /\ Pty!SupSame /\ queue' = queue /\ stalled' = stalled
      BY <1>2 DEF Pty!Connect, Pty!Runs
    <2>2. PICK x \in Steps : x = IF c \in Attachers /\ ~conn[c].retried THEN "idle" ELSE "gone"
      BY DEF Steps
    <2>3. PICK r : r = [conn[c] EXCEPT !.pc = x]
      OBVIOUS
    <2>4. /\ r \in Side
          /\ r.buf = conn[c].buf
          /\ r.seen = conn[c].seen
          /\ r.pc = x
          /\ r.sock = conn[c].sock
      BY <1>0, <2>3, PcSet
    <2>5. PICK s : s = [r EXCEPT !.retried = TRUE]
      OBVIOUS
    <2>6. s \in Side /\ Quiet(r, s)
      BY <2>4, <2>5, RetriedSet
    <2>7. conn' = [conn EXCEPT ![c] = s]
      BY <1>0, <1>2, <2>2, <2>3, <2>5 DEF Pty!Connect
    <2>8. Keeps(conn[c], s)
      BY <2>1, <2>4, <2>6, QuietKeeps DEF Quiet
    <2> QED  BY <1>0, <2>1, <2>6, <2>7, <2>8, ClientMoves
  <1>3. CASE Pty!SendRequest(c)
    <2>1. Pty!SupSame /\ queue' = queue /\ stalled' = stalled
      BY <1>3 DEF Pty!SendRequest
    <2>2. PICK x \in {"gone", "wait"} : x = IF conn[c].sock = "shut" THEN "gone" ELSE "wait"
      OBVIOUS
    <2>3. PICK r : r = [conn[c] EXCEPT !.pc = x]
      OBVIOUS
    <2>4. /\ r \in Side
          /\ r.buf = conn[c].buf
          /\ r.seen = conn[c].seen
          /\ r.pc = x
          /\ r.sock = conn[c].sock
      BY <1>0, <2>3, PcSet DEF Steps
    <2>5. PICK s : s = IF conn[c].sock = "shut" THEN r ELSE [r EXCEPT !.sent = TRUE]
      OBVIOUS
    <2>6. s \in Side /\ Quiet(r, s)
      <3>1. Quiet(r, r)
        BY DEF Quiet
      <3> QED  BY <2>4, <2>5, <3>1, SentSet
    <2>7. conn' = [conn EXCEPT ![c] = s]
      BY <1>0, <1>3, <2>2, <2>3, <2>5 DEF Pty!SendRequest
    <2>8. Keeps(conn[c], s)
      BY <2>2, <2>4, <2>6, QuietKeeps DEF Quiet
    <2> QED  BY <1>0, <2>1, <2>6, <2>7, <2>8, ClientMoves
  <1>4. CASE Pty!ReadAck(c)
    <2>1. Pty!SupSame /\ queue' = queue /\ stalled' = stalled
      BY <1>4 DEF Pty!ReadAck
    <2>2. Pty!Outcome(c) \in Steps \ {"idle"}
      <3>1. conn[c].ack \in Acks
        BY <1>0 DEF Side
      <3> QED  BY <3>1 DEF Pty!Outcome, Acks, Steps
    <2>3. PICK s : s = [conn[c] EXCEPT !.pc = Pty!Outcome(c)]
      OBVIOUS
    <2>4. /\ s \in Side
          /\ s.buf = conn[c].buf
          /\ s.seen = conn[c].seen
          /\ s.pc # "idle"
          /\ s.sock = conn[c].sock
      BY <1>0, <2>2, <2>3, PcSet
    <2>5. conn' = [conn EXCEPT ![c] = s]
      BY <1>0, <1>4, <2>3 DEF Pty!ReadAck
    <2>6. Keeps(conn[c], s)
      BY <2>4, QuietKeeps
    <2> QED  BY <1>0, <2>1, <2>4, <2>5, <2>6, ClientMoves
  <1>5. CASE Pty!AckTimeout(c)
    <2>1. Pty!SupSame /\ queue' = queue /\ stalled' = stalled
      BY <1>5 DEF Pty!AckTimeout
    <2>2. PICK r : r = [conn[c] EXCEPT !.pc = "failed"]
      OBVIOUS
    <2>3. r \in Side /\ r.buf = conn[c].buf /\ r.seen = conn[c].seen /\ r.pc = "failed"
      BY <1>0, <2>2, PcSet DEF Steps
    <2>4. PICK s : s = [r EXCEPT !.sock = "left"]
      OBVIOUS
    <2>5. s \in Side /\ s.buf = r.buf /\ s.seen = r.seen /\ s.pc = r.pc /\ s.sock = "left"
      BY <2>3, <2>4, SockSet DEF Socks
    <2>6. conn' = [conn EXCEPT ![c] = s]
      BY <1>0, <1>5, <2>2, <2>4 DEF Pty!AckTimeout
    <2>7. Keeps(conn[c], s)
      BY <2>3, <2>5, QuietKeeps
    <2> QED  BY <1>0, <2>1, <2>5, <2>6, <2>7, ClientMoves
  <1>6. CASE Pty!ReadOutput(c)
    <2>1. Pty!SupSame /\ queue' = queue /\ stalled' = stalled /\ conn[c].buf # <<>>
      BY <1>6 DEF Pty!ReadOutput
    <2>2. PICK b \in Seq(1..Chunks) : b = Tail(conn[c].buf)
      <3>1. conn[c].buf \in Seq(1..Chunks)
        BY <1>0 DEF Side
      <3>2. Tail(conn[c].buf) \in Seq(1..Chunks)
        BY <2>1, <3>1, HeadTyped
      <3> QED  BY <3>2, Zenon
    <2>3. PICK q \in Seq(1..Chunks) : q = Append(conn[c].seen, Head(conn[c].buf))
      <3>1. conn[c].buf \in Seq(1..Chunks) /\ conn[c].seen \in Seq(1..Chunks)
        BY <1>0 DEF Side
      <3>2. Head(conn[c].buf) \in 1..Chunks
        BY <2>1, <3>1, HeadTyped
      <3>3. Append(conn[c].seen, Head(conn[c].buf)) \in Seq(1..Chunks)
        BY <3>1, <3>2, AppendTyped
      <3> QED  BY <3>3, Zenon
    <2>4. PICK r : r = [conn[c] EXCEPT !.buf = b]
      OBVIOUS
    <2>5. /\ r \in Side
          /\ r.buf = b
          /\ r.seen = conn[c].seen
          /\ r.pc = conn[c].pc
          /\ r.sock = conn[c].sock
      BY <1>0, <2>4, BufSet
    <2>6. PICK s : s = [r EXCEPT !.seen = q]
      OBVIOUS
    <2>7. s \in Side /\ s.buf = r.buf /\ s.seen = q /\ s.pc = r.pc /\ s.sock = r.sock
      BY <2>5, <2>6, SeenSet
    <2>8. conn' = [conn EXCEPT ![c] = s]
      <3>1. conn' = [conn EXCEPT ![c].buf = b, ![c].seen = q]
        BY <1>0, <1>6, <2>2, <2>3 DEF Pty!ReadOutput
      <3> QED  BY <1>0, <2>4, <2>6, <3>1
    <2>9. Keeps(conn[c], s)
      BY <1>0, <2>1, <2>2, <2>3, <2>5, <2>7, ReadKeeps
    <2> QED  BY <1>0, <2>1, <2>7, <2>8, <2>9, ClientMoves
  <1>7. CASE Pty!SeeClosed(c)
    <2>1. /\ Pty!SupSame
          /\ queue' = queue
          /\ stalled' = stalled
          /\ conn[c].buf = <<>>
          /\ conn[c].sock = "shut"
      BY <1>7 DEF Pty!SeeClosed
    <2>2. PICK r : r = [conn[c] EXCEPT !.pc = "ended"]
      OBVIOUS
    <2>3. /\ r \in Side
          /\ r.buf = conn[c].buf
          /\ r.seen = conn[c].seen
          /\ r.pc = "ended"
          /\ r.sock = conn[c].sock
      BY <1>0, <2>2, PcSet DEF Steps
    <2>4. PICK s : s = [r EXCEPT !.seen = nothing]
      OBVIOUS
    <2>5. s \in Side /\ s.buf = r.buf /\ s.seen = nothing /\ s.pc = r.pc /\ s.sock = r.sock
      BY <2>3, <2>4, SeenSet
    <2>6. conn' = [conn EXCEPT ![c] = s]
      BY <1>0, <1>e, <1>7, <2>2, <2>4 DEF Pty!SeeClosed
    <2>7. Keeps(conn[c], s)
      BY <1>e, <2>1, <2>3, <2>5, EmptiedKeeps DEF Empty
    <2> QED  BY <1>0, <2>1, <2>5, <2>6, <2>7, ClientMoves
  <1>8. CASE Pty!Leave(c)
    <2>1. Pty!SupSame /\ queue' = queue /\ stalled' = stalled \ {c}
      BY <1>8 DEF Pty!Leave
    <2>2. PICK r : r = [conn[c] EXCEPT !.pc = "ended"]
      OBVIOUS
    <2>3. r \in Side /\ r.pc = "ended"
      BY <1>0, <2>2, PcSet DEF Steps
    <2>4. PICK u : u = [r EXCEPT !.sock = "left"]
      OBVIOUS
    <2>5. u \in Side /\ u.pc = r.pc /\ u.sock = "left"
      BY <2>3, <2>4, SockSet DEF Socks
    <2>6. PICK v : v = [u EXCEPT !.buf = nothing]
      OBVIOUS
    <2>7. v \in Side /\ v.pc = u.pc /\ v.sock = u.sock /\ v.buf = nothing
      BY <2>5, <2>6, BufSet
    <2>8. PICK s : s = [v EXCEPT !.seen = nothing]
      OBVIOUS
    <2>9. s \in Side /\ s.pc = v.pc /\ s.sock = v.sock /\ s.buf = v.buf /\ s.seen = nothing
      BY <2>7, <2>8, SeenSet
    <2>10. conn' = [conn EXCEPT ![c] = s]
      BY <1>0, <1>e, <1>8, <2>2, <2>4, <2>6, <2>8 DEF Pty!Leave
    <2>11. Keeps(conn[c], s)
      BY <1>e, <2>3, <2>5, <2>7, <2>9, EmptiedKeeps DEF Empty
    <2> QED  BY <1>0, <2>1, <2>9, <2>10, <2>11, ClientMoves
  <1>9. CASE Pty!Stall(c) \/ Pty!Resume(c)
    <2>1. Pty!SupSame /\ queue' = queue /\ conn' = conn /\ stalled' \subseteq Pty!Clients
      BY <1>0, <1>9 DEF Pty!Stall, Pty!Resume
    <2>2. conn' = [conn EXCEPT ![c] = conn[c]] /\ Keeps(conn[c], conn[c])
      BY <1>0, <2>1 DEF Keeps
    <2> QED  BY <1>0, <2>1, <2>2, ClientMoves
  <1> QED  BY <1>1, <1>2, <1>3, <1>4, <1>5, <1>6, <1>7, <1>8, <1>9 DEF Pty!ClientStep

-----------------------------------------------------------------------------
\* The supervisor and the child.

LEMMA QuietStepKeeps ==
  ASSUME Pty!AttachAssumption, PtyInv,
         \/ Pty!SeeClientLeave \/ Pty!DetachRequested \/ Pty!NoRequest \/ Pty!Busy \/ Pty!ServeDetach \/ Pty!Acknowledge
         \/ (Pty!SendResizeFd /\ conn[serving].sock = "left") \/ Pty!ShutdownListener \/ Pty!DropProxy
         \/ Pty!Write \/ Pty!ChildExits
  PROVE  PtyInv'
  <1>0. /\ /\ Pty!TypeOK
        /\ Served
        /\ conn \in [Pty!Clients -> Side]
        /\ stalled \subseteq Pty!Clients
        /\ written \in relayed..Chunks /\ exited \in BOOLEAN /\ path \in BOOLEAN
    BY SideTyped DEF PtyInv, Pty!TypeOK, Pty!AttachAssumption
  <1>1. \A e \in Pty!Clients : Keeps(conn[e], conn[e])
    BY DEF Keeps
  <1>2. CASE Pty!SeeClientLeave
    BY <1>0, <1>1, <1>2, OutputsKept DEF Pty!SeeClientLeave
  <1>3. CASE Pty!DetachRequested
    <2>1. conn' \in [Pty!Clients -> Side] /\ \A e \in Pty!Clients : Keeps(conn[e], conn'[e])
      BY <1>0, <1>3, DetachedQuiet, QuietKeepsAll DEF Pty!DetachRequested
    <2> QED  BY <1>0, <1>3, <2>1, OutputsKept DEF Pty!DetachRequested
  <1>4. ASSUME NEW a \in Acks, Pty!Answer(a), sup = "request"
        PROVE  conn' \in [Pty!Clients -> Side] /\ \A e \in Pty!Clients : Keeps(conn[e], conn'[e])
    <2>1. PICK f : f = Pty!Closed(serving)
      OBVIOUS
    <2>2. serving \in Pty!Clients /\ f \in [Pty!Clients -> Side] /\ \A e \in Pty!Clients : Quiet(conn[e], f[e])
      BY <1>0, <1>4, <2>1, ClosedQuiet DEF Served
    <2>3. PICK s : s = [f[serving] EXCEPT !.ack = a]
      OBVIOUS
    <2>4. s \in Side /\ Quiet(f[serving], s)
      BY <2>2, <2>3, AckSet
    <2>5. conn' = [f EXCEPT ![serving] = s]
      BY <1>4, <2>1, <2>2, <2>3 DEF Pty!Answer
    <2>6. conn' \in [Pty!Clients -> Side] /\ \A e \in Pty!Clients : Quiet(f[e], conn'[e])
      BY <2>2, <2>4, <2>5, QuietSet
    <2>7. \A e \in Pty!Clients : Quiet(conn[e], conn'[e])
      BY <2>2, <2>6 DEF Quiet
    <2> QED  BY <2>6, <2>7, QuietKeepsAll
  <1>5. CASE Pty!NoRequest
    <2>1. conn' \in [Pty!Clients -> Side] /\ \A e \in Pty!Clients : Keeps(conn[e], conn'[e])
      BY <1>4, <1>5 DEF Pty!NoRequest, Acks
    <2> QED  BY <1>0, <1>5, <2>1, OutputsKept DEF Pty!NoRequest, Pty!Answer
  <1>6. CASE Pty!Busy
    <2>1. conn' \in [Pty!Clients -> Side] /\ \A e \in Pty!Clients : Keeps(conn[e], conn'[e])
      BY <1>4, <1>6 DEF Pty!Busy, Acks
    <2> QED  BY <1>0, <1>6, <2>1, OutputsKept DEF Pty!Busy, Pty!Answer
  <1>7. CASE Pty!ServeDetach
    <2>1. PICK f : f = Pty!Detached
      OBVIOUS
    <2>2. serving \in Pty!Clients /\ f \in [Pty!Clients -> Side] /\ \A e \in Pty!Clients : Quiet(conn[e], f[e])
      BY <1>0, <1>7, <2>1, DetachedQuiet DEF Served, Pty!ServeDetach
    <2>3. PICK r : r = [f[serving] EXCEPT !.ack = "OK"]
      OBVIOUS
    <2>4. r \in Side /\ Quiet(f[serving], r) /\ r.sock = f[serving].sock
      BY <2>2, <2>3, AckSet DEF Acks
    <2>5. PICK x \in Socks : x = IF r.sock = "open" THEN "shut" ELSE r.sock
      BY <2>4 DEF Side, Socks
    <2>6. PICK s : s = [r EXCEPT !.sock = x]
      OBVIOUS
    <2>7. s \in Side /\ s.buf = r.buf /\ s.seen = r.seen /\ s.pc = r.pc /\ s.sock = x
      BY <2>4, <2>5, <2>6, SockSet
    <2>8. conn' = [f EXCEPT ![serving] = s]
      <3>1. conn' = [f EXCEPT ![serving].ack = "OK", ![serving].sock = IF @ = "open" THEN "shut" ELSE @]
        BY <1>7, <2>1 DEF Pty!ServeDetach
      <3> QED  BY <2>2, <2>3, <2>4, <2>5, <2>6, <3>1
    <2>9. Quiet(f[serving], s)
      BY <2>4, <2>5, <2>7 DEF Quiet
    <2>10. conn' \in [Pty!Clients -> Side] /\ \A e \in Pty!Clients : Quiet(f[e], conn'[e])
      BY <2>2, <2>7, <2>8, <2>9, QuietSet
    <2>11. \A e \in Pty!Clients : Quiet(conn[e], conn'[e])
      BY <2>2, <2>10 DEF Quiet
    <2>12. \A e \in Pty!Clients : Keeps(conn[e], conn'[e])
      BY <2>11, QuietKeepsAll
    <2> QED  BY <1>0, <1>7, <2>10, <2>12, OutputsKept DEF Pty!ServeDetach
  <1>8. CASE Pty!Acknowledge
    <2>1. sup = "request" /\ serving \in Pty!Clients /\ conn[serving] \in Side
      BY <1>0, <1>8 DEF Pty!Acknowledge, Served
    <2>2. PICK s : s = [conn[serving] EXCEPT !.ack = "OK"]
      OBVIOUS
    <2>3. s \in Side /\ Quiet(conn[serving], s)
      BY <2>1, <2>2, AckSet DEF Acks
    <2>4. conn' = [conn EXCEPT ![serving] = s]
      BY <1>0, <1>8, <2>1, <2>2 DEF Pty!Acknowledge
    <2>5. conn' \in [Pty!Clients -> Side] /\ \A e \in Pty!Clients : Quiet(conn[e], conn'[e])
      BY <1>0, <2>1, <2>3, <2>4, QuietSet
    <2>6. \A e \in Pty!Clients : Keeps(conn[e], conn'[e])
      BY <2>5, QuietKeepsAll
    <2> QED  BY <1>0, <1>8, <2>5, <2>6, OutputsKept DEF Pty!Acknowledge
  <1>9. CASE Pty!SendResizeFd /\ conn[serving].sock = "left"
    BY <1>0, <1>1, <1>9, OutputsKept DEF Pty!SendResizeFd
  <1>10. CASE Pty!ShutdownListener
    <2>1. conn' \in [Pty!Clients -> Side] /\ \A e \in Pty!Clients : Keeps(conn[e], conn'[e])
      <3>1. CASE slot = Terminal
        <4>1. conn' = Pty!Closed(Terminal) /\ Terminal \in Pty!Clients
          BY <1>10, <3>1 DEF Pty!ShutdownListener, Pty!Clients
        <4> QED  BY <1>0, <4>1, ClosedQuiet, QuietKeepsAll
      <3>2. CASE slot # Terminal
        BY <1>0, <1>1, <1>10, <3>2 DEF Pty!ShutdownListener
      <3> QED  BY <3>1, <3>2
    <2> QED  BY <1>0, <1>10, <2>1, OutputsKept DEF Pty!ShutdownListener
  <1>11. CASE Pty!DropProxy
    <2>1. ASSUME NEW c \in Pty!Clients
          PROVE  conn'[c] \in Side /\ Quiet(conn[c], conn'[c])
      <3>1. PICK x \in Socks : x = IF conn[c].sock \in {"open", "queued"} THEN "shut" ELSE conn[c].sock
        BY <1>0 DEF Side, Socks
      <3>2. conn'[c] = [conn[c] EXCEPT !.sock = x]
        BY <1>0, <1>11, <3>1 DEF Pty!DropProxy
      <3>3. conn'[c] \in Side /\ conn'[c].buf = conn[c].buf /\ conn'[c].seen = conn[c].seen
            /\ conn'[c].pc = conn[c].pc /\ conn'[c].sock = x
        BY <1>0, <3>2, SockSet
      <3> QED  BY <3>1, <3>3 DEF Quiet
    <2>2. conn' \in [Pty!Clients -> Side]
      <3>1. conn' = [c \in Pty!Clients |-> conn'[c]]
        BY <1>11 DEF Pty!DropProxy
      <3> QED  BY <2>1, <3>1
    <2>3. \A e \in Pty!Clients : Keeps(conn[e], conn'[e])
      BY <2>1, QuietKeepsAll
    <2> QED  BY <1>0, <1>11, <2>2, <2>3, OutputsKept DEF Pty!DropProxy
  <1>12. CASE Pty!Write
    <2>1. written' \in relayed..Chunks
      BY <1>0, <1>12 DEF Pty!Write, Pty!TypeOK, Pty!AttachAssumption
    <2> QED  BY <1>0, <1>1, <1>12, <2>1, OutputsKept DEF Pty!Write
  <1>13. CASE Pty!ChildExits
    BY <1>0, <1>1, <1>13, OutputsKept DEF Pty!ChildExits
  <1> QED  BY <1>2, <1>3, <1>5, <1>6, <1>7, <1>8, <1>9, <1>10, <1>11, <1>12, <1>13

LEMMA PtyNext == ASSUME Pty!AttachAssumption, PtyInv, [Pty!Next]_(Pty!vars) PROVE PtyInv'
  <1>1. CASE UNCHANGED Pty!vars
    <2>1. Pty!TypeOK /\ conn \in [Pty!Clients -> Side] /\ stalled \subseteq Pty!Clients
          /\ written \in relayed..Chunks /\ exited \in BOOLEAN /\ path \in BOOLEAN
      BY SideTyped DEF PtyInv, Pty!TypeOK, Pty!AttachAssumption
    <2>2. \A e \in Pty!Clients : Keeps(conn[e], conn[e])
      BY DEF Keeps
    <2> QED  BY <1>1, <2>1, <2>2, OutputsKept DEF Pty!vars
  <1>2. CASE Pty!SupervisorStep
    BY <1>2, RelayOutputKeeps, WriteOutputKeeps, AcceptKeeps, ReplayBegins, WriteReplayKeeps,
       TakeSlotKeeps,
       QuietStepKeeps DEF Pty!SupervisorStep
  <1> QED  BY <1>1, <1>2, ClientKeeps, QuietStepKeeps DEF Pty!Next

\* PtyInv is an invariant of the attach socket, whether or not a stalled client
\* ever resumes.
THEOREM PtyInvariant ==
  Pty!AttachAssumption /\ Pty!StallingSpec => [](Pty!AttachAssumption /\ PtyInv)
  <1> DEFINE I == Pty!AttachAssumption /\ PtyInv
  <1>1. Pty!AttachAssumption /\ Pty!Init => I
    BY PtyBegins
  <1>2. I /\ [Pty!Next]_(Pty!vars) => I'
    BY PtyNext DEF Pty!AttachAssumption
  <1> QED  BY <1>1, <1>2, PTL DEF Pty!StallingSpec

LEMMA RunReceived ==
  ASSUME NEW r \in Side, NEW hi \in Int, GivenTo(r, hi)
  PROVE  /\ r.seen \o r.buf \in Seq(1..Chunks) /\ RunsTo(r.seen \o r.buf, hi)
         /\ r.seen \o r.buf = <<>> <=> Empty(r)
  <1>1. r.buf \in Seq(1..Chunks) /\ r.seen \in Seq(1..Chunks)
    BY DEF Side
  <1>2. PICK s \in Seq(1..Chunks), b \in Seq(1..Chunks) : s = r.seen /\ b = r.buf
    BY <1>1, Zenon
  <1>3. RunsTo(b, hi) /\ RunsTo(s, hi - Len(b))
    BY <1>2 DEF GivenTo
  <1>4. PICK got : got = s \o b
    OBVIOUS
  <1>5. /\ /\ got \in Seq(1..Chunks)
        /\ Len(s) \in Nat
        /\ Len(b) \in Nat
        /\ Len(got) = Len(s) + Len(b)
        /\ \A k \in 1..Len(s) : got[k] = s[k]
        /\ \A k \in Len(s) + 1..Len(s) + Len(b) : got[k] = b[k - Len(s)]
    BY <1>4
  <1>6. ASSUME NEW k \in 1..Len(got) PROVE got[k] = hi - Len(got) + k
    <2>1. CASE k \in 1..Len(s)
      <3>1. s[k] = hi - Len(b) - Len(s) + k
        BY <1>3, <2>1 DEF RunsTo
      <3> QED  BY <1>5, <2>1, <3>1
    <2>2. CASE k \in Len(s) + 1..Len(s) + Len(b)
      <3>1. k - Len(s) \in 1..Len(b)
        BY <1>5, <2>2
      <3>2. b[k - Len(s)] = hi - Len(b) + (k - Len(s))
        BY <1>3, <3>1 DEF RunsTo
      <3> QED  BY <1>5, <2>2, <3>2
    <2> QED  BY <1>5, <2>1, <2>2
  <1>7. got = <<>> <=> s = <<>> /\ b = <<>>
    BY <1>5
  <1> QED  BY <1>2, <1>4, <1>5, <1>6, <1>7 DEF RunsTo, Empty

\* Whatever clients attach, stall, leave or are detached, and however short the
\* scrollback: each is given one unbroken stretch of the output, and the one in the
\* slot all of it up to what was relayed.
THEOREM OutputUnbroken == Pty!AttachAssumption /\ Pty!StallingSpec => []UnbrokenOutput
  <1>1. Pty!AttachAssumption /\ PtyInv => Pty!UnbrokenOutput
    <2> SUFFICES ASSUME Pty!AttachAssumption, PtyInv, NEW c \in Pty!Viewers, NEW got, got = Pty!Received(c)
                 PROVE  /\ \A i \in 1..(Len(got) - 1) : got[i + 1] = got[i] + 1
                        /\ c = slot /\ sup # "write" /\ conn[c].sock = "open" =>
                               IF got = <<>> THEN relayed = 0 ELSE Pty!Last(got) = relayed
      BY DEF Pty!UnbrokenOutput
    <2>1. c \in Pty!Clients /\ conn[c] \in Side /\ Pty!TypeOK
      BY SideTyped DEF PtyInv, Pty!Viewers, Pty!Clients
    <2>2. ASSUME NEW hi \in Int, GivenTo(conn[c], hi)
          PROVE  got \in Seq(1..Chunks) /\ RunsTo(got, hi) /\ (got = <<>> <=> Empty(conn[c]))
      BY <2>1, <2>2, RunReceived DEF Pty!Received
    <2>3. ASSUME NEW hi \in Int, GivenTo(conn[c], hi), NEW i \in 1..(Len(got) - 1)
          PROVE  got[i + 1] = got[i] + 1
      <3>1. got \in Seq(1..Chunks) /\ RunsTo(got, hi)
        BY <2>2, <2>3
      <3>2. Len(got) \in Nat
        BY <3>1
      <3>3. i \in 1..Len(got) /\ i + 1 \in 1..Len(got)
        BY <3>2
      <3>4. got[i] = hi - Len(got) + i /\ got[i + 1] = hi - Len(got) + (i + 1)
        BY <3>1, <3>3 DEF RunsTo
      <3> QED  BY <3>2, <3>3, <3>4
    <2>4. \A i \in 1..(Len(got) - 1) : got[i + 1] = got[i] + 1
      BY <2>1, <2>3 DEF PtyInv, OneRun
    <2>5. ASSUME c = slot, sup # "write", conn[c].sock = "open"
          PROVE  IF got = <<>> THEN relayed = 0 ELSE Pty!Last(got) = relayed
      <3>1. slot # NoClient /\ relayed \in Int
        BY <2>1, <2>5 DEF Pty!AttachAssumption, Pty!Clients, Pty!TypeOK
      <3>2. GivenTo(conn[c], relayed) /\ (Empty(conn[c]) => relayed = 0)
        BY <2>5, <3>1 DEF PtyInv, SlotUpToDate, UpToDate
      <3>3. got \in Seq(1..Chunks) /\ RunsTo(got, relayed) /\ (got = <<>> <=> Empty(conn[c]))
        BY <2>2, <3>1, <3>2
      <3>4. ASSUME got # <<>> PROVE Pty!Last(got) = relayed
        <4>1. Len(got) \in Nat /\ Len(got) \in 1..Len(got)
          BY <3>3, <3>4
        <4>2. got[Len(got)] = relayed - Len(got) + Len(got)
          BY <3>3, <4>1 DEF RunsTo
        <4> QED  BY <3>1, <4>1, <4>2 DEF Pty!Last
      <3> QED  BY <3>2, <3>3, <3>4
    <2> QED  BY <2>4, <2>5
  <1>9. Pty!UnbrokenOutput => UnbrokenOutput
    BY DEF UnbrokenOutput
  <1> QED  BY <1>9, <1>1, PtyInvariant, PTL

-----------------------------------------------------------------------------
\* The filter of the detach keys (DetachKeys).

\* What has been typed since the last request ends with the part held back.
EndsInMatch ==
    /\ since + matched <= Len(typed)
    /\ \A j \in 1..matched : typed[Len(typed) - matched + j] = Sequence[j]

\* A streak is either broken or all that is held back.
StreakIsMatch == streak = 0 \/ streak = matched

KeysTyped ==
    /\ Keyboard!KeysAssumption
    /\ at_terminal \in BOOLEAN /\ matched \in 0..(Len(Sequence) - 1)
    /\ forwarded \in Seq(Keys) /\ held \in Seq(Keys) /\ typed \in Seq(Keys)
    /\ requests \in Nat /\ since \in Nat /\ streak \in 0..Len(Sequence)

KeysInv == KeysTyped /\ Keyboard!KeysKept /\ EndsInMatch /\ StreakIsMatch

-----------------------------------------------------------------------------
\* What one event does: what is pressed moves the match on, completes it, or
\* gives everything back, with at most the key itself held again.
MovesOn(k, f) ==
    /\ Keyboard!Press(k, f) /\ f # "cut" /\ k = Sequence[matched + 1] /\ matched + 1 # Len(Sequence)
    /\ matched' = matched + 1 /\ forwarded' = forwarded /\ requests' = requests
Completes(k, f) ==
    /\ Keyboard!Press(k, f) /\ f # "cut" /\ k = Sequence[matched + 1] /\ matched + 1 = Len(Sequence)
    /\ matched' = 0 /\ forwarded' = forwarded /\ requests' = requests + 1
Restarts(k, f) ==
    /\ Keyboard!Press(k, f) /\ f = "raw" /\ matched > 0 /\ k = Sequence[1] /\ k # Sequence[matched + 1]
    /\ matched' = 1 /\ forwarded' = forwarded \o Keyboard!Prefix(matched) /\ requests' = requests
GivesBack(k, f) ==
    /\ Keyboard!Press(k, f) /\ (f = "cut" \/ k # Sequence[matched + 1])
    /\ matched' = 0 /\ forwarded' = Append(forwarded \o Keyboard!Prefix(matched), k) /\ requests' = requests
Ignores(k, f) ==
    /\ ~Keyboard!Press(k, f) /\ (f = "echo" => k \in {Sequence[j] : j \in 1..matched})
    /\ matched' = matched /\ forwarded' = forwarded /\ requests' = requests
Echoes(k, f) ==
    /\ f = "echo" /\ k \notin {Sequence[j] : j \in 1..matched}
    /\ matched' = 0 /\ forwarded' = forwarded \o Keyboard!Prefix(matched) /\ requests' = requests

LEMMA PrefixType ==
  ASSUME KeysTyped
  PROVE  /\ Keyboard!Prefix(matched) \in Seq(Keys) /\ Len(Keyboard!Prefix(matched)) = matched
         /\ \A j \in 1..matched : Keyboard!Prefix(matched)[j] = Sequence[j]
         /\ matched \in Nat /\ Len(Sequence) \in Nat /\ Len(Sequence) >= 2
         /\ \A j \in 1..Len(Sequence) : Sequence[j] \in Keys /\ Sequence[j] # Suspend
  <1>1. /\ matched \in Nat /\ Len(Sequence) \in Nat /\ Len(Sequence) >= 2
        /\ Sequence \in Seq(Keys) /\ matched <= Len(Sequence)
    BY DEF KeysTyped, Keyboard!KeysAssumption
  <1>2. /\ Keyboard!Prefix(matched) \in Seq(Keys) /\ Len(Keyboard!Prefix(matched)) = matched
        /\ \A j \in 1..matched : Keyboard!Prefix(matched)[j] = Sequence[j]
    BY <1>1 DEF Keyboard!Prefix
  <1>3. \A j \in 1..Len(Sequence) : Sequence[j] \in Keys /\ Sequence[j] # Suspend
    BY <1>1 DEF KeysTyped, Keyboard!KeysAssumption, Keyboard!ToSet
  <1> QED  BY <1>1, <1>2, <1>3

LEMMA FilterCases ==
  ASSUME KeysTyped, NEW k \in Keys, NEW f \in Forms, Keyboard!Filter(k, f)
  PROVE  \/ MovesOn(k, f) \/ Completes(k, f) \/ Restarts(k, f)
         \/ GivesBack(k, f) \/ Ignores(k, f) \/ Echoes(k, f)
  <1>0. f \in {"raw", "csi", "echo", "cut"}
    BY DEF KeysTyped, Keyboard!KeysAssumption, Keyboard!AllForms
  <1>p. /\ Keyboard!Prefix(matched) \in Seq(Keys) /\ forwarded \in Seq(Keys) /\ forwarded \o Keyboard!Prefix(matched) \in Seq(Keys)
    BY PrefixType DEF KeysTyped
  <1>a. Keyboard!Advance /\ Keyboard!Press(k, f) /\ f # "cut" /\ k = Sequence[matched + 1]
            => MovesOn(k, f) \/ Completes(k, f)
    BY DEF Keyboard!Advance, MovesOn, Completes
  <1>b. ASSUME Keyboard!Flush(k, f), f # "echo"
        PROVE  matched' = 0 /\ forwarded' = Append(forwarded \o Keyboard!Prefix(matched), k) /\ requests' = requests
    <2>1. forwarded' = forwarded \o Keyboard!Prefix(matched) \o <<k>>
      BY <1>b DEF Keyboard!Flush, Keyboard!Passed
    <2>2. \A s \in Seq(Keys) : s \o <<k>> = Append(s, k)
      OBVIOUS
    <2> QED  BY <1>b, <1>p, <2>1, <2>2 DEF Keyboard!Flush
  <1>1. CASE f = "raw"
    <2>1. Keyboard!RawKey(k)
      BY <1>1 DEF Keyboard!Filter
    <2>2. CASE at_terminal /\ k = Suspend
      BY <1>1, <2>1, <2>2 DEF Keyboard!RawKey, Keyboard!Swallow, Ignores, Keyboard!Press
    <2>3. CASE ~(at_terminal /\ k = Suspend) /\ k = Sequence[matched + 1]
      <3>1. Keyboard!Advance /\ Keyboard!Press(k, f)
        BY <1>1, <2>1, <2>3 DEF Keyboard!RawKey, Keyboard!Press
      <3> QED  BY <1>1, <1>a, <2>3, <3>1
    <2>4. CASE ~(at_terminal /\ k = Suspend) /\ k # Sequence[matched + 1]
      <3>1. /\ requests' = requests
            /\ IF matched > 0 /\ k = Sequence[1]
               THEN matched' = 1 /\ forwarded' = forwarded \o Keyboard!Prefix(matched)
               ELSE matched' = 0 /\ forwarded' = Append(forwarded \o Keyboard!Prefix(matched), k)
        BY <2>1, <2>4 DEF Keyboard!RawKey
      <3> QED  BY <1>1, <2>4, <3>1 DEF Keyboard!Press, Restarts, GivesBack
    <2> QED  BY <2>2, <2>3, <2>4
  <1>2. CASE f = "cut"
    <2>1. Keyboard!Flush(k, f)
      BY <1>2 DEF Keyboard!Filter, Keyboard!CutReport
    <2> QED  BY <1>2, <1>b, <2>1 DEF GivesBack, Keyboard!Press
  <1>3. CASE f = "csi"
    <2>1. Keyboard!Report(k, f)
      BY <1>3 DEF Keyboard!Filter
    <2>2. CASE at_terminal /\ k = Suspend
      BY <1>3, <2>1, <2>2 DEF Keyboard!Report, Keyboard!Swallow, Ignores, Keyboard!Press
    <2>3. CASE ~(at_terminal /\ k = Suspend) /\ k = Sequence[matched + 1]
      <3>1. Keyboard!Advance /\ Keyboard!Press(k, f)
        BY <1>3, <2>1, <2>3 DEF Keyboard!Report, Keyboard!Press
      <3> QED  BY <1>3, <1>a, <2>3, <3>1
    <2>4. CASE ~(at_terminal /\ k = Suspend) /\ k # Sequence[matched + 1]
      <3>1. Keyboard!Flush(k, f)
        BY <1>3, <2>1, <2>4 DEF Keyboard!Report
      <3> QED  BY <1>3, <1>b, <2>4, <3>1 DEF Keyboard!Press, GivesBack
    <2> QED  BY <2>2, <2>3, <2>4
  <1>4. CASE f = "echo"
    <2>1. Keyboard!Report(k, f)
      BY <1>4 DEF Keyboard!Filter
    <2>2. CASE k \in {Sequence[j] : j \in 1..matched}
      <3>1. Keyboard!Swallow
        BY <1>4, <2>1, <2>2 DEF Keyboard!Report
      <3> QED  BY <1>4, <2>2, <3>1 DEF Keyboard!Swallow, Ignores, Keyboard!Press
    <2>3. CASE k \notin {Sequence[j] : j \in 1..matched}
      <3>1. Keyboard!Flush(k, f)
        BY <1>4, <2>1, <2>3 DEF Keyboard!Report
      <3>2. forwarded' = forwarded \o Keyboard!Prefix(matched) \o <<>>
        BY <1>4, <3>1 DEF Keyboard!Flush, Keyboard!Passed
      <3>3. \A s \in Seq(Keys) : s \o <<>> = s
        OBVIOUS
      <3> QED  BY <1>4, <1>p, <2>3, <3>1, <3>2, <3>3 DEF Echoes, Keyboard!Flush
    <2> QED  BY <2>2, <2>3
  <1> QED  BY <1>0, <1>1, <1>2, <1>3, <1>4

\* The sequence facts the steps need.
LEMMA PrefixFacts ==
  ASSUME KeysTyped
  PROVE  /\ Keyboard!Prefix(0) = <<>>
         /\ Keyboard!Prefix(1) = <<Sequence[1]>>
         /\ Append(Keyboard!Prefix(matched), Sequence[matched + 1]) = Keyboard!Prefix(matched + 1)
         /\ Keyboard!Prefix(Len(Sequence)) = Sequence
  <1>1. /\ matched \in Nat /\ Len(Sequence) \in Nat /\ Len(Sequence) >= 2
        /\ Sequence \in Seq(Keys) /\ matched + 1 <= Len(Sequence)
    BY DEF KeysTyped, Keyboard!KeysAssumption
  <1>2. Keyboard!Prefix(0) = <<>>
    BY <1>1 DEF Keyboard!Prefix
  <1>3. Keyboard!Prefix(1) = <<Sequence[1]>>
    <2>1. /\ Keyboard!Prefix(1) \in Seq(Keys)
          /\ Len(Keyboard!Prefix(1)) = 1
          /\ Keyboard!Prefix(1)[1] = Sequence[1]
      BY <1>1 DEF Keyboard!Prefix
    <2>2. <<Sequence[1]>> \in Seq(Keys)
      BY <1>1
    <2> QED  BY <2>1, <2>2, SeqEqual
  <1>4. Append(Keyboard!Prefix(matched), Sequence[matched + 1]) = Keyboard!Prefix(matched + 1)
    <2>1. /\ Keyboard!Prefix(matched) \in Seq(Keys) /\ Len(Keyboard!Prefix(matched)) = matched
          /\ \A j \in 1..matched : Keyboard!Prefix(matched)[j] = Sequence[j]
      BY <1>1 DEF Keyboard!Prefix
    <2>2. /\ /\ Keyboard!Prefix(matched + 1) \in Seq(Keys)
          /\ Len(Keyboard!Prefix(matched + 1)) = matched + 1
          /\ \A j \in 1..(matched + 1) : Keyboard!Prefix(matched + 1)[j] = Sequence[j]
      BY <1>1 DEF Keyboard!Prefix
    <2> DEFINE s == Append(Keyboard!Prefix(matched), Sequence[matched + 1])
    <2>3. s \in Seq(Keys) /\ Len(s) = matched + 1
      BY <1>1, <2>1
    <2>4. \A j \in 1..(matched + 1) : s[j] = Sequence[j]
      BY <1>1, <2>1
    <2> QED  BY <2>2, <2>3, <2>4, SeqEqual
  <1>5. Keyboard!Prefix(Len(Sequence)) = Sequence
    BY <1>1 DEF Keyboard!Prefix
  <1> QED  BY <1>2, <1>3, <1>4, <1>5

LEMMA AppendToConcat ==
  ASSUME NEW S, NEW s \in Seq(S), NEW t \in Seq(S), NEW x \in S
  PROVE  /\ s \o Append(t, x) = Append(s \o t, x)
         /\ s \o <<x>> = Append(s, x)
         /\ s \o <<>> = s
         /\ Len(s \o t) - Len(t) = Len(s)
         /\ SubSeq(s \o t, 1, Len(s \o t) - Len(t)) = s
  <1>1. s \o Append(t, x) = Append(s \o t, x)
    OBVIOUS
  <1>2. s \o <<x>> = Append(s, x) /\ s \o <<>> = s
    OBVIOUS
  <1>3. Len(s \o t) - Len(t) = Len(s)
    OBVIOUS
  <1>4. SubSeq(s \o t, 1, Len(s)) = s
    <2> DEFINE u == SubSeq(s \o t, 1, Len(s))
    <2>1. u \in Seq(S) /\ Len(u) = Len(s)
      OBVIOUS
    <2>2. \A j \in 1..Len(s) : u[j] = s[j]
      OBVIOUS
    <2> QED  BY <2>1, <2>2, SeqEqual
  <1> QED  BY <1>1, <1>2, <1>3, <1>4

\* The step as the invariant sees it: held and typed grow by a press, and a
\* request takes the sequence back.
LEMMA TypeFacts ==
  ASSUME KeysInv, NEW k \in Keys, NEW f \in Forms, Keyboard!Type(k, f)
  PROVE  /\ Keyboard!Filter(k, f)
         /\ typed' = IF Keyboard!Press(k, f) THEN Append(typed, k) ELSE typed
         /\ requests' > requests =>
               /\ held' = LET now == IF Keyboard!Press(k, f) THEN Append(held, k) ELSE held
                          IN  SubSeq(now, 1, Len(now) - Len(Sequence))
               /\ since' = Len(typed') /\ streak' = 0
         /\ ~(requests' > requests) =>
               /\ held' = IF Keyboard!Press(k, f) THEN Append(held, k) ELSE held
               /\ streak' = Keyboard!Streak(k, f) /\ since' = since
         /\ at_terminal' = at_terminal
  BY DEF Keyboard!Type

LEMMA KeysKeptStep ==
  ASSUME KeysInv, NEW k \in Keys, NEW f \in Forms, Keyboard!Type(k, f)
  PROVE  /\ Keyboard!KeysKept' /\ held' \in Seq(Keys) /\ forwarded' \in Seq(Keys)
         /\ matched' \in 0..(Len(Sequence) - 1) /\ requests' \in Nat
  <1> DEFINE P == Keyboard!Prefix(matched)
  <1>1. /\ KeysTyped /\ forwarded \o P = held /\ requests \in Nat
        /\ forwarded \in Seq(Keys) /\ held \in Seq(Keys)
    BY DEF KeysInv, Keyboard!KeysKept, KeysTyped
  <1>2. /\ P \in Seq(Keys) /\ matched \in 0..(Len(Sequence) - 1) /\ Len(Sequence) >= 2
        /\ Len(Sequence) \in Nat /\ Sequence \in Seq(Keys)
    BY <1>1, PrefixType DEF KeysTyped, Keyboard!KeysAssumption
  <1>3. Keyboard!KeysKept' <=> forwarded' \o Keyboard!Prefix(matched') = held'
    BY DEF Keyboard!KeysKept, Keyboard!Prefix
  <1> HIDE DEF P
  <1>4. CASE MovesOn(k, f)
    <2>1. /\ held' = Append(held, k)
          /\ forwarded' = forwarded
          /\ matched' = matched + 1
          /\ requests' = requests
      BY <1>1, <1>4, TypeFacts DEF MovesOn
    <2>2. Append(P, k) = Keyboard!Prefix(matched + 1)
      BY <1>1, <1>4, PrefixFacts DEF MovesOn, P
    <2>3. forwarded \o Append(P, k) = Append(forwarded \o P, k)
      BY <1>1, <1>2, AppendToConcat
    <2>4. matched + 1 \in 0..(Len(Sequence) - 1)
      BY <1>2, <1>4 DEF MovesOn
    <2> QED  BY <1>1, <1>3, <2>1, <2>2, <2>3, <2>4
  <1>5. CASE Completes(k, f)
    <2>1. /\ held' = SubSeq(Append(held, k), 1, Len(Append(held, k)) - Len(Sequence))
          /\ forwarded' = forwarded /\ matched' = 0 /\ requests' = requests + 1
      BY <1>1, <1>5, TypeFacts DEF Completes
    <2>2. Append(P, k) = Sequence
      BY <1>1, <1>5, PrefixFacts DEF Completes, P
    <2>3. forwarded \o Append(P, k) = Append(forwarded \o P, k)
      BY <1>1, <1>2, AppendToConcat
    <2>4. SubSeq(forwarded \o Sequence, 1, Len(forwarded \o Sequence) - Len(Sequence)) = forwarded
      BY <1>1, <1>2, AppendToConcat
    <2>5. held' = forwarded
      BY <1>1, <2>1, <2>2, <2>3, <2>4
    <2>6. forwarded \o Keyboard!Prefix(0) = forwarded
      BY <1>1, PrefixFacts, AppendToConcat
    <2>7. 0 \in 0..(Len(Sequence) - 1) /\ requests + 1 \in Nat
      BY <1>1, <1>2
    <2> QED  BY <1>1, <1>3, <2>1, <2>5, <2>6, <2>7
  <1>6. CASE Restarts(k, f)
    <2>1. held' = Append(held, k) /\ forwarded' = held /\ matched' = 1 /\ requests' = requests
      BY <1>1, <1>6, TypeFacts DEF Restarts, P
    <2>2. Keyboard!Prefix(1) = <<k>>
      BY <1>1, <1>6, PrefixFacts DEF Restarts
    <2>3. held \o <<k>> = Append(held, k) /\ Append(held, k) \in Seq(Keys)
      BY <1>1, AppendToConcat
    <2>4. 1 \in 0..(Len(Sequence) - 1)
      BY <1>2
    <2> QED  BY <1>1, <1>3, <2>1, <2>2, <2>3, <2>4
  <1>7. CASE GivesBack(k, f)
    <2>1. /\ held' = Append(held, k)
          /\ forwarded' = Append(held, k)
          /\ matched' = 0
          /\ requests' = requests
      BY <1>1, <1>7, TypeFacts DEF GivesBack, P
    <2>2. Append(held, k) \in Seq(Keys)
      BY <1>1
    <2>3. Append(held, k) \o Keyboard!Prefix(0) = Append(held, k)
      BY <1>1, <2>2, PrefixFacts, AppendToConcat
    <2>4. 0 \in 0..(Len(Sequence) - 1)
      BY <1>2
    <2> QED  BY <1>1, <1>3, <2>1, <2>2, <2>3, <2>4
  <1>8. CASE Ignores(k, f)
    <2>1. held' = held /\ forwarded' = forwarded /\ matched' = matched /\ requests' = requests
      BY <1>1, <1>8, TypeFacts DEF Ignores
    <2> QED  BY <1>1, <1>2, <1>3, <2>1 DEF P
  <1>9. CASE Echoes(k, f)
    <2>1. held' = held /\ forwarded' = held /\ matched' = 0 /\ requests' = requests
      BY <1>1, <1>9, TypeFacts DEF Echoes, Keyboard!Press, P
    <2>2. held \o Keyboard!Prefix(0) = held
      BY <1>1, PrefixFacts, AppendToConcat
    <2>3. 0 \in 0..(Len(Sequence) - 1)
      BY <1>2
    <2> QED  BY <1>1, <1>3, <2>1, <2>2, <2>3
  <1> QED  BY <1>1, <1>4, <1>5, <1>6, <1>7, <1>8, <1>9, FilterCases, TypeFacts

\* What is typed after the last request ends in the match; a request comes where
\* it ends in all of the sequence.
LEMMA MatchStep ==
  ASSUME KeysInv, NEW k \in Keys, NEW f \in Forms, Keyboard!Type(k, f)
  PROVE  /\ EndsInMatch' /\ StreakIsMatch' /\ typed' \in Seq(Keys)
         /\ since' \in Nat /\ streak' \in 0..Len(Sequence)
         /\ requests' > requests =>
               /\ Len(typed') - since >= Len(Sequence)
               /\ \A j \in 1..Len(Sequence) : typed'[Len(typed') - Len(Sequence) + j] = Sequence[j]
  <1>1. /\ KeysTyped /\ requests \in Nat /\ typed \in Seq(Keys) /\ since \in Nat
        /\ matched \in Nat /\ matched < Len(Sequence) /\ Len(Sequence) >= 2
        /\ Len(Sequence) \in Nat /\ Len(typed) \in Nat
        /\ since + matched <= Len(typed) /\ streak \in Nat /\ streak <= Len(Sequence)
        /\ \A j \in 1..matched : typed[Len(typed) - matched + j] = Sequence[j]
        /\ streak = 0 \/ streak = matched
    BY PrefixType DEF KeysInv, KeysTyped, EndsInMatch, StreakIsMatch
  <1>2. /\ Append(typed, k) \in Seq(Keys) /\ Len(Append(typed, k)) = Len(typed) + 1
        /\ Append(typed, k)[Len(typed) + 1] = k /\ Len(typed) \in Nat
        /\ \A j \in 1..Len(typed) : Append(typed, k)[j] = typed[j]
    BY <1>1
  <1>3. MovesOn(k, f) \/ Completes(k, f) => 
          \A j \in 1..(matched + 1) : Append(typed, k)[Len(typed) - matched + j] = Sequence[j]
    <2> SUFFICES ASSUME k = Sequence[matched + 1], NEW j \in 1..(matched + 1)
                 PROVE  Append(typed, k)[Len(typed) - matched + j] = Sequence[j]
      BY DEF MovesOn, Completes
    <2>1. CASE j = matched + 1
      <3>1. Len(typed) - matched + j = Len(typed) + 1
        BY <1>1, <2>1
      <3> QED  BY <1>2, <2>1, <3>1
    <2>2. CASE j # matched + 1
      <3>1. j \in 1..matched /\ Len(typed) - matched + j \in 1..Len(typed)
        BY <1>1, <2>2
      <3> QED  BY <1>1, <1>2, <3>1
    <2> QED  BY <2>1, <2>2
  <1>4. CASE MovesOn(k, f)
    <2>1. /\ typed' = Append(typed, k) /\ matched' = matched + 1 /\ since' = since
          /\ streak' = Keyboard!Streak(k, f) /\ requests' = requests
      BY <1>1, <1>4, TypeFacts DEF MovesOn
    <2>2. Keyboard!Streak(k, f) \in {0, matched + 1}
      BY <1>1, <1>4 DEF MovesOn, Keyboard!Streak, Keyboard!Press
    <2>3. EndsInMatch'
      <3>1. Len(typed') - (matched + 1) = Len(typed) - matched /\ Len(typed') = Len(typed) + 1
        BY <1>1, <1>2, <2>1
      <3>2. since + (matched + 1) <= Len(typed')
        BY <1>1, <3>1
      <3> QED  BY <1>3, <1>4, <2>1, <3>1, <3>2 DEF EndsInMatch
    <2> QED  BY <1>1, <1>2, <1>4, <2>1, <2>2, <2>3 DEF StreakIsMatch
  <1>5. CASE Completes(k, f)
    <2>1. /\ typed' = Append(typed, k) /\ matched' = 0 /\ since' = Len(typed) + 1 /\ streak' = 0
          /\ matched + 1 = Len(Sequence)
      BY <1>1, <1>2, <1>5, TypeFacts DEF Completes
    <2>2. \A j \in 1..Len(Sequence) : typed'[Len(typed') - Len(Sequence) + j] = Sequence[j]
      <3>1. Len(typed') = Len(typed) + 1 /\ matched \in Nat /\ Len(typed) \in Nat
        BY <1>1, <1>2, <2>1
      <3>2. Len(typed') - Len(Sequence) = Len(typed) - matched
        BY <2>1, <3>1
      <3> QED  BY <1>3, <1>5, <2>1, <3>2
    <2>3. /\ Len(typed') - since >= Len(Sequence)
          /\ Len(typed) + 1 \in Nat
          /\ Len(typed') = Len(typed) + 1
      BY <1>1, <1>2, <2>1
    <2>4. EndsInMatch'
      BY <1>1, <2>1, <2>3 DEF EndsInMatch
    <2>5. /\ StreakIsMatch'
          /\ typed' \in Seq(Keys)
          /\ since' \in Nat
          /\ streak' \in 0..Len(Sequence)
      BY <1>1, <1>2, <2>1, <2>3 DEF StreakIsMatch
    <2> QED  BY <2>2, <2>3, <2>4, <2>5
  <1>6. CASE Restarts(k, f)
    <2>1. /\ typed' = Append(typed, k) /\ matched' = 1 /\ since' = since
          /\ streak' = Keyboard!Streak(k, f) /\ requests' = requests /\ k = Sequence[1]
      BY <1>1, <1>6, TypeFacts DEF Restarts
    <2>2. Keyboard!Streak(k, f) = 0
      BY <1>1, <1>6 DEF Restarts, Keyboard!Streak, Keyboard!Press
    <2> QED  BY <1>1, <1>2, <2>1, <2>2 DEF EndsInMatch, StreakIsMatch
  <1>7. CASE GivesBack(k, f)
    <2>1. /\ typed' = Append(typed, k) /\ matched' = 0 /\ since' = since
          /\ streak' = Keyboard!Streak(k, f) /\ requests' = requests
      BY <1>1, <1>7, TypeFacts DEF GivesBack
    <2>2. Keyboard!Streak(k, f) = 0
      BY <1>1, <1>7 DEF GivesBack, Keyboard!Streak, Keyboard!Press
    <2> QED  BY <1>1, <1>2, <2>1, <2>2 DEF EndsInMatch, StreakIsMatch
  <1>8. CASE Ignores(k, f)
    <2>1. /\ typed' = typed /\ matched' = matched /\ since' = since
          /\ streak' = Keyboard!Streak(k, f) /\ requests' = requests
      BY <1>1, <1>8, TypeFacts DEF Ignores
    <2>2. Keyboard!Streak(k, f) \in {0, streak}
      BY <1>1, <1>8 DEF Ignores, Keyboard!Streak
    <2> QED  BY <1>1, <2>1, <2>2 DEF EndsInMatch, StreakIsMatch
  <1>9. CASE Echoes(k, f)
    <2>1. /\ typed' = typed /\ matched' = 0 /\ since' = since
          /\ streak' = Keyboard!Streak(k, f) /\ requests' = requests
      BY <1>1, <1>9, TypeFacts DEF Echoes, Keyboard!Press
    <2>2. ~(k \in {Sequence[i] : i \in 1..streak})
      BY <1>1, <1>9 DEF Echoes
    <2>3. Keyboard!Streak(k, f) = 0
      BY <1>9, <2>2 DEF Echoes, Keyboard!Streak, Keyboard!Press
    <2> QED  BY <1>1, <1>2, <2>1, <2>3 DEF EndsInMatch, StreakIsMatch
  <1> QED  BY <1>1, <1>4, <1>5, <1>6, <1>7, <1>8, <1>9, FilterCases, TypeFacts

LEMMA SuffixPointwise ==
  ASSUME NEW S, NEW s \in Seq(S), NEW t \in Seq(S), Len(s) <= Len(t),
         \A j \in 1..Len(s) : t[Len(t) - Len(s) + j] = s[j]
  PROVE  Keyboard!IsSuffix(s, t)
  <1> DEFINE a == Keyboard!Reverse(s)
             b == Keyboard!Reverse(t)
  <1>1. /\ a \in Seq(S) /\ Len(a) = Len(s)
        /\ \A j \in 1..Len(s) : a[j] = s[(Len(s) - j) + 1]
    BY DEF Keyboard!Reverse
  <1>2. /\ b \in Seq(S) /\ Len(b) = Len(t)
        /\ \A j \in 1..Len(t) : b[j] = t[(Len(t) - j) + 1]
    BY DEF Keyboard!Reverse
  <1>3. Len(s) \in Nat /\ Len(t) \in Nat
    OBVIOUS
  <1> HIDE DEF a, b
  <1>4. ASSUME NEW j \in 1..Len(s) PROVE a[j] = b[j]
    <2>1. (Len(s) - j) + 1 \in 1..Len(s) /\ j \in 1..Len(t)
      BY <1>3
    <2>2. Len(t) - Len(s) + ((Len(s) - j) + 1) = (Len(t) - j) + 1
      BY <1>3
    <2> QED  BY <1>1, <1>2, <2>1, <2>2
  <1>5. /\ SubSeq(a, 1, Len(a)) \in Seq(S) /\ SubSeq(b, 1, Len(a)) \in Seq(S)
        /\ Len(SubSeq(a, 1, Len(a))) = Len(s) /\ Len(SubSeq(b, 1, Len(a))) = Len(s)
        /\ \A j \in 1..Len(s) : SubSeq(a, 1, Len(a))[j] = a[j] /\ SubSeq(b, 1, Len(a))[j] = b[j]
    BY <1>1, <1>2, <1>3
  <1>6. SubSeq(a, 1, Len(a)) = SubSeq(b, 1, Len(a))
    BY <1>4, <1>5, SeqEqual
  <1> QED  BY <1>1, <1>2, <1>6 DEF Keyboard!IsSuffix, Keyboard!IsPrefix, a, b

LEMMA KeysInit == Keyboard!KeysAssumption /\ Keyboard!Init => KeysInv
  <1> SUFFICES ASSUME Keyboard!KeysAssumption, Keyboard!Init PROVE KeysInv
    OBVIOUS
  <1>1. KeysTyped
    BY DEF KeysTyped, Keyboard!Init, Keyboard!KeysAssumption
  <1>2. <<>> \o Keyboard!Prefix(0) = <<>>
    BY <1>1, PrefixFacts
  <1> QED  BY <1>1, <1>2
              DEF KeysInv, Keyboard!Init, Keyboard!KeysKept, EndsInMatch, StreakIsMatch

LEMMA KeysStep == KeysInv /\ [Keyboard!Next]_(Keyboard!vars) => KeysInv'
  <1> SUFFICES ASSUME KeysInv, [Keyboard!Next]_(Keyboard!vars) PROVE KeysInv'
    OBVIOUS
  <1>1. CASE Keyboard!Next
    <2> PICK k \in Keys, f \in Forms : Keyboard!Type(k, f)
      BY <1>1 DEF Keyboard!Next
    <2>1. Keyboard!KeysAssumption' /\ at_terminal' \in BOOLEAN
      BY TypeFacts DEF KeysInv, KeysTyped, Keyboard!KeysAssumption
    <2> QED  BY <2>1, KeysKeptStep, MatchStep DEF KeysInv, KeysTyped
  <1>2. CASE UNCHANGED Keyboard!vars
    BY <1>2
       DEF Keyboard!vars, KeysInv, KeysTyped, Keyboard!KeysKept, EndsInMatch, StreakIsMatch,
           Keyboard!Prefix
  <1> QED  BY <1>1, <1>2

\* KeysInv is an invariant of the filter.
THEOREM KeyboardInvariant == Keyboard!KeysAssumption /\ Keyboard!Spec => []KeysInv
  BY KeysInit, KeysStep, PTL DEF Keyboard!Spec

\* For every sequence that repeats or overlaps as it likes, and keys in any encoding:
\* each press reaches the session once and in order, save those of completed
\* sequences and the part held back.
THEOREM KeysAreKept == Keyboard!KeysAssumption /\ Keyboard!Spec => []KeysKept
  <1>1. KeysInv => Keyboard!KeysKept
    BY DEF KeysInv
  <1>9. Keyboard!KeysKept => KeysKept
    BY DEF KeysKept
  <1> QED  BY <1>9, <1>1, KeyboardInvariant, PTL

\* The sequence typed in a row detaches, in either encoding or a mixture of them.
THEOREM StreaksDetach ==
  Keyboard!KeysAssumption /\ Keyboard!Spec => []Keyboard!UninterruptedDetaches
  <1>1. KeysInv => Keyboard!UninterruptedDetaches
    BY PrefixType DEF KeysInv, KeysTyped, StreakIsMatch, Keyboard!UninterruptedDetaches
  <1> QED  BY <1>1, KeyboardInvariant, PTL

\* A detach is requested only where the whole sequence was typed since the last one.
THEOREM DetachesWereTyped ==
  Keyboard!KeysAssumption /\ Keyboard!Spec => Keyboard!DetachOnlyWhenTyped
  <1> DEFINE Typed == requests' > requests =>
        /\ Len(typed') - since >= Len(Sequence)
        /\ Keyboard!IsSuffix(Sequence, typed')
  <1>1. ASSUME KeysInv, [Keyboard!Next]_(Keyboard!vars) PROVE [Typed]_(Keyboard!vars)
    <2>1. CASE Keyboard!Next
      <3> PICK k \in Keys, f \in Forms : Keyboard!Type(k, f)
        BY <2>1 DEF Keyboard!Next
      <3> SUFFICES ASSUME requests' > requests
                   PROVE  Len(typed') - since >= Len(Sequence) /\ Keyboard!IsSuffix(Sequence, typed')
        OBVIOUS
      <3>1. /\ typed' \in Seq(Keys) /\ Len(typed') - since >= Len(Sequence)
            /\ \A j \in 1..Len(Sequence) : typed'[Len(typed') - Len(Sequence) + j] = Sequence[j]
        BY <1>1, MatchStep
      <3>2. /\ Sequence \in Seq(Keys) /\ since \in Nat /\ Len(Sequence) \in Nat
            /\ Len(typed') \in Nat /\ Len(typed') >= Len(Sequence)
        BY <1>1, <3>1 DEF KeysInv, KeysTyped, Keyboard!KeysAssumption
      <3>3. Keyboard!IsSuffix(Sequence, typed')
        BY <3>1, <3>2, SuffixPointwise
      <3> QED  BY <3>1, <3>3
    <2>2. CASE UNCHANGED Keyboard!vars
      BY <2>2
    <2> QED  BY <1>1, <2>1, <2>2
  <1>2. Keyboard!KeysAssumption /\ Keyboard!Spec => [][Typed]_(Keyboard!vars)
    BY <1>1, KeyboardInvariant, PTL DEF Keyboard!Spec
  <1> QED  BY <1>2 DEF Keyboard!DetachOnlyWhenTyped

-----------------------------------------------------------------------------
\* The chain of approval backends (ApprovalChain).

Places == {"idle", "ask", "slot", "prompt", "wire", "reply", "backoff", "done"}

\* The first k backends granted; each of them for the session.
AllGranted(answers, k) == \A n \in 1 .. k : answers[n] \in Approvals!Grants
AllForSession(answers, k) == \A n \in 1 .. k : answers[n] = "granted_session"

\* Where an "all" chain has come it was granted all the way, with the scope of
\* the grants so far; a backend asked directly is the first.
GrantedSoFar(c) ==
    /\ mode = "all" => /\ AllGranted(said[c], asked[c] - 1)
                       /\ session[c] <=> AllForSession(said[c], asked[c] - 1)
    /\ mode = "direct" => asked[c] = 1

\* A grant returned is backed by what the backends answered.
Backed(c) ==
    result[c] \in Approvals!Grants =>
        /\ mode = "all" => /\ AllGranted(said[c], Len(chain))
                           /\ result[c] = "granted_session" <=> AllForSession(said[c], Len(chain))
        /\ mode = "any" => said[c][asked[c]] = result[c]
        /\ mode = "direct" => said[c][1] = result[c]

\* What is true of one caller: nothing is returned before the end, only a
\* webhook is on the wire, and a reply in hand is the last answer of the backend
\* being asked, "pending" only from the platform.
CallerInv(c) ==
    /\ asker[c] # "done" => result[c] = "none"
    /\ asker[c] \in {"wire", "backoff"} => Approvals!Kind(c) # "terminal"
    /\ asker[c] = "reply" =>
        /\ reply[c] = said[c][asked[c]]
        /\ reply[c] \in Approvals!Decisions \/ (reply[c] = "pending" /\ Approvals!Kind(c) = "platform")
    /\ GrantedSoFar(c)
    /\ Backed(c)

ChainInv == Approvals!TypeOK /\ \A c \in Callers : CallerInv(c)

LEMMA ChainInvBacks == ASSUME Approvals!ChainConfigured, ChainInv PROVE Approvals!GrantIsBacked
  <1> SUFFICES ASSUME NEW c \in Callers, result[c] \in Approvals!Grants
               PROVE  CASE mode = "all" ->
                              /\ \A n \in 1 .. Len(chain) : said[c][n] \in Approvals!Grants
                              /\ (result[c] = "granted_session") <=>
                                    (\A n \in 1 .. Len(chain) : said[c][n] = "granted_session")
                        [] mode = "any" -> said[c][asked[c]] = result[c]
                        [] mode = "direct" -> said[c][1] = result[c]
    BY DEF Approvals!GrantIsBacked
  <1>1. mode \in {"all", "any", "direct"} /\ Backed(c)
    BY DEF ChainInv, Approvals!TypeOK, Approvals!ChainConfigured, CallerInv
  <1>2. CASE mode = "all"
    BY <1>1, <1>2 DEF Backed, AllGranted, AllForSession
  <1>3. CASE mode = "any"
    BY <1>1, <1>3 DEF Backed
  <1>4. CASE mode = "direct"
    BY <1>1, <1>4 DEF Backed
  <1> QED  BY <1>1, <1>2, <1>3, <1>4

LEMMA ChainLength ==
  ASSUME Approvals!ChainConfigured, Approvals!TypeOK
  PROVE  Len(chain) \in Nat \ {0} /\ \A n \in 1 .. Len(chain) : chain[n] \in Approvals!Kinds
  <1>1. chain \in Seq(Approvals!Kinds) /\ chain # <<>>
    BY DEF Approvals!ChainConfigured, Approvals!TypeOK
  <1> QED  BY <1>1

LEMMA NothingAsked == \A answers : AllGranted(answers, 0) /\ AllForSession(answers, 0)
  BY DEF AllGranted, AllForSession

LEMMA OneMoreAsked ==
  ASSUME NEW answers, NEW k \in Nat
  PROVE  /\ AllGranted(answers, k + 1) <=> AllGranted(answers, k) /\ answers[k + 1] \in Approvals!Grants
         /\ AllForSession(answers, k + 1) <=>
               AllForSession(answers, k) /\ answers[k + 1] = "granted_session"
  <1>1. \A n : n \in 1 .. k + 1 <=> n \in 1 .. k \/ n = k + 1
    OBVIOUS
  <1> QED  BY <1>1 DEF AllGranted, AllForSession

LEMMA ChainBegins == ASSUME Approvals!ChainConfigured, Approvals!Init PROVE ChainInv
  <1>1. Len(chain) \in Nat \ {0}
    <2>1. chain \in Seq(Approvals!Kinds) /\ chain # <<>>
      BY DEF Approvals!ChainConfigured, Approvals!Init
    <2> QED  BY <2>1
  <1>2. /\ mode \in Modes
        /\ chain \in Chains
        /\ asker \in [Callers -> Places]
        /\ asked \in [Callers -> 1 .. Len(chain)]
        /\ session \in [Callers -> BOOLEAN]
    BY <1>1 DEF Approvals!Init, Places
  <1>3. deadline \in [Callers -> Nat] /\ own \in [Callers -> Nat] /\ hop \in [Callers -> Nat]
    <2>1. Deadlines \cup {NoDeadline} \subseteq Nat
      BY DEF Approvals!ChainConfigured
    <2> QED  BY <2>1 DEF Approvals!Init
  <1>4. /\ reply \in [Callers -> Approvals!Decisions \cup {"none", "pending"}]
        /\ result \in [Callers -> Approvals!Decisions \cup {"none"}]
    BY DEF Approvals!Init
  <1>5. said \in [Callers -> [1 .. Len(chain) -> Approvals!Decisions \cup {"none", "pending"}]]
    BY <1>1 DEF Approvals!Init
  <1>6. tty_lock \in Callers \cup {NoCaller} /\ screen \in Callers \cup {NoCaller}
    BY DEF Approvals!Init
  <1>7. Approvals!TypeOK
    BY <1>2, <1>3, <1>4, <1>5, <1>6 DEF Approvals!TypeOK, Places
  <1>8. ASSUME NEW c \in Callers PROVE CallerInv(c)
    <2>1. /\ asker[c] = "idle"
          /\ asked[c] = 1
          /\ session[c] = TRUE
          /\ result[c] = "none"
          /\ asked[c] - 1 = 0
      BY DEF Approvals!Init
    <2>2. GrantedSoFar(c)
      BY <2>1, NothingAsked DEF GrantedSoFar
    <2> QED  BY <2>1, <2>2 DEF CallerInv, Backed, Approvals!Grants
  <1> QED  BY <1>7, <1>8 DEF ChainInv

\* A caller the step does not touch.
LEMMA OthersStay ==
  ASSUME NEW c, CallerInv(c), UNCHANGED <<mode, chain>>,
         asker'[c] = asker[c], asked'[c] = asked[c], session'[c] = session[c],
         reply'[c] = reply[c],
         result'[c] = result[c], said'[c] = said[c]
  PROVE  CallerInv(c)'
  <1>1. GrantedSoFar(c)' /\ Backed(c)'
    BY DEF CallerInv, GrantedSoFar, Backed
  <1> QED  BY <1>1 DEF CallerInv, Approvals!Kind

\* Caller c moves within its call.
LEMMA CallerMoves ==
  ASSUME Approvals!ChainConfigured, ChainInv, NEW c \in Callers, asker[c] # "done",
         NEW next \in Places \ {"done", "reply"}, asker' = [asker EXCEPT ![c] = next],
         next \in {"wire", "backoff"} => Approvals!Kind(c) # "terminal",
         own' \in [Callers -> Nat], hop' \in [Callers -> Nat],
         tty_lock' \in Callers \cup {NoCaller}, screen' \in Callers \cup {NoCaller},
         UNCHANGED <<Approvals!config, asked, session, deadline, reply, result, said>>
  PROVE  ChainInv'
  <1>1. /\ asker' \in [Callers -> Places] /\ asker'[c] = next /\ \A e \in Callers : e # c => asker'[e] = asker[e]
        /\ UNCHANGED <<mode, chain>>
    BY DEF ChainInv, Approvals!TypeOK, Places, Approvals!config
  <1>2. Approvals!TypeOK'
    BY <1>1 DEF ChainInv, Approvals!TypeOK, Places
  <1>3. CallerInv(c)'
    <2>1. CallerInv(c)
      BY DEF ChainInv
    <2>2. GrantedSoFar(c)' /\ Backed(c)'
      BY <1>1, <2>1 DEF CallerInv, GrantedSoFar, Backed
    <2> QED  BY <1>1, <2>1, <2>2 DEF CallerInv, Approvals!Kind
  <1>4. ASSUME NEW e \in Callers, e # c PROVE CallerInv(e)'
    BY <1>1, <1>4, OthersStay DEF ChainInv
  <1> QED  BY <1>2, <1>3, <1>4 DEF ChainInv

LEMMA CallerAnswered ==
  ASSUME Approvals!ChainConfigured, ChainInv, NEW c \in Callers, asker[c] # "done",
         NEW d \in Approvals!Decisions \cup {"pending"},
         d = "pending" => Approvals!Kind(c) = "platform",
         asker' = [asker EXCEPT ![c] = "reply"], reply' = [reply EXCEPT ![c] = d],
         said' = [said EXCEPT ![c][asked[c]] = d],
         UNCHANGED <<Approvals!config, asked, session, Approvals!budgets, result, Approvals!terminal>>
  PROVE  ChainInv'
  <1>0. Approvals!TypeOK /\ CallerInv(c) /\ asked[c] \in 1 .. Len(chain) /\ Len(chain) \in Nat
    BY ChainLength DEF ChainInv, Approvals!TypeOK
  <1>1. /\ asker' \in [Callers -> Places] /\ asker'[c] = "reply" /\ \A e \in Callers : e # c => asker'[e] = asker[e]
        /\ UNCHANGED <<mode, chain, deadline, own, hop, tty_lock, screen>>
    BY <1>0
       DEF Approvals!TypeOK, Places, Approvals!config, Approvals!budgets, Approvals!terminal
  <1>2. /\ reply' \in [Callers -> Approvals!Decisions \cup {"none", "pending"}]
        /\ reply'[c] = d /\ \A e \in Callers : e # c => reply'[e] = reply[e]
    BY <1>0 DEF Approvals!TypeOK
  <1>3. /\ /\ said' \in [Callers -> [1 .. Len(chain) -> Approvals!Decisions \cup {"none", "pending"}]]
        /\ said'[c][asked[c]] = d
        /\ \A n \in 1 .. Len(chain) : n # asked[c] => said'[c][n] = said[c][n]
        /\ \A e \in Callers : e # c => said'[e] = said[e]
    BY <1>0 DEF Approvals!TypeOK
  <1>4. Approvals!TypeOK'
    BY <1>0, <1>1, <1>2, <1>3 DEF Approvals!TypeOK, Places
  <1>5. \A n \in 1 .. asked[c] - 1 : n \in 1 .. Len(chain) /\ n # asked[c] /\ said'[c][n] = said[c][n]
    BY <1>0, <1>3
  <1>6. /\ AllGranted(said'[c], asked[c] - 1) <=> AllGranted(said[c], asked[c] - 1)
        /\ AllForSession(said'[c], asked[c] - 1) <=> AllForSession(said[c], asked[c] - 1)
    BY <1>5 DEF AllGranted, AllForSession
  <1>7. GrantedSoFar(c)'
    BY <1>0, <1>1, <1>6 DEF CallerInv, GrantedSoFar
  <1>8. Backed(c)'
    BY <1>0 DEF CallerInv, Backed, Approvals!Grants
  <1>9. CallerInv(c)'
    BY <1>0, <1>1, <1>2, <1>3, <1>7, <1>8 DEF CallerInv, Approvals!Kind
  <1>10. ASSUME NEW e \in Callers, e # c PROVE CallerInv(e)'
    BY <1>1, <1>2, <1>3, <1>10, OthersStay DEF ChainInv
  <1> QED  BY <1>4, <1>9, <1>10 DEF ChainInv

\* What a grant of c may rest on.
MayReturn(c, d) ==
    d \in Approvals!Grants =>
        /\ mode = "all" => /\ AllGranted(said[c], Len(chain))
                           /\ d = "granted_session" <=> AllForSession(said[c], Len(chain))
        /\ mode = "any" => said[c][asked[c]] = d
        /\ mode = "direct" => said[c][1] = d

\* The call ends with d, and what it grants is backed.
LEMMA CallerReturns ==
  ASSUME Approvals!ChainConfigured, ChainInv, NEW c \in Callers, NEW d \in Approvals!Decisions,
         Approvals!Return(c, d),
         MayReturn(c, d),
         tty_lock' \in Callers \cup {NoCaller}, screen' \in Callers \cup {NoCaller},
         UNCHANGED <<Approvals!config, said>>
  PROVE  ChainInv'
  <1>0. Approvals!TypeOK /\ CallerInv(c)
    BY DEF ChainInv
  <1>1. /\ asker' \in [Callers -> Places] /\ asker'[c] = "done" /\ \A e \in Callers : e # c => asker'[e] = asker[e]
        /\ UNCHANGED <<mode, chain, asked, session, said>>
    BY <1>0 DEF Approvals!TypeOK, Places, Approvals!config, Approvals!Return
  <1>2. /\ result' \in [Callers -> Approvals!Decisions \cup {"none"}]
        /\ result'[c] = d /\ \A e \in Callers : e # c => result'[e] = result[e]
    BY <1>0 DEF Approvals!TypeOK, Approvals!Return
  <1>3. /\ /\ deadline' \in [Callers -> Nat]
        /\ own' \in [Callers -> Nat]
        /\ hop' \in [Callers -> Nat]
        /\ reply' \in [Callers -> Approvals!Decisions \cup {"none", "pending"}]
        /\ \A e \in Callers : e # c => reply'[e] = reply[e]
    BY <1>0 DEF Approvals!TypeOK, Approvals!Return, Approvals!CallEnds
  <1>4. Approvals!TypeOK'
    BY <1>0, <1>1, <1>2, <1>3 DEF Approvals!TypeOK, Places
  <1>5. GrantedSoFar(c)'
    BY <1>0, <1>1 DEF CallerInv, GrantedSoFar
  <1>6. Backed(c)'
    BY <1>1, <1>2 DEF MayReturn, Backed
  <1>7. CallerInv(c)'
    BY <1>1, <1>5, <1>6 DEF CallerInv
  <1>8. ASSUME NEW e \in Callers, e # c PROVE CallerInv(e)'
    BY <1>1, <1>2, <1>3, <1>8, OthersStay DEF ChainInv
  <1> QED  BY <1>4, <1>7, <1>8 DEF ChainInv

\* The chain goes on to the next backend.
LEMMA CallerGoesOn ==
  ASSUME Approvals!ChainConfigured, ChainInv, NEW c \in Callers, Approvals!AskNext(c),
         ~Approvals!Last(c), asker[c] # "done",
         mode \in {"all", "any"}, NEW scope \in BOOLEAN,
         session' = [session EXCEPT ![c] = scope],
         mode = "all" => /\ said[c][asked[c]] \in Approvals!Grants
                         /\ scope <=> session[c] /\ said[c][asked[c]] = "granted_session",
         tty_lock' \in Callers \cup {NoCaller}, screen' \in Callers \cup {NoCaller},
         UNCHANGED <<Approvals!config, said>>
  PROVE  ChainInv'
  <1>0. Approvals!TypeOK /\ CallerInv(c) /\ asked[c] \in 1 .. Len(chain) /\ Len(chain) \in Nat
    BY ChainLength DEF ChainInv, Approvals!TypeOK
  <1>01. /\ asked[c] + 1 \in 1 .. Len(chain)
         /\ asked[c] - 1 \in Nat
         /\ (asked[c] - 1) + 1 = asked[c]
         /\ (asked[c] + 1) - 1 = asked[c]
    BY <1>0 DEF Approvals!Last
  <1>1. /\ asker' \in [Callers -> Places] /\ asker'[c] = "ask" /\ \A e \in Callers : e # c => asker'[e] = asker[e]
        /\ UNCHANGED <<mode, chain, deadline, result, said>>
    BY <1>0 DEF Approvals!TypeOK, Places, Approvals!config, Approvals!AskNext
  <1>2. /\ asked' \in [Callers -> 1 .. Len(chain)]
        /\ asked'[c] = asked[c] + 1 /\ \A e \in Callers : e # c => asked'[e] = asked[e]
    BY <1>0, <1>01 DEF Approvals!TypeOK, Approvals!AskNext
  <1>3. /\ session' \in [Callers -> BOOLEAN]
        /\ session'[c] = scope /\ \A e \in Callers : e # c => session'[e] = session[e]
    BY <1>0 DEF Approvals!TypeOK
  <1>4. /\ own' \in [Callers -> Nat] /\ hop' \in [Callers -> Nat]
        /\ reply' \in [Callers -> Approvals!Decisions \cup {"none", "pending"}]
        /\ \A e \in Callers : e # c => reply'[e] = reply[e]
    BY <1>0 DEF Approvals!TypeOK, Approvals!AskNext, Approvals!CallEnds
  <1>5. Approvals!TypeOK'
    BY <1>0, <1>1, <1>2, <1>3, <1>4 DEF Approvals!TypeOK, Places
  <1>6. mode = "all" => /\ AllGranted(said[c], asked[c])
                        /\ scope <=> AllForSession(said[c], asked[c])
    <2>1. /\ AllGranted(said[c], asked[c]) <=> AllGranted(said[c], asked[c] - 1) /\ said[c][asked[c]] \in Approvals!Grants
          /\ AllForSession(said[c], asked[c]) <=>
                AllForSession(said[c], asked[c] - 1) /\ said[c][asked[c]] = "granted_session"
      <3> DEFINE k == asked[c] - 1
      <3>1. k \in Nat /\ k + 1 = asked[c]
        BY <1>01
      <3> HIDE DEF k
      <3>2. /\ AllGranted(said[c], k + 1) <=> AllGranted(said[c], k) /\ said[c][k + 1] \in Approvals!Grants
            /\ AllForSession(said[c], k + 1) <=>
                  AllForSession(said[c], k) /\ said[c][k + 1] = "granted_session"
        BY <3>1, OneMoreAsked
      <3> USE DEF k
      <3> QED  BY <3>1, <3>2
    <2> QED  BY <1>0, <2>1 DEF CallerInv, GrantedSoFar
  <1>7. GrantedSoFar(c)'
    <2>1. asked'[c] - 1 = asked[c] /\ (mode' = "direct" => FALSE)
      BY <1>01, <1>1, <1>2
    <2> QED  BY <1>1, <1>3, <1>6, <2>1 DEF GrantedSoFar
  <1>8. CallerInv(c)' 
    BY <1>0, <1>1, <1>7 DEF CallerInv, Backed, Approvals!Grants
  <1>9. ASSUME NEW e \in Callers, e # c PROVE CallerInv(e)'
    BY <1>1, <1>2, <1>3, <1>4, <1>9, OthersStay DEF ChainInv
  <1> QED  BY <1>5, <1>8, <1>9 DEF ChainInv

LEMMA DecideKeeps ==
  ASSUME Approvals!ChainConfigured, ChainInv, NEW c \in Callers, NEW d \in Approvals!Decisions,
         asker[c] # "done", Approvals!Decide(c, d),
         d \in Approvals!Grants => said[c][asked[c]] = d,
         tty_lock' \in Callers \cup {NoCaller}, screen' \in Callers \cup {NoCaller},
         UNCHANGED <<Approvals!config, said>>
  PROVE  ChainInv'
  <1>0. /\ /\ mode \in {"all", "any", "direct"}
        /\ asked[c] \in 1 .. Len(chain)
        /\ Len(chain) \in Nat
        /\ session \in [Callers -> BOOLEAN] /\ GrantedSoFar(c)
    BY ChainLength DEF ChainInv, Approvals!TypeOK, Approvals!ChainConfigured, CallerInv
  <1>1. CASE mode = "direct"
    <2>1. Approvals!Return(c, d) /\ MayReturn(c, d)
      BY <1>0, <1>1 DEF Approvals!Decide, GrantedSoFar, MayReturn
    <2> QED  BY <2>1, CallerReturns
  <1>2. CASE mode = "any"
    <2>1. Approvals!request_any(c, d)
      BY <1>2 DEF Approvals!Decide
    <2>2. CASE d \in Approvals!Grants
      <3>1. Approvals!Return(c, d) /\ MayReturn(c, d)
        BY <1>2, <2>1, <2>2 DEF Approvals!request_any, MayReturn
      <3> QED  BY <3>1, CallerReturns
    <2>3. CASE d \notin Approvals!Grants /\ Approvals!Last(c)
      <3>1. /\ Approvals!Return(c, "denied")
            /\ "denied" \in Approvals!Decisions
            /\ MayReturn(c, "denied")
        BY <2>1, <2>3
           DEF Approvals!request_any, Approvals!Decisions, Approvals!Grants, MayReturn
      <3> QED  BY <3>1, CallerReturns
    <2>4. CASE d \notin Approvals!Grants /\ ~Approvals!Last(c)
      <3>1. Approvals!AskNext(c) /\ session' = session
        BY <2>1, <2>4 DEF Approvals!request_any
      <3>2. session' = [session EXCEPT ![c] = session[c]] /\ session[c] \in BOOLEAN
        BY <1>0, <3>1
      <3> QED  BY <1>2, <2>4, <3>1, <3>2, CallerGoesOn
    <2> QED  BY <2>2, <2>3, <2>4
  <1>3. CASE mode = "all"
    <2>1. Approvals!request_all(c, d)
      BY <1>3 DEF Approvals!Decide
    <2>2. CASE d \in Approvals!Grants /\ ~Approvals!Last(c)
      <3>1. /\ Approvals!AskNext(c)
            /\ session' = [session EXCEPT ![c] = Approvals!ForSession(c, d)]
        BY <2>1, <2>2 DEF Approvals!request_all, Approvals!Grants
      <3>2. Approvals!ForSession(c, d) \in BOOLEAN
        BY <1>0 DEF Approvals!ForSession
      <3>3. said[c][asked[c]] \in Approvals!Grants /\ (Approvals!ForSession(c, d) <=> session[c] /\ said[c][asked[c]] = "granted_session")
        BY <2>2 DEF Approvals!ForSession
      <3> QED  BY <1>3, <2>2, <3>1, <3>2, <3>3, CallerGoesOn
    <2>3. CASE d \in Approvals!Grants /\ Approvals!Last(c)
      <3>0. asked[c] = Len(chain)
        BY <2>3 DEF Approvals!Last
      <3> DEFINE r == IF Approvals!ForSession(c, d) THEN "granted_session" ELSE "granted"
      <3>1. Approvals!Return(c, r)
        BY <2>1, <2>3 DEF Approvals!request_all, Approvals!Grants
      <3>2. r \in Approvals!Decisions /\ (r = "granted_session" <=> session[c] /\ said[c][asked[c]] = "granted_session")
        BY <2>3 DEF Approvals!Grants, Approvals!Decisions, Approvals!ForSession
      <3> HIDE DEF r
      <3>3. PICK k \in Nat : k + 1 = Len(chain) /\ asked[c] - 1 = k
        <4>1. asked[c] - 1 \in Nat /\ (asked[c] - 1) + 1 = Len(chain)
          BY <1>0, <3>0
        <4> QED  BY <4>1
      <3>4. /\ AllGranted(said[c], k + 1) <=> AllGranted(said[c], k) /\ said[c][k + 1] \in Approvals!Grants
            /\ AllForSession(said[c], k + 1) <=>
                  AllForSession(said[c], k) /\ said[c][k + 1] = "granted_session"
        BY OneMoreAsked
      <3>5. /\ AllGranted(said[c], Len(chain))
            /\ r = "granted_session" <=> AllForSession(said[c], Len(chain))
        BY <1>0, <1>3, <2>3, <3>0, <3>2, <3>3, <3>4 DEF GrantedSoFar
      <3>6. MayReturn(c, r)
        BY <1>3, <3>5 DEF MayReturn
      <3> QED  BY <3>1, <3>2, <3>6, CallerReturns
    <2>4. CASE d \notin Approvals!Grants
      <3>1. PICK r \in Approvals!Decisions \ Approvals!Grants : Approvals!Return(c, r)
        <4>1. CASE d = "timeout"
          <5>1. /\ Approvals!Return(c, "denied")
                /\ "denied" \in Approvals!Decisions \ Approvals!Grants
            BY <2>1, <2>4, <4>1 DEF Approvals!request_all, Approvals!Decisions, Approvals!Grants
          <5> QED  BY <5>1
        <4>2. CASE d # "timeout"
          <5>1. Approvals!Return(c, d)
            BY <2>1, <2>4, <4>2 DEF Approvals!request_all
          <5> QED  BY <2>4, <5>1
        <4> QED  BY <4>1, <4>2
      <3>2. MayReturn(c, r)
        BY DEF MayReturn
      <3> QED  BY <3>1, <3>2, CallerReturns
    <2> QED  BY <2>2, <2>3, <2>4
  <1> QED  BY <1>0, <1>1, <1>2, <1>3

LEMMA DecideInTimeKeeps ==
  ASSUME Approvals!ChainConfigured, ChainInv, NEW c \in Callers, NEW d \in Approvals!Decisions,
         asker[c] # "done", Approvals!DecideInTime(c, d),
         d \in Approvals!Grants => said[c][asked[c]] = d,
         tty_lock' \in Callers \cup {NoCaller}, screen' \in Callers \cup {NoCaller},
         UNCHANGED <<Approvals!config, said>>
  PROVE  ChainInv'
  <1>1. CASE deadline[c] = 0
    <2>1. /\ Approvals!Decide(c, "timeout")
          /\ "timeout" \in Approvals!Decisions
          /\ "timeout" \notin Approvals!Grants
      BY <1>1 DEF Approvals!DecideInTime, Approvals!Decisions, Approvals!Grants
    <2> QED  BY <2>1, DecideKeeps
  <1>2. CASE deadline[c] # 0
    BY <1>2, DecideKeeps DEF Approvals!DecideInTime
  <1> QED  BY <1>1, <1>2

LEMMA StepKeeps ==
  ASSUME Approvals!ChainConfigured, ChainInv, NEW c \in Callers,
         Approvals!Begin(c) \/ Approvals!Step(c) \/ Approvals!HopBreaks(c) \/ Approvals!PromptFails(c)
  PROVE  ChainInv'
  <1>0. /\ Approvals!TypeOK /\ CallerInv(c)
        /\ {"timeout", "denied", "error"} \subseteq Approvals!Decisions \ Approvals!Grants
        /\ tty_lock \in Callers \cup {NoCaller} /\ screen \in Callers \cup {NoCaller}
    BY DEF ChainInv, Approvals!TypeOK, Approvals!Decisions, Approvals!Grants
  <1>t. /\ \A t \in Nat : [own EXCEPT ![c] = t] \in [Callers -> Nat]
        /\ \A t \in Nat : [hop EXCEPT ![c] = t] \in [Callers -> Nat]
        /\ own \in [Callers -> Nat] /\ hop \in [Callers -> Nat]
        /\ \A k \in Approvals!Kinds : Timeout[k] \in Nat
        /\ \A t \in Nat : Approvals!HopTimeout(t) \in Nat
    BY <1>0
       DEF Approvals!TypeOK, Approvals!ChainConfigured, Approvals!HopTimeout, Approvals!Max2
  <1>p. {"ask", "slot", "prompt", "wire", "backoff"} \subseteq Places \ {"done", "reply"}
    BY DEF Places
  <1>1. CASE Approvals!Begin(c)
    <2>1. /\ asker[c] # "done"
          /\ UNCHANGED <<Approvals!config, Approvals!terminal, said, tty_lock, screen>>
      BY <1>1 DEF Approvals!Begin, Approvals!terminal
    <2>2. CASE deadline[c] = 0
      <3>1. /\ Approvals!Return(c, "timeout")
            /\ MayReturn(c, "timeout")
            /\ "timeout" \in Approvals!Decisions
        BY <1>0, <1>1, <2>2 DEF Approvals!Begin, MayReturn
      <3> QED  BY <1>0, <2>1, <3>1, CallerReturns
    <2>3. CASE deadline[c] # 0
      <3>1. /\ asker' = [asker EXCEPT ![c] = "ask"]
            /\ UNCHANGED <<asked, session, deadline, own, hop, reply, result>>
        BY <1>1, <2>3 DEF Approvals!Begin, Approvals!budgets
      <3> QED  BY <1>0, <1>t, <1>p, <2>1, <3>1, CallerMoves
    <2> QED  BY <2>2, <2>3
  <1>2. CASE Approvals!AskExpired(c) \/ Approvals!NoTerminal(c) \/ Approvals!SlotTimeout(c)
    <2>1. PICK d \in {"timeout", "denied"} : Approvals!Decide(c, d)
      BY <1>2 DEF Approvals!AskExpired, Approvals!NoTerminal, Approvals!SlotTimeout
    <2>2. asker[c] # "done" /\ UNCHANGED <<Approvals!config, said, tty_lock, screen>>
      BY <1>2
         DEF Approvals!AskExpired, Approvals!NoTerminal, Approvals!SlotTimeout,
             Approvals!terminal
    <2> QED  BY <1>0, <2>1, <2>2, DecideKeeps
  <1>3. CASE Approvals!AskTerminal(c)
    <2>1. /\ /\ asker[c] # "done"
          /\ asker' = [asker EXCEPT ![c] = "slot"]
          /\ own' = [own EXCEPT ![c] = Timeout["terminal"]]
          /\ UNCHANGED <<Approvals!config, asked, session, deadline, hop, reply, result, said, tty_lock, screen>>
      BY <1>3 DEF Approvals!AskTerminal, Approvals!terminal
    <2>2. own' \in [Callers -> Nat]
      BY <1>t, <2>1 DEF Approvals!Kinds
    <2> QED  BY <1>0, <1>t, <1>p, <2>1, <2>2, CallerMoves
  <1>4. CASE Approvals!Post(c)
    <2>1. /\ /\ asker[c] # "done"
          /\ asker' = [asker EXCEPT ![c] = "wire"]
          /\ own' = [own EXCEPT ![c] = Timeout["unsigned"]]
          /\ Approvals!Kind(c) # "terminal"
          /\ hop' = [hop EXCEPT ![c] = Timeout["unsigned"]]
          /\ UNCHANGED <<Approvals!config, asked, session, deadline, reply, result, said, tty_lock, screen>>
      BY <1>4 DEF Approvals!Post, Approvals!terminal
    <2>2. own' \in [Callers -> Nat] /\ hop' \in [Callers -> Nat]
      BY <1>t, <2>1 DEF Approvals!Kinds
    <2> QED  BY <1>0, <1>p, <2>1, <2>2, CallerMoves
  <1>5. CASE Approvals!Submit(c)
    <2>1. /\ /\ asker[c] # "done"
          /\ asker' = [asker EXCEPT ![c] = "wire"]
          /\ own' = [own EXCEPT ![c] = Timeout["platform"]]
          /\ Approvals!Kind(c) # "terminal"
          /\ hop' = [hop EXCEPT ![c] = Approvals!HopTimeout(Timeout["platform"])]
          /\ UNCHANGED <<Approvals!config, asked, session, deadline, reply, result, said, tty_lock, screen>>
      BY <1>5 DEF Approvals!Submit, Approvals!terminal
    <2>2. own' \in [Callers -> Nat] /\ hop' \in [Callers -> Nat]
      BY <1>t, <2>1 DEF Approvals!Kinds
    <2> QED  BY <1>0, <1>p, <2>1, <2>2, CallerMoves
  <1>6. CASE Approvals!TakeSlot(c)
    <2>1. /\ /\ asker[c] # "done"
          /\ asker' = [asker EXCEPT ![c] = "prompt"]
          /\ tty_lock' = c
          /\ screen' = c
          /\ UNCHANGED <<Approvals!config, asked, session, deadline, own, hop, reply, result, said>>
      BY <1>6 DEF Approvals!TakeSlot, Approvals!budgets
    <2> QED  BY <1>t, <1>p, <2>1, CallerMoves
  <1>7. CASE Approvals!PromptTimeout(c) \/ Approvals!PromptFails(c)
    <2>1. PICK d \in {"timeout", "error"} : Approvals!Decide(c, d)
      BY <1>7 DEF Approvals!PromptTimeout, Approvals!PromptFails
    <2>2. /\ asker[c] # "done"
          /\ tty_lock' = NoCaller
          /\ UNCHANGED <<Approvals!config, said, screen>>
      BY <1>7 DEF Approvals!PromptTimeout, Approvals!PromptFails
    <2> QED  BY <1>0, <2>1, <2>2, DecideKeeps
  <1>8. CASE Approvals!TakeAnswer(c)
    <2> DEFINE d == IF Approvals!Expired(c) THEN "timeout" ELSE reply[c]
    <2>1. /\ asker[c] = "reply"
          /\ Approvals!Kind(c) = "terminal"
          /\ Approvals!Decide(c, d)
          /\ tty_lock' = NoCaller
          /\ UNCHANGED <<Approvals!config, said, screen>>
      BY <1>8 DEF Approvals!TakeAnswer
    <2>2. d \in Approvals!Decisions /\ (d \in Approvals!Grants => said[c][asked[c]] = d)
      BY <1>0, <2>1 DEF CallerInv
    <2> HIDE DEF d
    <2> QED  BY <1>0, <2>1, <2>2, DecideKeeps
  <1>9. CASE Approvals!HopBreaks(c) \/ Approvals!HopFails(c) \/ Approvals!PollsOver(c)
    <2>1. PICK d \in {"timeout", "error"} : Approvals!DecideInTime(c, d)
      BY <1>9 DEF Approvals!HopBreaks, Approvals!HopFails, Approvals!PollsOver
    <2>2. asker[c] # "done" /\ UNCHANGED <<Approvals!config, said, tty_lock, screen>>
      BY <1>9
         DEF Approvals!HopBreaks, Approvals!HopFails, Approvals!PollsOver, Approvals!terminal
    <2> QED  BY <1>0, <2>1, <2>2, DecideInTimeKeeps
  <1>10. CASE Approvals!TakeResponse(c)
    <2>1. /\ asker[c] = "reply"
          /\ Approvals!Kind(c) = "unsigned"
          /\ Approvals!DecideInTime(c, reply[c])
          /\ UNCHANGED <<Approvals!config, said, tty_lock, screen>>
      BY <1>10 DEF Approvals!TakeResponse, Approvals!terminal
    <2>2. reply[c] \in Approvals!Decisions /\ said[c][asked[c]] = reply[c]
      BY <1>0, <2>1 DEF CallerInv
    <2> QED  BY <1>0, <2>1, <2>2, DecideInTimeKeeps
  <1>11. CASE Approvals!TakeStatus(c)
    <2>1. /\ asker[c] = "reply"
          /\ Approvals!Kind(c) # "terminal"
          /\ UNCHANGED <<Approvals!config, said, tty_lock, screen>>
      BY <1>11 DEF Approvals!TakeStatus, Approvals!terminal
    <2>2. CASE reply[c] = "pending" /\ own[c] > 0
      <3>1. /\ asker' = [asker EXCEPT ![c] = "backoff"]
            /\ UNCHANGED <<asked, session, deadline, own, hop, reply, result>>
        BY <1>11, <2>2 DEF Approvals!TakeStatus, Approvals!budgets
      <3> QED  BY <1>0, <1>t, <1>p, <2>1, <3>1, CallerMoves
    <2>3. CASE ~(reply[c] = "pending" /\ own[c] > 0)
      <3> DEFINE d == IF own[c] = 0 THEN "timeout" ELSE reply[c]
      <3>1. Approvals!DecideInTime(c, d)
        BY <1>11, <2>3 DEF Approvals!TakeStatus
      <3>2. own[c] \in Nat
        BY <1>t
      <3>3. d \in Approvals!Decisions /\ (d \in Approvals!Grants => said[c][asked[c]] = d)
        BY <1>0, <2>1, <2>3, <3>2 DEF CallerInv
      <3> HIDE DEF d
      <3> QED  BY <1>0, <2>1, <3>1, <3>3, DecideInTimeKeeps
    <2> QED  BY <2>2, <2>3
  <1>12. CASE Approvals!Poll(c)
    <2>1. /\ /\ asker[c] # "done"
          /\ asker' = [asker EXCEPT ![c] = "wire"]
          /\ hop' = [hop EXCEPT ![c] = Approvals!HopTimeout(own[c])]
          /\ Approvals!Kind(c) # "terminal"
          /\ UNCHANGED <<Approvals!config, asked, session, deadline, own, reply, result, said, tty_lock, screen>>
      BY <1>0, <1>12 DEF Approvals!Poll, Approvals!terminal, CallerInv
    <2>2. hop' \in [Callers -> Nat]
      BY <1>t, <2>1
    <2> QED  BY <1>0, <1>t, <1>p, <2>1, <2>2, CallerMoves
  <1> QED
    BY <1>1, <1>2, <1>3, <1>4, <1>5, <1>6, <1>7, <1>8, <1>9, <1>10, <1>11, <1>12
       DEF Approvals!Step

LEMMA TickKeeps == ASSUME Approvals!ChainConfigured, ChainInv, Approvals!Tick PROVE ChainInv'
  <1>0. Approvals!TypeOK /\ NoDeadline \in Nat /\ \A t \in Nat : Approvals!Less(t) \in Nat
    BY DEF ChainInv, Approvals!ChainConfigured, Approvals!Less
  <1>1. deadline' \in [Callers -> Nat]
    BY <1>0 DEF Approvals!Tick, Approvals!TypeOK
  <1>2. own' \in [Callers -> Nat] /\ hop' \in [Callers -> Nat]
    BY <1>0 DEF Approvals!Tick, Approvals!TypeOK
  <1>3. UNCHANGED <<mode, chain, asker, asked, session, reply, result, tty_lock, screen, said>>
    BY DEF Approvals!Tick, Approvals!config, Approvals!terminal
  <1>4. Approvals!TypeOK'
    BY <1>0, <1>1, <1>2, <1>3 DEF Approvals!TypeOK
  <1>5. ASSUME NEW e \in Callers PROVE CallerInv(e)'
    BY <1>3, OthersStay DEF ChainInv
  <1> QED  BY <1>4, <1>5 DEF ChainInv

LEMMA ChainNext ==
  ASSUME Approvals!ChainConfigured, ChainInv, [Approvals!Next]_(Approvals!vars)
  PROVE  ChainInv'
  <1>1. CASE UNCHANGED Approvals!vars
    <2>1. UNCHANGED <<mode, chain, asker, asked, session, deadline, own, hop, reply, result, tty_lock, screen, said>>
      BY <1>1 DEF Approvals!vars, Approvals!config, Approvals!budgets, Approvals!terminal
    <2>2. Approvals!TypeOK'
      BY <2>1 DEF ChainInv, Approvals!TypeOK
    <2>3. ASSUME NEW e \in Callers PROVE CallerInv(e)'
      BY <2>1, OthersStay DEF ChainInv
    <2> QED  BY <2>2, <2>3 DEF ChainInv
  <1>2. ASSUME NEW c \in Callers, NEW d \in Approvals!Decisions, Approvals!Answer(c, d) PROVE ChainInv'
    <2>1. d \in Approvals!Decisions \cup {"pending"} /\ d # "pending"
      BY DEF Approvals!Decisions, Approvals!Grants
    <2> QED  BY <1>2, <2>1, CallerAnswered DEF Approvals!Answer
  <1>3. ASSUME NEW c \in Callers, NEW d \in Approvals!Decisions \cup {"pending"}, Approvals!Reply(c, d) PROVE ChainInv'
    <2>1. Approvals!TypeOK /\ CallerInv(c) /\ asker[c] = "wire"
      BY <1>3 DEF ChainInv, Approvals!Reply
    <2>2. Approvals!Kind(c) \in Approvals!Kinds /\ Approvals!Kind(c) # "terminal"
      BY <2>1, ChainLength DEF Approvals!TypeOK, Approvals!Kind, CallerInv
    <2>3. d = "pending" => Approvals!Kind(c) = "platform"
      BY <1>3, <2>2
         DEF Approvals!Reply, Approvals!Replies, Approvals!Kinds, Approvals!Decisions,
             Approvals!Grants
    <2> QED  BY <1>3, <2>1, <2>3, CallerAnswered DEF Approvals!Reply
  <1> QED  BY <1>1, <1>2, <1>3, StepKeeps, TickKeeps DEF Approvals!Next

\* ChainInv is an invariant of the callers and the chain.
THEOREM ChainInvariant ==
  Approvals!ChainConfigured /\ Approvals!Spec => [](Approvals!ChainConfigured /\ ChainInv)
  <1>1. Approvals!ChainConfigured /\ Approvals!Init => ChainInv
    BY ChainBegins
  <1>2. Approvals!ChainConfigured /\ ChainInv /\ [Approvals!Next]_(Approvals!vars) => ChainInv'
    BY ChainNext
  <1>3. Approvals!ChainConfigured => [](Approvals!ChainConfigured)
    OBVIOUS
  <1> QED  BY <1>1, <1>2, <1>3, PTL DEF Approvals!Spec

\* For every chain, mode, deadline and number of callers, a grant is backed by the
\* answers of the backends, with no wider scope than they gave.
THEOREM GrantsAreBacked == Approvals!ChainConfigured /\ Approvals!Spec => []GrantIsBacked
  <1>1. Approvals!ChainConfigured /\ ChainInv => Approvals!GrantIsBacked
    BY ChainInvBacks
  <1>9. Approvals!GrantIsBacked => GrantIsBacked
    BY DEF GrantIsBacked
  <1> QED  BY <1>9, <1>1, ChainInvariant, PTL

\* A decision is about its own caller, and what is no grant neither grants nor
\* lets an "all" chain go on.
LEMMA DecisionIsLocal ==
  ASSUME Approvals!ChainConfigured, Approvals!TypeOK, NEW c \in Callers, NEW d,
         Approvals!Decide(c, d)
  PROVE  /\ \A e \in Callers : e # c => result'[e] = result[e] /\ asked'[e] = asked[e]
         /\ d \notin Approvals!Grants => result'[c] \in {result[c], d, "denied"} /\ (mode = "all" => asked'[c] = asked[c])
  <1>0. mode \in {"all", "any", "direct"}
    BY DEF Approvals!TypeOK, Approvals!ChainConfigured
  <1>1. ASSUME NEW r, Approvals!Return(c, r)
        PROVE  result'[c] = r /\ asked' = asked /\ \A e \in Callers : e # c => result'[e] = result[e]
    BY <1>1 DEF Approvals!Return, Approvals!TypeOK
  <1>2. ASSUME Approvals!AskNext(c)
        PROVE  result' = result /\ \A e \in Callers : e # c => asked'[e] = asked[e]
    BY <1>2 DEF Approvals!AskNext, Approvals!TypeOK
  <1>3. CASE mode = "direct"
    <2>1. Approvals!Return(c, d)
      BY <1>3 DEF Approvals!Decide
    <2> QED  BY <1>1, <2>1
  <1>4. CASE mode = "any"
    <2>1. Approvals!request_any(c, d)
      BY <1>4 DEF Approvals!Decide
    <2>2. Approvals!Return(c, d) \/ Approvals!Return(c, "denied") \/ Approvals!AskNext(c)
      BY <2>1 DEF Approvals!request_any
    <2> QED  BY <1>1, <1>2, <1>4, <2>2
  <1>5. CASE mode = "all"
    <2>1. Approvals!request_all(c, d)
      BY <1>5 DEF Approvals!Decide
    <2>2. CASE d \in Approvals!Grants /\ ~Approvals!Last(c)
      <3>1. Approvals!AskNext(c)
        BY <2>1, <2>2 DEF Approvals!request_all, Approvals!Grants
      <3> QED  BY <1>2, <2>2, <3>1
    <2>3. CASE d \in Approvals!Grants /\ Approvals!Last(c)
      <3>1. Approvals!Return(c, IF Approvals!ForSession(c, d) THEN "granted_session" ELSE "granted")
        BY <2>1, <2>3 DEF Approvals!request_all, Approvals!Grants
      <3> QED  BY <1>1, <2>3, <3>1
    <2>4. CASE d \notin Approvals!Grants
      <3>1. Approvals!Return(c, d) \/ Approvals!Return(c, "denied")
        BY <2>1, <2>4 DEF Approvals!request_all
      <3> QED  BY <1>1, <3>1
    <2> QED  BY <2>2, <2>3, <2>4
  <1> QED  BY <1>0, <1>3, <1>4, <1>5

\* A step of one caller neither answers another nor takes its chain further.
LEMMA StepIsLocal ==
  ASSUME Approvals!ChainConfigured, Approvals!TypeOK, NEW c \in Callers,
         Approvals!Begin(c) \/ Approvals!Step(c) \/ Approvals!HopBreaks(c) \/ Approvals!PromptFails(c)
  PROVE  \A e \in Callers : e # c => result'[e] = result[e] /\ asked'[e] = asked[e]
  <1>1. CASE \E d : Approvals!Decide(c, d)
    BY <1>1, DecisionIsLocal
  <1>2. CASE UNCHANGED <<asked, result>>
    BY <1>2
  <1>3. CASE Approvals!Return(c, "timeout")
    BY <1>3 DEF Approvals!Return, Approvals!TypeOK
  <1>4. (\E d : Approvals!Decide(c, d)) \/ UNCHANGED <<asked, result>> \/ Approvals!Return(c, "timeout")
    <2>1. CASE Approvals!Begin(c)
      BY <2>1 DEF Approvals!Begin
    <2>2. CASE Approvals!AskExpired(c) \/ Approvals!NoTerminal(c) \/ Approvals!SlotTimeout(c) \/ Approvals!PromptTimeout(c) \/ Approvals!PromptFails(c)
      BY <2>2
         DEF Approvals!AskExpired, Approvals!NoTerminal, Approvals!SlotTimeout,
             Approvals!PromptTimeout, Approvals!PromptFails
    <2>3. CASE Approvals!AskTerminal(c) \/ Approvals!Post(c) \/ Approvals!Submit(c) \/ Approvals!TakeSlot(c) \/ Approvals!Poll(c)
      BY <2>3
         DEF Approvals!AskTerminal, Approvals!Post, Approvals!Submit, Approvals!TakeSlot,
             Approvals!Poll
    <2>4. CASE Approvals!HopFails(c) \/ Approvals!HopBreaks(c) \/ Approvals!PollsOver(c) \/ Approvals!TakeResponse(c)
      BY <2>4
         DEF Approvals!HopFails, Approvals!HopBreaks, Approvals!PollsOver,
             Approvals!TakeResponse, Approvals!DecideInTime
    <2>5. CASE Approvals!TakeAnswer(c)
      BY <2>5 DEF Approvals!TakeAnswer
    <2>6. CASE Approvals!TakeStatus(c)
      BY <2>6 DEF Approvals!TakeStatus, Approvals!DecideInTime
    <2> QED  BY <2>1, <2>2, <2>3, <2>4, <2>5, <2>6 DEF Approvals!Step
  <1> QED  BY <1>1, <1>2, <1>3, <1>4

\* A step that looks at a reply.
LEMMA ReplyTakenInTime ==
  ASSUME Approvals!ChainConfigured, ChainInv, NEW c \in Callers, asker[c] = "reply",
         Approvals!Begin(c) \/ Approvals!Step(c) \/ Approvals!HopBreaks(c) \/ Approvals!PromptFails(c),
         result'[c] \in Approvals!Grants \/ (mode = "all" /\ asked'[c] # asked[c])
  PROVE  deadline[c] > 0 /\ (Approvals!Kind(c) # "unsigned" => own[c] > 0)
  <1>0. /\ Approvals!TypeOK /\ result[c] = "none" /\ deadline[c] \in Nat /\ own[c] \in Nat
        /\ {"none", "timeout", "denied"} \cap Approvals!Grants = {}
    BY DEF ChainInv, CallerInv, Approvals!TypeOK, Approvals!Grants
  <1>1. ASSUME NEW d, Approvals!Decide(c, d) PROVE d \in Approvals!Grants
    BY <1>0, <1>1, DecisionIsLocal
  <1>2. ~Approvals!Decide(c, "timeout")
    BY <1>0, <1>1
  <1>3. Approvals!TakeAnswer(c) \/ Approvals!TakeResponse(c) \/ Approvals!TakeStatus(c)
    BY DEF Approvals!Begin, Approvals!Step, Approvals!AskExpired, Approvals!NoTerminal,
           Approvals!SlotTimeout, Approvals!PromptTimeout, Approvals!PromptFails,
           Approvals!AskTerminal, Approvals!Post,
           Approvals!Submit, Approvals!TakeSlot, Approvals!Poll, Approvals!HopFails,
           Approvals!HopBreaks, Approvals!PollsOver
  <1>4. CASE Approvals!TakeAnswer(c)
    BY <1>0, <1>2, <1>4 DEF Approvals!TakeAnswer, Approvals!Expired
  <1>5. CASE Approvals!TakeResponse(c)
    BY <1>0, <1>2, <1>5 DEF Approvals!TakeResponse, Approvals!DecideInTime
  <1>6. CASE Approvals!TakeStatus(c)
    <2>1. CASE reply[c] = "pending" /\ own[c] > 0
      <3>1. UNCHANGED <<asked, result>>
        BY <1>6, <2>1 DEF Approvals!TakeStatus
      <3> QED  BY <1>0, <3>1
    <2>2. CASE ~(reply[c] = "pending" /\ own[c] > 0)
      <3>1. Approvals!Decide(c, IF deadline[c] = 0 THEN "timeout" ELSE IF own[c] = 0 THEN "timeout" ELSE reply[c])
        BY <1>6, <2>2 DEF Approvals!TakeStatus, Approvals!DecideInTime
      <3> QED  BY <1>0, <1>2, <3>1
    <2> QED  BY <2>1, <2>2
  <1> QED  BY <1>3, <1>4, <1>5, <1>6

\* No answer that came after its deadline is returned as a grant or takes an "all"
\* chain further.
THEOREM LateGrantsNeverCount ==
  Approvals!ChainConfigured /\ Approvals!Spec => LateGrantNeverCounts
  <1>1. Approvals!ChainConfigured /\ ChainInv /\ [Approvals!Next]_(Approvals!vars) => [Approvals!GrantInTime]_(Approvals!vars)
    <2> SUFFICES ASSUME Approvals!ChainConfigured, ChainInv, Approvals!Next PROVE Approvals!GrantInTime
      OBVIOUS
    <2> SUFFICES ASSUME NEW c \in Callers, asker[c] = "reply",
                        result'[c] \in Approvals!Grants \/ (mode = "all" /\ asked'[c] # asked[c])
                 PROVE  deadline[c] > 0 /\ (Approvals!Kind(c) # "unsigned" => own[c] > 0)
      BY DEF Approvals!GrantInTime
    <2>0. Approvals!TypeOK /\ result[c] = "none" /\ "none" \notin Approvals!Grants
      BY DEF ChainInv, CallerInv, Approvals!Grants
    <2>1. ASSUME NEW e \in Callers, Approvals!Begin(e) \/ Approvals!Step(e) \/ Approvals!HopBreaks(e) \/ Approvals!PromptFails(e)
          PROVE  deadline[c] > 0 /\ (Approvals!Kind(c) # "unsigned" => own[c] > 0)
      <3>1. CASE e = c
        BY <2>1, <3>1, ReplyTakenInTime
      <3>2. CASE e # c
        BY <2>0, <2>1, <3>2, StepIsLocal
      <3> QED  BY <3>1, <3>2
    <2>2. ~UNCHANGED <<asked, result>>
      BY <2>0
    <2> QED  BY <2>1, <2>2 DEF Approvals!Next, Approvals!Answer, Approvals!Reply, Approvals!Tick
  <1>2. Approvals!ChainConfigured /\ Approvals!Spec => [][Approvals!GrantInTime]_(Approvals!vars)
    BY <1>1, ChainInvariant, PTL DEF Approvals!Spec
  <1> QED  BY <1>2 DEF LateGrantNeverCounts, Approvals!LateGrantNeverCounts
=============================================================================
