---------------------- MODULE KConditionVariable_proofs ----------------------
(***************************************************************************)
(* Proofs about KConditionVariable: guest mutexes exclude each other, no   *)
(* wake-up is lost and nobody queues on a dead owner, whoever times out,   *)
(* is terminated or exits, for every number of threads, mutexes and        *)
(* condition variables.                                                    *)
(***************************************************************************)
EXTENDS KConditionVariable, KThreadWaiters_proofs

\* What there is to know of mutex words.
LEMMA WordFacts ==
    /\ Free \in Words /\ Free.owner = NoThread
    /\ \A u \in Threads : /\ Owned(u) \in Words /\ Owned(u).owner = u
                          /\ Contended(u) \in Words /\ Contended(u).owner = u
                          /\ Owned(u) # Contended(u)
    /\ \A w \in Words : /\ w.owner \in Threads \cup {NoThread}
                        /\ w.owner \in Threads => w \in {Owned(w.owner), Contended(w.owner)}
BY NoThreadAssumption DEF Words, Free, Owned, Contended

\* The waiter graph is as it was.
LEMMA SameGraph ==
    ASSUME WaiterInv, UNCHANGED waiterVars
    PROVE  WaiterInv'
BY WaiterInvNext

\* The type invariant of the waiter graph is part of CvTypeOK.
LEMMA GraphTypes ==
    ASSUME CvTypeOK
    PROVE  /\ waitingLock \in [Threads -> Keys \cup {NoKey}]
           /\ lockOwner \in [Keys -> Threads \cup {NoThread}]
           /\ tree \in [Keys -> Seq(Threads)]
           /\ priority \in [Threads -> Priorities]
           /\ UserKeys \subseteq Keys /\ NoKey \notin UserKeys
BY NoKeyAssumption DEF CvTypeOK, TypeOK, Keys

\* Where the values of the variables lie.
LEMMA Ranges ==
    ASSUME CvInv
    PROVE  /\ section \in Threads \cup {NoThread} /\ target \in Threads \cup {NoThread}
           /\ next \in Words /\ next.owner \in Threads \cup {NoThread}
           /\ word \in [UserKeys -> Words] /\ held \in [Threads -> SUBSET UserKeys]
           /\ \A m \in UserKeys : word[m].owner \in Threads \cup {NoThread}
           /\ \A u \in Threads : arg[u] \in UserKeys \cup {NoKey}
           /\ NoKey \notin UserKeys /\ NoThread \notin Threads
BY GraphTypes, WordFacts, NoThreadAssumption DEF CvInv, CvTypeOK

-----------------------------------------------------------------------------
(* Who has to be named by a mutex word *)

\* Thread u holds mutex m, or is in the call in which it gives m up.
Claims(u, m) ==
    \/ InGuest(u) /\ m \in held[u]
    \/ arg[u] = m /\ pc[u] \in {"unlock", "handover", "enqueue", "exitHandover"}

\* The word of a mutex names the thread that owns it.
LEMMA ClaimantIsOwner ==
    ASSUME CvInv, NEW u \in Threads, NEW m \in UserKeys, Claims(u, m)
    PROVE  word[m].owner = u
BY DEF CvInv, Claims, HolderOwnsMutex, ReleasingOwns

\* The mutex that is handed over is claimed by the call that does it.
LEMMA GiverClaims ==
    ASSUME CvInv, NEW m \in UserKeys, HandingOver(m)
    PROVE  section \in Threads /\ Claims(section, m)
BY DEF CvInv, CvTypeOK, HandingOver, Claims

\* A thread that was told it has the mutex of its wait, or is just being told.
IsServed(u, m) ==
    \/ /\ pc[u] = "waitCv" /\ state[u] = "Runnable" /\ result[u] = "Success" /\ arg[u] = m
    \/ /\ target = u /\ section # NoThread /\ next = Free /\ arg[u] = m

\* Nobody but its owner depends on what the word of a mutex is, unless it has the
\* wait mask.
LEMMA OnlyOwnerDepends ==
    ASSUME CvInv, NEW m \in UserKeys, NEW o \in Threads \cup {NoThread},
           word[m].owner = o, ~HandingOver(m)
    PROVE  /\ \A u \in Threads : Claims(u, m) => u = o
           /\ \A u \in Threads : IsServed(u, m) => u = o
           /\ word[m] # Contended(o) \/ o \notin Threads =>
                /\ lockOwner[m] = NoThread
                /\ \A u \in Threads : pc[u] = "attach" => arg[u] # m
                /\ target # NoThread /\ section # NoThread /\ next # Free => arg[target] # m
<1> USE DEF CvInv
<1>1. \A u \in Threads : Claims(u, m) => u = o
  BY ClaimantIsOwner
<1>2. EffectiveWord(m) = word[m]
  BY DEF EffectiveWord
<1>3. ASSUME NEW u \in Threads, IsServed(u, m) PROVE u = o
  <2>1. CASE pc[u] = "waitCv" /\ state[u] = "Runnable" /\ result[u] = "Success" /\ arg[u] = m
    BY <1>2, <2>1 DEF WokenOwns
  <2>2. CASE target = u /\ section # NoThread /\ next = Free /\ arg[u] = m
    BY <2>2, NoThreadAssumption DEF SignalledGetsMutex
  <2>3. QED BY <1>3, <2>1, <2>2 DEF IsServed
<1>4. ASSUME NEW u \in Threads, word[m] = Contended(u) PROVE o = u
  BY <1>4, WordFacts
<1>5. ASSUME word[m] # Contended(o) \/ o \notin Threads
      PROVE  \A u \in Threads : word[m] # Contended(u)
  BY <1>4, <1>5
<1>6. lockOwner[m] \in Threads \cup {NoThread}
  BY GraphTypes
<1>7. next \in Words /\ (next.owner = NoThread => next = Free)
  BY DEF CvTypeOK, WordsWellFormed
<1>8. ASSUME \A u \in Threads : word[m] # Contended(u)
      PROVE  /\ lockOwner[m] = NoThread
             /\ \A u \in Threads : pc[u] = "attach" => arg[u] # m
             /\ target # NoThread /\ section # NoThread /\ next # Free => arg[target] # m
  <2>1. lockOwner[m] = NoThread
    BY <1>2, <1>6, <1>8 DEF QueueMatchesWord
  <2>2. \A u \in Threads : pc[u] = "attach" => arg[u] # m
    BY <1>8 DEF ReleasingOwns, CallsHaveArguments
  <2>3. target # NoThread /\ section # NoThread /\ next # Free => arg[target] # m
    BY <1>7, <1>8, WordFacts DEF SignalledGetsMutex
  <2>4. QED BY <2>1, <2>2, <2>3
<1>9. QED
  BY <1>1, <1>3, <1>5, <1>8

\* What an exiting thread held stays its own or a waiting thread's.
LEMMA StillPassedOn ==
    ASSUME NEW u, NEW m, OwnedOrPassedOn(u, m), word'[m].owner = word[m].owner,
           \A n \in Threads : pc[n] \in {"waitLock", "waitCv"} /\ arg[n] = m =>
               pc'[n] = pc[n] /\ arg'[n] = arg[n]
    PROVE  OwnedOrPassedOn(u, m)'
BY DEF OwnedOrPassedOn

-----------------------------------------------------------------------------
(* The guest's mutex library *)

\* A guest's step is none of the kernel's business.
LEMMA GuestFrame ==
    ASSUME CvInv, NEW t \in Threads, NEW label \in {"run", "arbitrate", "unlock"},
           pc[t] \in {"run", "recheck"}, pc' = [pc EXCEPT ![t] = label],
           \A u \in Threads : u # t => arg'[u] = arg[u] /\ cvArg'[u] = cvArg[u],
           UNCHANGED <<waiterVars, cvVars, threadVars, sectionVars>>
    PROVE  /\ WaiterInv' /\ NodeInOneTree' /\ CvTreeSorted' /\ TerminatedOwesNothing'
           /\ OneSection' /\ OnlySleepersAreLinked' /\ NextOwnerWaits'
           /\ \A m : HandingOver(m)' <=> HandingOver(m)
           /\ pc'[t] = label /\ t # section /\ section' = section
           /\ \A u \in Threads : u # t => pc'[u] = pc[u]
<1> USE DEF CvInv
<1>1. UNCHANGED <<waitingLock, lockOwner, priority, cvTree, waitingCv, state, result, section,
                  next, target>>
  BY DEF waiterVars, cvVars, threadVars, sectionVars
<1>2. pc'[t] = label /\ \A u \in Threads : u # t => pc'[u] = pc[u]
  BY DEF CvTypeOK
<1>3. /\ t # section /\ section \in Threads \cup {NoThread}
      /\ pc'[t] \notin SectionPlaces
  BY <1>2 DEF OneSection, CvTypeOK, SectionPlaces
<1>4. WaiterInv'
  BY SameGraph
<1>5. NodeInOneTree' /\ CvTreeSorted' /\ TerminatedOwesNothing'
  BY <1>1 DEF NodeInOneTree, CvTreeSorted, TerminatedOwesNothing
<1>6. OneSection'
  BY <1>1, <1>2, <1>3 DEF OneSection, SectionPlaces
<1>7. OnlySleepersAreLinked'
  BY <1>1, <1>2 DEF OnlySleepersAreLinked
<1>8. \A m : HandingOver(m)' <=> HandingOver(m)
  BY <1>1, <1>2, <1>3 DEF HandingOver
<1>9. NextOwnerWaits'
  <2> SUFFICES ASSUME NEW m \in UserKeys, HandingOver(m), next.owner # NoThread
               PROVE  /\ pc'[next.owner] \in {"waitLock", "waitCv"} /\ arg'[next.owner] = m
                      /\ waitingLock[next.owner] = NoKey /\ waitingCv[next.owner] = NoKey
                      /\ IF pc'[section] = "enqueue"
                         THEN state[next.owner] = "Runnable" /\ result[next.owner] = "Success"
                         ELSE state[next.owner] = "Waiting"
    BY <1>1, <1>2, <1>3, <1>8 DEF NextOwnerWaits, HandingOver
  <2>1. next.owner \in Threads
    BY WordFacts DEF CvTypeOK
  <2>2. next.owner # t /\ section # t /\ section \in Threads
    BY <1>3 DEF NextOwnerWaits, HandingOver
  <2>3. QED BY <1>2, <2>1, <2>2 DEF NextOwnerWaits
<1>10. QED
  BY <1>1, <1>2, <1>3, <1>4, <1>5, <1>6, <1>7, <1>8, <1>9

\* A guest takes a free mutex.
LEMMA TakesMutex ==
    ASSUME CvInv, NEW t \in Threads, NEW m \in UserKeys, pc[t] \in {"run", "recheck"},
           word[m] = Free, CompareExchange(t, m),
           UNCHANGED <<waiterVars, cvVars, threadVars, sectionVars, cvWord>>
    PROVE  CvInv'
<1> USE DEF CvInv
<1>1. /\ word' = [word EXCEPT ![m] = Owned(t)]
      /\ held' = [held EXCEPT ![t] = @ \cup {m}]
      /\ pc' = [pc EXCEPT ![t] = "run"] /\ arg' = [arg EXCEPT ![t] = NoKey]
      /\ cvArg' = [cvArg EXCEPT ![t] = NoKey] /\ seen' = [seen EXCEPT ![t] = NoThread]
  BY DEF CompareExchange, Leave, Goto
<1>2. UNCHANGED <<waitingLock, lockOwner, cvTree, waitingCv, state, timer, result,
                  terminationRequested, section, next, target, cvWord>>
  BY DEF waiterVars, cvVars, threadVars, sectionVars
<1>3. /\ word'[m] = Owned(t) /\ \A j \in UserKeys : j # m => word'[j] = word[j]
      /\ held'[t] = held[t] \cup {m} /\ arg'[t] = NoKey
      /\ \A u \in Threads : u # t => /\ held'[u] = held[u] /\ arg'[u] = arg[u]
                                    /\ cvArg'[u] = cvArg[u] /\ seen'[u] = seen[u]
  BY <1>1 DEF CvTypeOK
<1>4. /\ WaiterInv' /\ NodeInOneTree' /\ CvTreeSorted' /\ TerminatedOwesNothing'
      /\ OneSection' /\ OnlySleepersAreLinked' /\ NextOwnerWaits'
      /\ \A j : HandingOver(j)' <=> HandingOver(j)
      /\ pc'[t] = "run" /\ t # section
      /\ \A u \in Threads : u # t => pc'[u] = pc[u]
  BY <1>1, <1>3, GuestFrame
<1>5. word[m].owner = NoThread /\ ~HandingOver(m)
  BY WordFacts, GiverClaims, ClaimantIsOwner, NoThreadAssumption
<1>6. /\ \A u \in Threads : ~Claims(u, m) /\ ~IsServed(u, m)
      /\ lockOwner[m] = NoThread
      /\ \A u \in Threads : pc[u] = "attach" => arg[u] # m
      /\ target # NoThread /\ section # NoThread /\ next # Free => arg[target] # m
  BY <1>5, OnlyOwnerDepends, NoThreadAssumption
<1>7. CvTypeOK'
  BY <1>1, <1>2, <1>4, WordFacts DEF CvTypeOK, WaiterInv, Places
<1>8. /\ target \in Threads \cup {NoThread} /\ section \in Threads \cup {NoThread}
      /\ held \in [Threads -> SUBSET UserKeys] /\ NoKey \notin UserKeys
  BY Ranges
<1>9. HolderOwnsMutex'
  BY <1>3, <1>4, <1>6, <1>8, WordFacts DEF HolderOwnsMutex, Claims, InGuest
<1>10. ReleasingOwns'
  BY <1>3, <1>4, <1>6 DEF ReleasingOwns, Claims, CallsHaveArguments
<1>11. QueueMatchesWord'
  BY <1>2, <1>3, <1>4, <1>6 DEF QueueMatchesWord, EffectiveWord
<1>12. WordsWellFormed'
  BY <1>2, <1>3, WordFacts, NoThreadAssumption DEF WordsWellFormed
<1>13. CallsHaveArguments'
  BY <1>3, <1>4, <1>8 DEF CallsHaveArguments, InGuest
<1>14. SignalledGetsMutex'
  BY <1>2, <1>3, <1>4, <1>6, <1>8 DEF SignalledGetsMutex, IsServed, CallsHaveArguments
<1>15. WokenOwns'
  BY <1>2, <1>3, <1>4, <1>6 DEF WokenOwns, EffectiveWord, IsServed, CallsHaveArguments
<1>16. LeavingHolds'
  <2> SUFFICES ASSUME NEW u \in Threads, ~InGuest(u)', NEW j \in held'[u]
               PROVE  pc'[u] # "exited" /\ OwnedOrPassedOn(u, j)'
    BY DEF LeavingHolds
  <2>1. u # t /\ ~InGuest(u) /\ j \in held[u] /\ j \in UserKeys
    BY <1>3, <1>4, <1>8 DEF InGuest
  <2>2. pc[u] # "exited" /\ OwnedOrPassedOn(u, j)
    BY <2>1 DEF LeavingHolds
  <2>3. word'[j] = word[j]
    BY <1>3, <1>5, <2>1, <2>2, NoThreadAssumption DEF OwnedOrPassedOn
  <2>4. \A n \in Threads : pc[n] \in {"waitLock", "waitCv"} /\ arg[n] = j =>
            pc'[n] = pc[n] /\ arg'[n] = arg[n]
    BY <1>3, <1>4
  <2>5. OwnedOrPassedOn(u, j)'
    BY <2>2, <2>3, <2>4, StillPassedOn
  <2>6. QED BY <1>4, <2>1, <2>2, <2>5
<1>17. QED
  BY <1>4, <1>7, <1>9, <1>10, <1>11, <1>12, <1>13, <1>14, <1>15, <1>16

\* A guest's step that changes no owner of a mutex word, and at most sets the mask.
LEMMA GuestKeepsOwners ==
    ASSUME CvInv, NEW t \in Threads, NEW label \in {"run", "arbitrate", "unlock"},
           pc[t] \in {"run", "recheck"}, pc' = [pc EXCEPT ![t] = label],
           \A u \in Threads : u # t => /\ held'[u] = held[u] /\ arg'[u] = arg[u]
                                     /\ cvArg'[u] = cvArg[u] /\ seen'[u] = seen[u],
           UNCHANGED <<waiterVars, cvVars, threadVars, sectionVars, cvWord>>,
           word' \in [UserKeys -> Words], held' \in [Threads -> SUBSET UserKeys],
           arg' \in [Threads -> UserKeys \cup {NoKey}],
           cvArg' \in [Threads -> CvKeys \cup {NoKey}],
           seen' \in [Threads -> Threads \cup {NoThread}],
           \A j \in UserKeys :
               /\ word'[j].owner = word[j].owner
               /\ word[j].owner = NoThread => word'[j] = word[j]
               /\ \A u \in Threads : word[j] = Contended(u) => word'[j] = Contended(u),
           arg'[t] \notin held'[t], \A j \in held'[t] : word[j].owner = t,
           label # "run" => arg'[t] \in UserKeys,
           label = "arbitrate" => seen'[t] \in Threads,
           label = "unlock" => word[arg'[t]].owner = t
    PROVE  CvInv'
<1> USE DEF CvInv
<1>1. UNCHANGED <<waitingLock, lockOwner, cvTree, waitingCv, state, timer, result,
                  terminationRequested, section, next, target, cvWord>>
  BY DEF waiterVars, cvVars, threadVars, sectionVars
<1>2. /\ WaiterInv' /\ NodeInOneTree' /\ CvTreeSorted' /\ TerminatedOwesNothing'
      /\ OneSection' /\ OnlySleepersAreLinked' /\ NextOwnerWaits'
      /\ \A j : HandingOver(j)' <=> HandingOver(j)
      /\ pc'[t] = label /\ t # section
      /\ \A u \in Threads : u # t => pc'[u] = pc[u]
  BY GuestFrame, ZenonT(60)
<1>3. /\ section \in Threads \cup {NoThread} /\ target \in Threads \cup {NoThread}
      /\ next.owner \in Threads \cup {NoThread}
      /\ held \in [Threads -> SUBSET UserKeys] /\ NoKey \notin UserKeys
  BY Ranges
<1>4. CvTypeOK'
  BY <1>1, <1>2 DEF CvTypeOK, WaiterInv, Places
<1>5. HolderOwnsMutex'
  BY <1>2, <1>3 DEF HolderOwnsMutex, InGuest
<1>6. ReleasingOwns'
  BY <1>2 DEF ReleasingOwns, CallsHaveArguments
<1>7. QueueMatchesWord'
  <2> SUFFICES ASSUME NEW m \in UserKeys, lockOwner[m] # NoThread
               PROVE  EffectiveWord(m)' = Contended(lockOwner[m])
    BY <1>1 DEF QueueMatchesWord
  <2>1. lockOwner[m] \in Threads /\ EffectiveWord(m) = Contended(lockOwner[m])
    BY GraphTypes DEF QueueMatchesWord
  <2>2. QED BY <1>1, <1>2, <2>1 DEF EffectiveWord
<1>8. WordsWellFormed'
  BY <1>1 DEF WordsWellFormed
<1>9. CallsHaveArguments'
  BY <1>2, <1>3 DEF CallsHaveArguments, InGuest
<1>10. SignalledGetsMutex'
  <2> SUFFICES ASSUME target # NoThread, section # NoThread
               PROVE  SignalledGetsMutex'
    BY <1>1 DEF SignalledGetsMutex
  <2>1. target \in Threads /\ target # t /\ arg[target] \in UserKeys
    BY <1>3 DEF SignalledGetsMutex, CallsHaveArguments
  <2>2. next # Free => next.owner \in Threads
    BY <1>3 DEF WordsWellFormed
  <2>3. QED BY <1>1, <1>2, <2>1, <2>2 DEF SignalledGetsMutex
<1>11. WokenOwns'
  BY <1>1, <1>2 DEF WokenOwns, EffectiveWord, CallsHaveArguments
<1>12. LeavingHolds'
  <2> SUFFICES ASSUME NEW u \in Threads, ~InGuest(u)', NEW j \in held'[u]
               PROVE  pc'[u] # "exited" /\ OwnedOrPassedOn(u, j)'
    BY DEF LeavingHolds
  <2>1. u # t /\ ~InGuest(u) /\ j \in held[u] /\ j \in UserKeys
    BY <1>2, <1>3 DEF InGuest
  <2>2. pc[u] # "exited" /\ OwnedOrPassedOn(u, j) /\ word'[j].owner = word[j].owner
    BY <2>1 DEF LeavingHolds
  <2>3. \A n \in Threads : pc[n] \in {"waitLock", "waitCv"} /\ arg[n] = j =>
            pc'[n] = pc[n] /\ arg'[n] = arg[n]
    BY <1>2
  <2>4. OwnedOrPassedOn(u, j)'
    BY <2>2, <2>3, StillPassedOn
  <2>5. QED BY <1>2, <2>1, <2>2, <2>4
<1>13. QED
  BY <1>2, <1>4, <1>5, <1>6, <1>7, <1>8, <1>9, <1>10, <1>11, <1>12

\* A guest finds a mutex taken and sets the wait mask.
LEMMA SetsMask ==
    ASSUME CvInv, NEW t \in Threads, NEW m \in UserKeys, pc[t] \in {"run", "recheck"},
           m \notin held[t], word[m] # Free, CompareExchange(t, m),
           UNCHANGED <<waiterVars, cvVars, threadVars, sectionVars, cvWord>>
    PROVE  CvInv'
<1> USE DEF CvInv
<1>1. /\ word' = [word EXCEPT ![m].waiters = TRUE]
      /\ pc' = [pc EXCEPT ![t] = "arbitrate"] /\ arg' = [arg EXCEPT ![t] = m]
      /\ seen' = [seen EXCEPT ![t] = word[m].owner] /\ UNCHANGED <<held, cvArg>>
  BY DEF CompareExchange, Goto
<1>2. /\ word \in [UserKeys -> Words] /\ word[m].owner \in Threads
  BY Ranges DEF WordsWellFormed
<1>3. word'[m] = Contended(word[m].owner) /\ \A j \in UserKeys : j # m => word'[j] = word[j]
  BY <1>1, <1>2 DEF Words, Contended
<1>4. word' \in [UserKeys -> Words]
  BY <1>1, <1>2, <1>3, WordFacts
<1>5. \A j \in UserKeys :
          /\ word'[j].owner = word[j].owner
          /\ word[j].owner = NoThread => word'[j] = word[j]
          /\ \A u \in Threads : word[j] = Contended(u) => word'[j] = Contended(u)
  BY <1>2, <1>3, WordFacts, NoThreadAssumption
<1>6. /\ arg' \in [Threads -> UserKeys \cup {NoKey}] /\ arg'[t] = m
      /\ seen' \in [Threads -> Threads \cup {NoThread}] /\ seen'[t] \in Threads
      /\ \A u \in Threads : u # t => arg'[u] = arg[u] /\ seen'[u] = seen[u]
      /\ held \in [Threads -> SUBSET UserKeys] /\ cvArg \in [Threads -> CvKeys \cup {NoKey}]
  BY <1>1, <1>2 DEF CvTypeOK
<1>7. \A j \in held[t] : word[j].owner = t
  BY <1>6 DEF HolderOwnsMutex, InGuest
<1>8. QED
  BY <1>1, <1>4, <1>5, <1>6, <1>7, GuestKeepsOwners, ZenonT(60)

\* A guest finds that the word names it.
LEMMA FindsItself ==
    ASSUME CvInv, NEW t \in Threads, GuestRecheck(t), word[arg[t]].owner = t
    PROVE  CvInv'
<1> USE DEF CvInv
<1>1. /\ pc[t] = "recheck" /\ held' = [held EXCEPT ![t] = @ \cup {arg[t]}]
      /\ pc' = [pc EXCEPT ![t] = "run"] /\ arg' = [arg EXCEPT ![t] = NoKey]
      /\ cvArg' = [cvArg EXCEPT ![t] = NoKey] /\ seen' = [seen EXCEPT ![t] = NoThread]
      /\ UNCHANGED <<word, waiterVars, cvVars, threadVars, sectionVars, cvWord>>
  BY DEF GuestRecheck, Leave, Goto
<1>2. /\ arg[t] \in UserKeys /\ word \in [UserKeys -> Words] /\ NoKey \notin UserKeys
      /\ held \in [Threads -> SUBSET UserKeys]
  BY <1>1, Ranges DEF CallsHaveArguments
<1>3. /\ arg' \in [Threads -> UserKeys \cup {NoKey}] /\ arg'[t] = NoKey
      /\ seen' \in [Threads -> Threads \cup {NoThread}]
      /\ cvArg' \in [Threads -> CvKeys \cup {NoKey}]
      /\ held' \in [Threads -> SUBSET UserKeys] /\ held'[t] = held[t] \cup {arg[t]}
      /\ \A u \in Threads : u # t => /\ held'[u] = held[u] /\ arg'[u] = arg[u]
                                    /\ cvArg'[u] = cvArg[u] /\ seen'[u] = seen[u]
  BY <1>1, <1>2 DEF CvTypeOK
<1>4. \A j \in held'[t] : word[j].owner = t
  BY <1>1, <1>3 DEF HolderOwnsMutex, InGuest
<1>5. arg'[t] \notin held'[t]
  BY <1>2, <1>3
<1>6. QED
  BY <1>1, <1>2, <1>3, <1>4, <1>5, GuestKeepsOwners

\* A guest that releases a contended mutex enters the kernel.
LEMMA UnlocksSlowly ==
    ASSUME CvInv, NEW t \in Threads, NEW m \in UserKeys, GuestUnlock(t, m),
           word[m] # Owned(t)
    PROVE  CvInv'
<1> USE DEF CvInv
<1>1. /\ pc[t] = "run" /\ m \in held[t] /\ held' = [held EXCEPT ![t] = @ \ {m}]
      /\ pc' = [pc EXCEPT ![t] = "unlock"] /\ arg' = [arg EXCEPT ![t] = m]
      /\ UNCHANGED <<word, cvArg, seen, waiterVars, cvVars, threadVars, sectionVars, cvWord>>
  BY DEF GuestUnlock, Goto
<1>2. word \in [UserKeys -> Words] /\ held \in [Threads -> SUBSET UserKeys]
  BY Ranges
<1>3. /\ arg' \in [Threads -> UserKeys \cup {NoKey}] /\ arg'[t] = m
      /\ held' \in [Threads -> SUBSET UserKeys] /\ held'[t] = held[t] \ {m}
      /\ seen \in [Threads -> Threads \cup {NoThread}]
      /\ cvArg \in [Threads -> CvKeys \cup {NoKey}]
      /\ \A u \in Threads : u # t => held'[u] = held[u] /\ arg'[u] = arg[u]
  BY <1>1, <1>2 DEF CvTypeOK
<1>4. \A j \in held[t] : word[j].owner = t
  BY <1>1, <1>3 DEF HolderOwnsMutex, InGuest
<1>5. arg'[t] \notin held'[t] /\ word[arg'[t]].owner = t
      /\ \A j \in held'[t] : word[j].owner = t
  BY <1>1, <1>3, <1>4
<1>6. QED
  BY <1>1, <1>2, <1>3, <1>5, GuestKeepsOwners

\* A guest releases a mutex that nobody waits for.
LEMMA UnlocksFast ==
    ASSUME CvInv, NEW t \in Threads, NEW m \in UserKeys, GuestUnlock(t, m),
           word[m] = Owned(t)
    PROVE  CvInv'
<1> USE DEF CvInv
<1>1. /\ word' = [word EXCEPT ![m] = Free]
      /\ held' = [held EXCEPT ![t] = @ \ {m}] /\ pc[t] = "run" /\ m \in held[t]
      /\ UNCHANGED <<pc, arg, cvArg, seen, waiterVars, cvVars, threadVars, sectionVars, cvWord>>
  BY DEF GuestUnlock
<1>2. UNCHANGED <<waitingLock, lockOwner, cvTree, waitingCv, state, timer, result,
                  terminationRequested, section, next, target, cvWord>>
  BY <1>1 DEF waiterVars, cvVars, threadVars, sectionVars
<1>3. /\ word'[m] = Free /\ \A j \in UserKeys : j # m => word'[j] = word[j]
      /\ held'[t] = held[t] \ {m}
      /\ \A u \in Threads : u # t => held'[u] = held[u]
  BY <1>1 DEF CvTypeOK
<1>4. /\ WaiterInv' /\ NodeInOneTree' /\ CvTreeSorted' /\ TerminatedOwesNothing'
      /\ OneSection' /\ OnlySleepersAreLinked' /\ NextOwnerWaits'
      /\ \A j : HandingOver(j)' <=> HandingOver(j)
      /\ t # section
  <2>1. pc' = [pc EXCEPT ![t] = "run"]
    BY <1>1 DEF CvTypeOK
  <2>2. QED BY <1>1, <2>1, GuestFrame
<1>5. word[m].owner = t /\ word[m] # Contended(t) /\ ~HandingOver(m)
  <2>1. word[m].owner = t /\ word[m] # Contended(t)
    BY WordFacts
  <2>2. QED BY <1>4, <2>1, GiverClaims, ClaimantIsOwner
<1>6. /\ \A u \in Threads : Claims(u, m) => u = t
      /\ \A u \in Threads : IsServed(u, m) => u = t
      /\ lockOwner[m] = NoThread
      /\ \A u \in Threads : pc[u] = "attach" => arg[u] # m
      /\ target # NoThread /\ section # NoThread /\ next # Free => arg[target] # m
  BY <1>5, OnlyOwnerDepends
<1>7. /\ target \in Threads \cup {NoThread} /\ section \in Threads \cup {NoThread}
      /\ held \in [Threads -> SUBSET UserKeys]
  BY Ranges
<1>8. CvTypeOK'
  BY <1>1, <1>2, <1>4, WordFacts DEF CvTypeOK, WaiterInv
<1>9. HolderOwnsMutex'
  BY <1>1, <1>3, <1>6, <1>7 DEF HolderOwnsMutex, Claims, InGuest
<1>10. ReleasingOwns'
  BY <1>1, <1>3, <1>6 DEF ReleasingOwns, Claims, CallsHaveArguments
<1>11. QueueMatchesWord'
  BY <1>1, <1>2, <1>3, <1>4, <1>6 DEF QueueMatchesWord, EffectiveWord
<1>12. WordsWellFormed' /\ CallsHaveArguments'
  BY <1>1, <1>2, <1>3, <1>7 DEF WordsWellFormed, CallsHaveArguments, InGuest
<1>13. SignalledGetsMutex'
  BY <1>1, <1>2, <1>3, <1>6, <1>7 DEF SignalledGetsMutex, IsServed, CallsHaveArguments
<1>14. WokenOwns'
  BY <1>1, <1>2, <1>3, <1>4, <1>6 DEF WokenOwns, EffectiveWord, IsServed, CallsHaveArguments
<1>15. LeavingHolds'
  <2> SUFFICES ASSUME NEW u \in Threads, ~InGuest(u), NEW j \in held'[u]
               PROVE  pc[u] # "exited" /\ OwnedOrPassedOn(u, j)'
    BY <1>1 DEF LeavingHolds, InGuest
  <2>1. u # t /\ j \in held[u] /\ j \in UserKeys
    BY <1>1, <1>3, <1>7 DEF InGuest
  <2>2. pc[u] # "exited" /\ OwnedOrPassedOn(u, j)
    BY <2>1 DEF LeavingHolds
  <2>3. word'[j] = word[j]
    BY <1>1, <1>3, <1>5, <2>1, <2>2 DEF OwnedOrPassedOn
  <2>4. OwnedOrPassedOn(u, j)'
    BY <1>1, <2>2, <2>3, StillPassedOn
  <2>5. QED BY <2>2, <2>4
<1>16. QED
  BY <1>4, <1>8, <1>9, <1>10, <1>11, <1>12, <1>13, <1>14, <1>15

-----------------------------------------------------------------------------
(* Steps of a call that change no mutex word and no tree *)

\* A call of t goes on, enters the scheduler lock or leaves it.
LEMMA CallMoves ==
    ASSUME CvInv, NEW t \in Threads, target = NoThread,
           section \in {NoThread, t}, section' \in {NoThread, t},
           NEW label \in {"run", "recheck", "attach", "signalOne", "signalAll", "exit"},
           pc' = [pc EXCEPT ![t] = label], label \in SectionPlaces <=> section' = t,
           pc[t] \in {"run", "recheck", "arbitrate", "unlock", "signalOne", "signalAll",
                      "signalEnd"},
           UNCHANGED <<waiterVars, word, cvVars, threadVars, held, next, target>>,
           cvWord' \in [CvKeys -> {0, 1}], arg' \in [Threads -> UserKeys \cup {NoKey}],
           cvArg' \in [Threads -> CvKeys \cup {NoKey}],
           seen' \in [Threads -> Threads \cup {NoThread}],
           \A u \in Threads : u # t => /\ arg'[u] = arg[u] /\ cvArg'[u] = cvArg[u]
                                     /\ seen'[u] = seen[u],
           arg'[t] \notin held[t], label \in {"recheck", "attach"} => arg'[t] \in UserKeys,
           label \in {"signalOne", "signalAll"} => cvArg'[t] \in CvKeys,
           label = "attach" => seen'[t] \in Threads /\ word[arg'[t]] = Contended(seen'[t])
    PROVE  CvInv'
<1> USE DEF CvInv
<1>1. UNCHANGED <<waitingLock, lockOwner, priority, cvTree, waitingCv, state, timer, result,
                  terminationRequested>>
  BY DEF waiterVars, cvVars, threadVars
<1>2. pc'[t] = label /\ \A u \in Threads : u # t => pc'[u] = pc[u]
  BY DEF CvTypeOK
<1>3. /\ section \in Threads \cup {NoThread} /\ NoThread \notin Threads
      /\ held \in [Threads -> SUBSET UserKeys] /\ NoKey \notin UserKeys
  BY Ranges
<1>4. \A m : ~HandingOver(m) /\ ~HandingOver(m)'
  BY <1>2, <1>3 DEF HandingOver
<1>5. WaiterInv'
  BY SameGraph
<1>6. CvTypeOK'
  BY <1>1, <1>2, <1>5 DEF CvTypeOK, WaiterInv, Places, SectionPlaces
<1>7. /\ NodeInOneTree' /\ CvTreeSorted' /\ TerminatedOwesNothing' /\ WordsWellFormed'
  BY <1>1 DEF NodeInOneTree, CvTreeSorted, TerminatedOwesNothing, WordsWellFormed
<1>8. OneSection'
  BY <1>1, <1>2, <1>3 DEF OneSection
<1>9. HolderOwnsMutex'
  BY <1>2, <1>3 DEF HolderOwnsMutex, InGuest
<1>10. QueueMatchesWord'
  BY <1>1, <1>4 DEF QueueMatchesWord, EffectiveWord
<1>11. CallsHaveArguments'
  BY <1>2, <1>3 DEF CallsHaveArguments, InGuest
<1>12. OnlySleepersAreLinked'
  BY <1>1, <1>2 DEF OnlySleepersAreLinked
<1>13. ReleasingOwns'
  BY <1>2 DEF ReleasingOwns
<1>14. NextOwnerWaits' /\ SignalledGetsMutex'
  BY <1>4 DEF NextOwnerWaits, SignalledGetsMutex
<1>15. WokenOwns'
  BY <1>1, <1>2, <1>4 DEF WokenOwns, EffectiveWord
<1>16. LeavingHolds'
  <2> SUFFICES ASSUME NEW u \in Threads, ~InGuest(u)', NEW j \in held[u]
               PROVE  pc'[u] # "exited" /\ OwnedOrPassedOn(u, j)'
    BY DEF LeavingHolds
  <2>1. j \in UserKeys
    BY <1>3
  <2>2. CASE u = t
    <3>1. word[j].owner = t /\ pc'[t] # "exited"
      BY <1>2, <2>2 DEF HolderOwnsMutex, InGuest
    <3>2. QED BY <2>2, <3>1 DEF OwnedOrPassedOn
  <2>3. CASE u # t
    <3>1. ~InGuest(u) /\ pc'[u] = pc[u]
      BY <1>2, <2>3 DEF InGuest
    <3>2. pc'[u] # "exited" /\ OwnedOrPassedOn(u, j)
      BY <3>1 DEF LeavingHolds
    <3>3. \A n \in Threads : pc[n] \in {"waitLock", "waitCv"} /\ arg[n] = j =>
              pc'[n] = pc[n] /\ arg'[n] = arg[n]
      BY <1>2
    <3>4. OwnedOrPassedOn(u, j)'
      BY <3>2, <3>3, StillPassedOn
    <3>5. QED BY <3>2, <3>4
  <2>4. QED BY <2>2, <2>3
<1>17. QED
  BY <1>5, <1>6, <1>7, <1>8, <1>9, <1>10, <1>11, <1>12, <1>13, <1>14, <1>15, <1>16

\* ArbitrateLock looks at the word.
LEMMA LooksAtWord ==
    ASSUME CvInv, NEW t \in Threads, WaitForAddress(t)
    PROVE  CvInv'
<1> USE DEF CvInv
<1>1. /\ pc[t] = "arbitrate" /\ section = NoThread /\ target = NoThread
      /\ \/ /\ word[arg[t]] = Contended(seen[t]) /\ pc' = [pc EXCEPT ![t] = "attach"]
            /\ section' = t /\ UNCHANGED seen
         \/ /\ pc' = [pc EXCEPT ![t] = "recheck"] /\ seen' = [seen EXCEPT ![t] = NoThread]
            /\ UNCHANGED section
      /\ UNCHANGED <<waiterVars, word, cvWord, cvVars, threadVars, held, arg, cvArg, next, target>>
  BY DEF WaitForAddress, SchedulerFree, Goto, Recheck, memVars
<1>2. /\ arg[t] \in UserKeys /\ seen[t] \in Threads /\ arg[t] \notin held[t]
  BY <1>1 DEF CallsHaveArguments, InGuest
<1>3. /\ cvWord \in [CvKeys -> {0, 1}] /\ arg \in [Threads -> UserKeys \cup {NoKey}]
      /\ cvArg \in [Threads -> CvKeys \cup {NoKey}]
      /\ seen' \in [Threads -> Threads \cup {NoThread}]
      /\ \A u \in Threads : u # t => seen'[u] = seen[u]
  BY <1>1 DEF CvTypeOK
<1>4. CASE section' = t
  <2>1. "attach" \in SectionPlaces
    BY DEF SectionPlaces
  <2>2. pc' = [pc EXCEPT ![t] = "attach"] /\ word[arg[t]] = Contended(seen[t]) /\ seen' = seen
    BY <1>1, <1>4, NoThreadAssumption
  <2>3. QED BY <1>1, <1>2, <1>3, <1>4, <2>1, <2>2, CallMoves
<1>5. CASE section' # t
  <2>1. "recheck" \notin SectionPlaces
    BY DEF SectionPlaces
  <2>2. pc' = [pc EXCEPT ![t] = "recheck"] /\ section' = NoThread
    BY <1>1, <1>5
  <2>3. QED BY <1>1, <1>2, <1>3, <1>5, <2>1, <2>2, CallMoves
<1>6. QED BY <1>4, <1>5

\* SignalProcessWideKey enters the scheduler lock, and leaves it.
LEMMA SignalStartsAndEnds ==
    ASSUME CvInv, NEW t \in Threads,
           SignalEnd(t) \/ \E c \in CvKeys, label \in {"signalOne", "signalAll"} :
                               Signal(t, c, label)
    PROVE  CvInv'
<1> USE DEF CvInv
<1>1. CASE SignalEnd(t)
  <2>1. /\ pc[t] \in {"signalOne", "signalAll", "signalEnd"} /\ section = t
        /\ cvWord' = [cvWord EXCEPT ![cvArg[t]] = FlagAfterSignal(cvArg[t])]
        /\ section' = NoThread /\ pc' = [pc EXCEPT ![t] = "run"]
        /\ arg' = [arg EXCEPT ![t] = NoKey] /\ cvArg' = [cvArg EXCEPT ![t] = NoKey]
        /\ seen' = [seen EXCEPT ![t] = NoThread]
        /\ UNCHANGED <<waiterVars, word, cvVars, threadVars, held, next, target>>
    BY <1>1 DEF SignalEnd, InSection, Leave, Goto
  <2>2. target = NoThread
    BY <1>1, NoThreadAssumption DEF SignalEnd, InSection, OneSection
  <2>3. cvArg[t] \in CvKeys /\ FlagAfterSignal(cvArg[t]) \in {0, 1}
    BY <2>1 DEF CallsHaveArguments, FlagAfterSignal, CvTypeOK
  <2>4. /\ cvWord' \in [CvKeys -> {0, 1}] /\ arg' \in [Threads -> UserKeys \cup {NoKey}]
        /\ cvArg' \in [Threads -> CvKeys \cup {NoKey}]
        /\ seen' \in [Threads -> Threads \cup {NoThread}] /\ arg'[t] = NoKey
        /\ \A u \in Threads : u # t => /\ arg'[u] = arg[u] /\ cvArg'[u] = cvArg[u]
                                      /\ seen'[u] = seen[u]
    BY <2>1, <2>3 DEF CvTypeOK
  <2>5. NoKey \notin held[t] /\ "run" \notin SectionPlaces /\ NoThread # t
    BY Ranges DEF SectionPlaces
  <2>6. QED BY <2>1, <2>2, <2>4, <2>5, CallMoves
<1>2. CASE \E c \in CvKeys, label \in {"signalOne", "signalAll"} : Signal(t, c, label)
  <2>1. PICK c \in CvKeys, label \in {"signalOne", "signalAll"} : Signal(t, c, label)
    BY <1>2
  <2>2. /\ pc[t] = "run" /\ section = NoThread /\ target = NoThread
        /\ section' = t /\ pc' = [pc EXCEPT ![t] = label]
        /\ cvArg' = [cvArg EXCEPT ![t] = c]
        /\ UNCHANGED <<waiterVars, word, cvWord, cvVars, threadVars, held, arg, seen, next, target>>
    BY <2>1 DEF Signal, SchedulerFree, Goto, memVars
  <2>3. /\ cvWord \in [CvKeys -> {0, 1}] /\ arg \in [Threads -> UserKeys \cup {NoKey}]
        /\ cvArg' \in [Threads -> CvKeys \cup {NoKey}] /\ cvArg'[t] = c
        /\ seen \in [Threads -> Threads \cup {NoThread}]
        /\ \A u \in Threads : u # t => cvArg'[u] = cvArg[u]
    BY <2>2 DEF CvTypeOK
  <2>4. arg[t] \notin held[t] /\ label \in SectionPlaces
    BY <2>2 DEF CallsHaveArguments, InGuest, SectionPlaces
  <2>5. QED BY <2>2, <2>3, <2>4, CallMoves
<1>3. QED BY <1>1, <1>2

\* A thread begins to exit.
LEMMA ExitStarts ==
    ASSUME CvInv, NEW t \in Threads, Exit(t)
    PROVE  CvInv'
<1> USE DEF CvInv
<1>1. /\ pc[t] \in {"run", "arbitrate", "recheck", "unlock"}
      /\ section = NoThread /\ target = NoThread
      /\ section' = t /\ pc' = [pc EXCEPT ![t] = "exit"]
      /\ arg' = [arg EXCEPT ![t] = NoKey] /\ cvArg' = [cvArg EXCEPT ![t] = NoKey]
      /\ seen' = [seen EXCEPT ![t] = NoThread]
      /\ UNCHANGED <<waiterVars, word, cvWord, cvVars, threadVars, held, next, target>>
  BY DEF Exit, SchedulerFree, Leave, Goto, memVars
<1>2. /\ cvWord \in [CvKeys -> {0, 1}] /\ arg' \in [Threads -> UserKeys \cup {NoKey}]
      /\ cvArg' \in [Threads -> CvKeys \cup {NoKey}]
      /\ seen' \in [Threads -> Threads \cup {NoThread}] /\ arg'[t] = NoKey
      /\ \A u \in Threads : u # t => /\ arg'[u] = arg[u] /\ cvArg'[u] = cvArg[u]
                                    /\ seen'[u] = seen[u]
  BY <1>1 DEF CvTypeOK
<1>3. NoKey \notin held[t] /\ "exit" \in SectionPlaces
  BY Ranges DEF SectionPlaces
<1>4. QED BY <1>1, <1>2, <1>3, CallMoves

-----------------------------------------------------------------------------
(* Handing a mutex over *)

\* RemoveUserWaiterByKey picks the most urgent waiter of an owned mutex, and the
\* value for the word says whether there are more.
LEMMA PicksNext ==
    ASSUME CvInv, NEW t \in Threads, NEW m \in UserKeys, word[m].owner = t,
           ~HandingOver(m), RemoveUserWaiterByKey(t, m)
    PROVE  /\ WaiterInv' /\ UNCHANGED priority
           /\ next' \in Words /\ next'.owner \in Threads \cup {NoThread}
           /\ next'.owner = NoThread => next' = Free /\ lockOwner[m] # t
           /\ \A u \in Threads : u # next'.owner => waitingLock'[u] = waitingLock[u]
           /\ next'.owner # NoThread =>
                /\ waitingLock[next'.owner] = m /\ waitingLock'[next'.owner] = NoKey
                /\ waitingLock[t] = NoKey
           /\ \A j \in UserKeys : j # m => lockOwner'[j] = lockOwner[j]
           /\ lockOwner'[m] # NoThread =>
                lockOwner'[m] = next'.owner /\ next' = Contended(next'.owner)
<1> USE DEF CvInv
<1>1. /\ m \in Keys /\ UserKeys \subseteq Keys /\ lockOwner[m] \in Threads \cup {NoThread}
      /\ waitingLock \in [Threads -> Keys \cup {NoKey}]
      /\ lockOwner \in [Keys -> Threads \cup {NoThread}]
  BY GraphTypes
<1>2. CASE lockOwner[m] # t
  <2>1. lockOwner[m] = NoThread
    <3>1. lockOwner[m] \in Threads => word[m] = Contended(lockOwner[m])
      BY NoThreadAssumption DEF QueueMatchesWord, EffectiveWord
    <3>2. QED BY <1>1, <1>2, <3>1, WordFacts
  <2>2. next' = Free /\ UNCHANGED waiterVars
    BY <1>2 DEF RemoveUserWaiterByKey
  <2>3. WaiterInv' /\ UNCHANGED <<priority, waitingLock, lockOwner>>
    BY <2>2, SameGraph DEF waiterVars
  <2>4. QED BY <1>2, <2>1, <2>2, <2>3, WordFacts
<1>3. CASE lockOwner[m] = t
  <2> DEFINE n == tree[m][1]
             s == Tail(tree[m])
  <2>1. RemoveWaiterByKey(t, m) /\ next' = [owner |-> n, waiters |-> Len(tree[m]) > 1]
    BY <1>3 DEF RemoveUserWaiterByKey, NextValue, GetHighestPriorityWaiter
  <2>2. /\ waitingLock[t] = NoKey
        /\ waitingLock' = [waitingLock EXCEPT ![n] = NoKey]
        /\ lockOwner' = [lockOwner EXCEPT ![m] = IF s = <<>> THEN NoThread ELSE n]
        /\ UNCHANGED priority
    BY <2>1 DEF RemoveWaiterByKey, GetHighestPriorityWaiter, prioVars
  <2>3. WaiterInv'
    BY <1>1, <2>1, RemoveWaiterByKeyInv
  <2>4. tree[m] \in Seq(Threads) /\ tree[m] # <<>> /\ Distinct(tree[m])
    BY <1>1, <1>3, NoThreadAssumption DEF WaiterInv, TypeOK, TreeMatchesWaits
  <2>5. n \in Threads /\ In(n, tree[m]) /\ s \in Seq(Threads) /\ Len(s) = Len(tree[m]) - 1
    BY <2>4, TreeTail
  <2>6. waitingLock[n] = m
    BY <1>1, <2>5 DEF WaiterInv, TreeMatchesWaits
  <2> HIDE DEF n, s
  <2>7. s # <<>> => Len(tree[m]) > 1
    <3>1. s \in Seq(Threads) /\ tree[m] \in Seq(Threads) /\ Len(s) = Len(tree[m]) - 1
      BY <2>4, <2>5
    <3>2. s # <<>> => Len(s) # 0
      BY ONLY <3>1, EmptySeq, SMTT(30)
    <3>3. Len(tree[m]) \in Nat /\ Len(s) \in Nat
      BY ONLY <3>1, SMTT(30)
    <3>4. QED BY ONLY <3>1, <3>2, <3>3
  <2>8. next'.owner = n /\ next' \in Words
    BY <2>1, <2>5 DEF Words
  <2>9. Len(tree[m]) > 1 => next' = Contended(n)
    BY <2>1 DEF Contended
  <2>10. lockOwner'[m] # NoThread => lockOwner'[m] = n /\ next' = Contended(n)
    BY <1>1, <2>2, <2>7, <2>9
  <2>11. QED
    BY <1>1, <2>2, <2>3, <2>5, <2>6, <2>8, <2>10, NoThreadAssumption
<1>4. QED BY <1>2, <1>3

\* A call takes the next owner of a mutex out of the queue.  Wait wakes it at once.
LEMMA StartsHandover ==
    ASSUME CvInv, NEW t \in Threads, NEW m \in UserKeys, target = NoThread,
           section \in {NoThread, t}, section' = t, word[m].owner = t,
           NEW label \in {"handover", "enqueue", "exitHandover"},
           pc[t] = IF label = "handover" THEN "unlock"
                   ELSE IF label = "enqueue" THEN "run" ELSE "exit",
           pc' = [pc EXCEPT ![t] = label], RemoveUserWaiterByKey(t, m),
           label = "exitHandover" => lockOwner[m] = t,
           label = "enqueue" => cvArg'[t] \in CvKeys,
           arg' = [arg EXCEPT ![t] = m], cvArg' \in [Threads -> CvKeys \cup {NoKey}],
           \A u \in Threads : u # t => cvArg'[u] = cvArg[u],
           held' \in [Threads -> SUBSET UserKeys], \A u \in Threads : u # t => held'[u] = held[u],
           held'[t] \subseteq held[t], label # "exitHandover" => m \notin held'[t],
           state' \in [Threads -> {"Runnable", "Waiting", "Terminated"}],
           result' \in [Threads -> {"Success", "TimedOut", "TerminationRequested"}],
           timer' \in [Threads -> BOOLEAN],
           \A u \in Threads : u # next'.owner \/ label # "enqueue" =>
               state'[u] = state[u] /\ result'[u] = result[u],
           label = "enqueue" /\ next'.owner # NoThread =>
               state'[next'.owner] = "Runnable" /\ result'[next'.owner] = "Success",
           UNCHANGED <<word, cvWord, cvVars, seen, terminationRequested, target>>
    PROVE  CvInv'
<1> USE DEF CvInv
<1> DEFINE n == next'.owner
<1>1. /\ section \in Threads \cup {NoThread} /\ NoThread \notin Threads
      /\ held \in [Threads -> SUBSET UserKeys] /\ NoKey \notin UserKeys
  BY Ranges
<1>2. /\ pc'[t] = label /\ arg'[t] = m
      /\ \A u \in Threads : u # t => pc'[u] = pc[u] /\ arg'[u] = arg[u]
  BY DEF CvTypeOK
<1>3. /\ \A j : ~HandingOver(j)
      /\ \A j : HandingOver(j)' <=> j = m
  BY <1>1, <1>2 DEF HandingOver
<1>4. /\ WaiterInv' /\ UNCHANGED priority
      /\ next' \in Words /\ n \in Threads \cup {NoThread}
      /\ n = NoThread => next' = Free /\ lockOwner[m] # t
      /\ \A u \in Threads : u # n => waitingLock'[u] = waitingLock[u]
      /\ n # NoThread => waitingLock[n] = m /\ waitingLock'[n] = NoKey /\ waitingLock[t] = NoKey
      /\ \A j \in UserKeys : j # m => lockOwner'[j] = lockOwner[j]
      /\ lockOwner'[m] # NoThread => lockOwner'[m] = n /\ next' = Contended(n)
  BY <1>3, PicksNext
<1> HIDE DEF n
<1>5. /\ n # NoThread =>
           /\ n # t /\ arg[n] = m /\ state[n] = "Waiting" /\ waitingCv[n] = NoKey
           /\ pc[n] \in {"waitLock", "waitCv"}
  BY <1>1, <1>4 DEF OnlySleepersAreLinked, NodeInOneTree
<1>6. CvTypeOK'
  BY <1>2, <1>4 DEF CvTypeOK, WaiterInv, Places, SectionPlaces, cvVars
<1>7. HolderOwnsMutex'
  BY <1>1, <1>2 DEF HolderOwnsMutex, InGuest
<1>8. QueueMatchesWord'
  <2> SUFFICES ASSUME NEW j \in UserKeys, lockOwner'[j] # NoThread
               PROVE  EffectiveWord(j)' = Contended(lockOwner'[j])
    BY DEF QueueMatchesWord
  <2>1. CASE j = m
    BY <1>3, <1>4, <2>1 DEF EffectiveWord
  <2>2. CASE j # m
    BY <1>3, <1>4, <2>2 DEF QueueMatchesWord, EffectiveWord
  <2>3. QED BY <2>1, <2>2
<1>9. NodeInOneTree' /\ CvTreeSorted'
  <2>1. cvTree' = cvTree /\ waitingCv' = waitingCv
    BY DEF cvVars
  <2>2. \A u \in Threads : waitingLock[u] = NoKey => waitingLock'[u] = NoKey
    BY <1>1, <1>4
  <2>3. QED BY <1>4, <2>1, <2>2 DEF NodeInOneTree, CvTreeSorted
<1>10. TerminatedOwesNothing'
  <2> SUFFICES ASSUME NEW j \in UserKeys, lockOwner'[j] # NoThread
               PROVE  state'[lockOwner'[j]] # "Terminated"
    BY DEF TerminatedOwesNothing
  <2>1. CASE j = m
    BY <1>4, <1>5, <2>1 DEF n
  <2>2. CASE j # m
    BY <1>4, <1>5, <2>2, GraphTypes DEF TerminatedOwesNothing, n
  <2>3. QED BY <2>1, <2>2
<1>11. OneSection'
  BY <1>1, <1>2 DEF OneSection, SectionPlaces
<1>12. WordsWellFormed'
  BY <1>4 DEF WordsWellFormed, n
<1>13. CallsHaveArguments'
  BY <1>1, <1>2 DEF CallsHaveArguments, InGuest
<1>14. OnlySleepersAreLinked'
  <2> SUFFICES ASSUME NEW u \in Threads
               PROVE  /\ state'[u] = "Terminated" <=> pc'[u] = "exited"
                      /\ state'[u] = "Waiting" => pc'[u] \in {"waitLock", "waitCv"}
                      /\ waitingLock'[u] # NoKey => waitingLock'[u] = arg'[u] /\ state'[u] = "Waiting"
                      /\ waitingCv'[u] # NoKey =>
                            waitingCv'[u] = cvArg'[u] /\ state'[u] = "Waiting" /\ pc'[u] = "waitCv"
    BY DEF OnlySleepersAreLinked
  <2>1. CASE u = n
    BY <1>1, <1>2, <1>4, <1>5, <2>1 DEF n, cvVars
  <2>2. CASE u # n
    <3>1. state'[u] = state[u] /\ waitingLock'[u] = waitingLock[u] /\ waitingCv' = waitingCv
      BY <1>4, <2>2 DEF n, cvVars
    <3>2. QED BY <1>2, <3>1 DEF OnlySleepersAreLinked
  <2>3. QED BY <2>1, <2>2
<1>15. ReleasingOwns'
  BY <1>2 DEF ReleasingOwns
<1>16. NextOwnerWaits'
  BY <1>1, <1>2, <1>3, <1>4, <1>5 DEF NextOwnerWaits, n, cvVars
<1>17. SignalledGetsMutex'
  BY DEF SignalledGetsMutex
<1>18. WokenOwns'
  <2> SUFFICES ASSUME NEW u \in Threads, pc'[u] = "waitCv", state'[u] = "Runnable",
                      result'[u] = "Success"
               PROVE  EffectiveWord(arg[u])'.owner = u
    BY <1>2 DEF WokenOwns
  <2>1. u # t /\ pc[u] = "waitCv"
    BY <1>2
  <2>2. CASE u = n
    BY <1>1, <1>3, <1>5, <2>2 DEF EffectiveWord, n
  <2>3. CASE u # n
    <3>1. word[arg[u]].owner = u
      BY <1>3, <2>1, <2>3 DEF WokenOwns, EffectiveWord, n
    <3>2. arg[u] # m
      BY <2>1, <3>1
    <3>3. QED BY <1>3, <3>1, <3>2 DEF EffectiveWord
  <2>4. QED BY <2>2, <2>3
<1>19. LeavingHolds'
  <2> SUFFICES ASSUME NEW u \in Threads, ~InGuest(u)', NEW j \in held'[u]
               PROVE  pc'[u] # "exited" /\ OwnedOrPassedOn(u, j)'
    BY DEF LeavingHolds
  <2>1. ~InGuest(u) /\ j \in held[u]
    BY <1>2 DEF InGuest
  <2>2. pc[u] # "exited" /\ OwnedOrPassedOn(u, j)
    BY <2>1 DEF LeavingHolds
  <2>3. \A k \in Threads : pc[k] \in {"waitLock", "waitCv"} /\ arg[k] = j =>
            pc'[k] = pc[k] /\ arg'[k] = arg[k]
    BY <1>2
  <2>4. OwnedOrPassedOn(u, j)'
    BY <2>2, <2>3, StillPassedOn
  <2>5. QED BY <1>2, <2>2, <2>4
<1>20. QED
  BY <1>4, <1>6, <1>7, <1>8, <1>9, <1>10, <1>11, <1>12, <1>13, <1>14, <1>15, <1>16, <1>17,
     <1>18, <1>19

\* ArbitrateUnlock takes the next owner out of the queue.
LEMMA UnlockPicksNext ==
    ASSUME CvInv, NEW t \in Threads, SignalToAddress(t)
    PROVE  CvInv'
<1> USE DEF CvInv
<1>1. /\ pc[t] = "unlock" /\ section = NoThread /\ target = NoThread /\ section' = t
      /\ pc' = [pc EXCEPT ![t] = "handover"] /\ RemoveUserWaiterByKey(t, arg[t])
      /\ UNCHANGED <<word, cvWord, cvVars, state, timer, result, terminationRequested, held,
                     arg, cvArg, seen, target>>
  BY DEF SignalToAddress, SchedulerFree, Goto, memVars, threadVars
<1>2. arg[t] \in UserKeys /\ word[arg[t]].owner = t /\ arg[t] \notin held[t]
  BY <1>1 DEF CallsHaveArguments, ReleasingOwns, InGuest
<1>3. /\ arg' = [arg EXCEPT ![t] = arg[t]] /\ cvArg \in [Threads -> CvKeys \cup {NoKey}]
      /\ held \in [Threads -> SUBSET UserKeys]
      /\ state \in [Threads -> {"Runnable", "Waiting", "Terminated"}]
      /\ result \in [Threads -> {"Success", "TimedOut", "TerminationRequested"}]
      /\ timer \in [Threads -> BOOLEAN]
  BY <1>1 DEF CvTypeOK
<1>4. QED BY <1>1, <1>2, <1>3, StartsHandover

\* The loop over an exiting thread's mutexes takes the next owner out of the queue.
LEMMA AbandonPicksNext ==
    ASSUME CvInv, NEW t \in Threads, NEW m \in UserKeys, ReleaseAbandonedUserLocks(t, m)
    PROVE  CvInv'
<1> USE DEF CvInv
<1>1. /\ pc[t] = "exit" /\ section = t /\ section' = t /\ lockOwner[m] = t
      /\ pc' = [pc EXCEPT ![t] = "exitHandover"] /\ RemoveUserWaiterByKey(t, m)
      /\ arg' = [arg EXCEPT ![t] = m]
      /\ UNCHANGED <<word, cvWord, cvVars, state, timer, result, terminationRequested, held,
                     cvArg, seen, target>>
  BY DEF ReleaseAbandonedUserLocks, InSection, FindHeldUserLockKey, Goto, memVars, threadVars
<1>2. target = NoThread
  BY <1>1, NoThreadAssumption DEF OneSection
<1>3. word[m].owner = t
  <2>1. EffectiveWord(m) = Contended(t) /\ ~HandingOver(m)
    BY <1>1, NoThreadAssumption DEF QueueMatchesWord, HandingOver
  <2>2. QED BY <2>1, WordFacts DEF EffectiveWord
<1>4. /\ cvArg \in [Threads -> CvKeys \cup {NoKey}]
      /\ held \in [Threads -> SUBSET UserKeys]
      /\ state \in [Threads -> {"Runnable", "Waiting", "Terminated"}]
      /\ result \in [Threads -> {"Success", "TimedOut", "TerminationRequested"}]
      /\ timer \in [Threads -> BOOLEAN]
  BY DEF CvTypeOK
<1>5. QED BY <1>1, <1>2, <1>3, <1>4, StartsHandover

\* Wait releases its mutex: the next owner is out of the queue, and awake.
LEMMA WaitReleases ==
    ASSUME CvInv, NEW t \in Threads, NEW m \in UserKeys, NEW c \in CvKeys, Wait(t, m, c)
    PROVE  CvInv'
<1> USE DEF CvInv
<1>1. /\ pc[t] = "run" /\ section = NoThread /\ target = NoThread /\ section' = t
      /\ pc' = [pc EXCEPT ![t] = "enqueue"] /\ RemoveUserWaiterByKey(t, m)
      /\ EndWait(next'.owner) /\ m \in held[t]
      /\ arg' = [arg EXCEPT ![t] = m] /\ cvArg' = [cvArg EXCEPT ![t] = c]
      /\ held' = [held EXCEPT ![t] = @ \ {m}]
      /\ UNCHANGED <<word, cvWord, cvVars, terminationRequested, seen, target>>
  BY DEF Wait, SchedulerFree, Goto, memVars
<1>2. /\ word[m].owner = t /\ ~HandingOver(m)
  BY <1>1 DEF HolderOwnsMutex, InGuest, HandingOver
<1>3. /\ next'.owner \in Threads \cup {NoThread}
      /\ next'.owner # NoThread => waitingLock[next'.owner] = m
  BY <1>1, <1>2, PicksNext
<1>4. NoThread \notin Threads /\ NoKey \notin UserKeys
  BY Ranges
<1>5. next'.owner # NoThread => state[next'.owner] = "Waiting"
  BY <1>3, <1>4 DEF OnlySleepersAreLinked
<1>6. /\ state' \in [Threads -> {"Runnable", "Waiting", "Terminated"}]
      /\ result' \in [Threads -> {"Success", "TimedOut", "TerminationRequested"}]
      /\ timer' \in [Threads -> BOOLEAN]
      /\ \A u \in Threads : u # next'.owner => state'[u] = state[u] /\ result'[u] = result[u]
      /\ next'.owner # NoThread =>
            state'[next'.owner] = "Runnable" /\ result'[next'.owner] = "Success"
  BY <1>1, <1>3, <1>4, <1>5 DEF EndWait, CvTypeOK
<1>7. /\ cvArg' \in [Threads -> CvKeys \cup {NoKey}] /\ cvArg'[t] = c
      /\ held' \in [Threads -> SUBSET UserKeys] /\ held'[t] = held[t] \ {m}
      /\ \A u \in Threads : u # t => cvArg'[u] = cvArg[u] /\ held'[u] = held[u]
  BY <1>1 DEF CvTypeOK
<1>8. held'[t] \subseteq held[t] /\ m \notin held'[t] /\ cvArg'[t] \in CvKeys
  BY <1>7
<1> HIDE DEF CvInv
<1>9. QED BY <1>1, <1>2, <1>6, <1>7, <1>8, StartsHandover, ZenonT(60)

\* The call that hands mutex m over stores the next owner, who is awake from now on.
LEMMA StoresNext ==
    ASSUME CvInv, NEW t \in Threads, NEW m \in UserKeys, section = t, arg[t] = m,
           NEW label \in {"run", "exit", "recheck", "waitCv"},
           pc[t] = IF label = "run" THEN "handover"
                   ELSE IF label = "exit" THEN "exitHandover" ELSE "enqueue",
           pc' = [pc EXCEPT ![t] = label],
           section' = IF label = "exit" THEN t ELSE NoThread,
           word' = [word EXCEPT ![m] = next], next' = Free,
           arg'[t] = IF label = "run" THEN NoKey ELSE m,
           label = "waitCv" => cvArg'[t] = cvArg[t] /\ cvArg[t] \in CvKeys,
           \A u \in Threads : u # t => /\ arg'[u] = arg[u] /\ cvArg'[u] = cvArg[u]
                                     /\ seen'[u] = seen[u] /\ waitingCv'[u] = waitingCv[u],
           waitingCv'[t] = IF label = "waitCv" THEN cvArg[t] ELSE waitingCv[t],
           state'[t] = IF label = "waitCv" THEN "Waiting" ELSE state[t],
           \A u \in Threads : u # t /\ (u # next.owner \/ pc[t] = "enqueue") =>
               state'[u] = state[u] /\ result'[u] = result[u],
           pc[t] # "enqueue" /\ next.owner # NoThread =>
               state'[next.owner] = "Runnable" /\ result'[next.owner] = "Success",
           UNCHANGED <<waiterVars, held, target>>,
           CvTypeOK', NodeInOneTree', CvTreeSorted'
    PROVE  CvInv'
<1> USE DEF CvInv
<1> DEFINE n == next.owner
<1>1. /\ section \in Threads \cup {NoThread} /\ NoThread \notin Threads
      /\ held \in [Threads -> SUBSET UserKeys] /\ NoKey \notin UserKeys
      /\ n \in Threads \cup {NoThread} /\ word \in [UserKeys -> Words]
  BY Ranges
<1>2. /\ pc'[t] = label /\ \A u \in Threads : u # t => pc'[u] = pc[u]
      /\ word'[m] = next /\ \A j \in UserKeys : j # m => word'[j] = word[j]
      /\ UNCHANGED <<waitingLock, lockOwner, priority, held, target>>
  BY <1>1 DEF CvTypeOK, waiterVars
<1>3. /\ \A j : HandingOver(j) <=> j = m
      /\ \A j : ~HandingOver(j)'
  BY <1>1, <1>2 DEF HandingOver
<1>4. /\ target = NoThread /\ word[m].owner = t
      /\ \A u \in Threads : Claims(u, m) => u = t
  <2>1. target = NoThread
    BY <1>1 DEF OneSection
  <2>2. word[m].owner = t
    BY <1>1, <1>3, GiverClaims, ClaimantIsOwner
  <2>3. QED BY <2>1, <2>2, ClaimantIsOwner
<1>5. n # NoThread =>
        /\ pc[n] \in {"waitLock", "waitCv"} /\ arg[n] = m /\ n # t /\ n \in Threads
        /\ waitingLock[n] = NoKey /\ waitingCv[n] = NoKey
        /\ pc[t] = "enqueue" => state[n] = "Runnable" /\ result[n] = "Success"
        /\ pc[t] # "enqueue" => state[n] = "Waiting"
  BY <1>1, <1>3 DEF NextOwnerWaits
<1>6. \A u \in Threads : u # t /\ u # n => state'[u] = state[u] /\ result'[u] = result[u]
  OBVIOUS
<1>7. /\ n = NoThread => pc[t] # "exitHandover" /\ next = Free
      /\ n # NoThread => state'[n] = "Runnable" /\ result'[n] = "Success"
  BY <1>3, <1>5 DEF NextOwnerWaits, WordsWellFormed
<1>8. state[t] = "Runnable" /\ waitingLock[t] = NoKey /\ waitingCv[t] = NoKey
  BY DEF OnlySleepersAreLinked, CvTypeOK
<1> HIDE DEF n
<1>9. WaiterInv'
  BY SameGraph
<1>10. HolderOwnsMutex'
  <2> SUFFICES ASSUME NEW u \in Threads, InGuest(u)', NEW j \in held[u]
               PROVE  word'[j].owner = u
    BY <1>2 DEF HolderOwnsMutex
  <2>1. InGuest(u) /\ j \in UserKeys
    BY <1>1, <1>2 DEF InGuest
  <2>2. j # m
    BY <1>4, <2>1 DEF Claims, CallsHaveArguments
  <2>3. QED BY <1>2, <2>1, <2>2 DEF HolderOwnsMutex
<1>11. QueueMatchesWord'
  BY <1>2, <1>3 DEF QueueMatchesWord, EffectiveWord
<1>12. TerminatedOwesNothing'
  <2>1. \A u \in Threads : state[u] # "Terminated" => state'[u] # "Terminated"
    BY <1>1, <1>6, <1>7, <1>8
  <2>2. QED BY <1>2, <2>1, GraphTypes DEF TerminatedOwesNothing
<1>13. OneSection'
  BY <1>1, <1>2, <1>4 DEF OneSection, SectionPlaces
<1>14. WordsWellFormed'
  BY <1>2, <1>7 DEF WordsWellFormed, n
<1>15. CallsHaveArguments'
  BY <1>1, <1>2 DEF CallsHaveArguments, InGuest
<1>16. OnlySleepersAreLinked'
  <2> SUFFICES ASSUME NEW u \in Threads
               PROVE  /\ state'[u] = "Terminated" <=> pc'[u] = "exited"
                      /\ state'[u] = "Waiting" => pc'[u] \in {"waitLock", "waitCv"}
                      /\ waitingLock'[u] # NoKey => waitingLock'[u] = arg'[u] /\ state'[u] = "Waiting"
                      /\ waitingCv'[u] # NoKey =>
                            waitingCv'[u] = cvArg'[u] /\ state'[u] = "Waiting" /\ pc'[u] = "waitCv"
    BY DEF OnlySleepersAreLinked
  <2>1. CASE u = t
    BY <1>2, <1>8, <2>1 DEF OnlySleepersAreLinked
  <2>2. CASE u = n /\ u # t
    BY <1>1, <1>2, <1>5, <1>7, <2>2
  <2>3. CASE u # n /\ u # t
    BY <1>2, <1>6, <2>3 DEF OnlySleepersAreLinked
  <2>4. QED BY <2>1, <2>2, <2>3
<1>17. ReleasingOwns'
  <2> SUFFICES ASSUME NEW u \in Threads
               PROVE  /\ pc'[u] \in {"unlock", "handover", "enqueue", "exitHandover"} =>
                            word'[arg'[u]].owner = u
                      /\ pc'[u] = "attach" => word'[arg'[u]] = Contended(seen'[u])
    BY DEF ReleasingOwns
  <2>1. CASE u = t
    BY <1>2, <2>1
  <2>2. CASE u # t
    <3>1. pc[u] # "attach" /\ pc'[u] = pc[u] /\ arg'[u] = arg[u]
      BY <1>1, <1>2, <2>2 DEF OneSection, SectionPlaces
    <3>2. CASE pc[u] \in {"unlock", "handover", "enqueue", "exitHandover"}
      BY <1>2, <1>4, <2>2, <3>1, <3>2 DEF ReleasingOwns, Claims, CallsHaveArguments
    <3>3. QED BY <3>1, <3>2
  <2>3. QED BY <2>1, <2>2
<1>18. NextOwnerWaits' /\ SignalledGetsMutex'
  BY <1>3, <1>4 DEF NextOwnerWaits, SignalledGetsMutex
<1>19. WokenOwns'
  <2> SUFFICES ASSUME NEW u \in Threads, pc'[u] = "waitCv", state'[u] = "Runnable",
                      result'[u] = "Success"
               PROVE  word'[arg'[u]].owner = u
    BY <1>3 DEF WokenOwns, EffectiveWord
  <2>1. u # t /\ pc[u] = "waitCv" /\ arg'[u] = arg[u]
    BY <1>2
  <2>2. CASE u = n
    BY <1>1, <1>2, <1>5, <2>1, <2>2 DEF n
  <2>3. CASE u # n
    <3>1. EffectiveWord(arg[u]).owner = u /\ arg[u] \in UserKeys
      BY <1>6, <2>1, <2>3 DEF WokenOwns, CallsHaveArguments
    <3>2. word'[arg[u]] = EffectiveWord(arg[u])
      BY <1>2, <1>3, <3>1 DEF EffectiveWord
    <3>3. QED BY <2>1, <3>1, <3>2
  <2>4. QED BY <2>2, <2>3
<1>20. LeavingHolds'
  <2> SUFFICES ASSUME NEW u \in Threads, ~InGuest(u)', NEW j \in held[u]
               PROVE  pc'[u] # "exited" /\ OwnedOrPassedOn(u, j)'
    BY <1>2 DEF LeavingHolds
  <2>1. ~InGuest(u) /\ j \in UserKeys
    BY <1>1, <1>2 DEF InGuest
  <2>2. pc[u] # "exited" /\ OwnedOrPassedOn(u, j)
    BY <2>1 DEF LeavingHolds
  <2>3. CASE j # m
    <3>1. \A k \in Threads : pc[k] \in {"waitLock", "waitCv"} /\ arg[k] = j =>
              pc'[k] = pc[k] /\ arg'[k] = arg[k]
      BY <1>2
    <3>2. OwnedOrPassedOn(u, j)'
      BY <1>2, <2>1, <2>2, <2>3, <3>1, StillPassedOn
    <3>3. QED BY <1>2, <2>2, <3>2
  <2>4. CASE j = m
    <3>1. u = t
      BY <1>4, <2>2, <2>4 DEF OwnedOrPassedOn
    <3>2. pc[t] = "exitHandover"
      BY <2>1, <3>1 DEF InGuest
    <3>3. n \in Threads /\ pc'[n] \in {"waitLock", "waitCv"} /\ arg'[n] = m /\ word'[m].owner = n
      BY <1>1, <1>2, <1>5, <1>7, <3>2 DEF n
    <3>4. OwnedOrPassedOn(u, j)'
      BY <2>4, <3>3 DEF OwnedOrPassedOn
    <3>5. QED BY <1>2, <3>1, <3>4
  <2>5. QED BY <2>3, <2>4
<1>21. QED
  BY <1>9, <1>10, <1>11, <1>12, <1>13, <1>14, <1>15, <1>16, <1>17, <1>18, <1>19, <1>20

\* What EndWait of thread n does when it sleeps.
LEMMA EndWaitWakes ==
    ASSUME CvTypeOK, NEW n \in Threads \cup {NoThread}, EndWait(n)
    PROVE  /\ state' \in [Threads -> {"Runnable", "Waiting", "Terminated"}]
           /\ result' \in [Threads -> {"Success", "TimedOut", "TerminationRequested"}]
           /\ timer' \in [Threads -> BOOLEAN]
           /\ \A u \in Threads : u # n => state'[u] = state[u] /\ result'[u] = result[u]
           /\ n \in Threads /\ state[n] = "Waiting" =>
                state'[n] = "Runnable" /\ result'[n] = "Success"
BY DEF EndWait, CvTypeOK

\* ArbitrateUnlock stores the next owner.
LEMMA UnlockStoresNext ==
    ASSUME CvInv, NEW t \in Threads, SignalToAddressWrite(t)
    PROVE  CvInv'
<1> USE DEF CvInv
<1>1. /\ pc[t] = "handover" /\ section = t /\ section' = NoThread
      /\ pc' = [pc EXCEPT ![t] = "run"] /\ word' = [word EXCEPT ![arg[t]] = next]
      /\ EndWait(next.owner) /\ next' = Free
      /\ arg' = [arg EXCEPT ![t] = NoKey] /\ cvArg' = [cvArg EXCEPT ![t] = NoKey]
      /\ seen' = [seen EXCEPT ![t] = NoThread]
      /\ UNCHANGED <<waiterVars, cvTree, waitingCv, cvWord, held, terminationRequested, target>>
  BY DEF SignalToAddressWrite, InSection, Leave, Goto, cvVars
<1>2. arg[t] \in UserKeys /\ next.owner \in Threads \cup {NoThread}
  BY <1>1, Ranges DEF CallsHaveArguments
<1>3. /\ state' \in [Threads -> {"Runnable", "Waiting", "Terminated"}]
      /\ result' \in [Threads -> {"Success", "TimedOut", "TerminationRequested"}]
      /\ timer' \in [Threads -> BOOLEAN]
      /\ \A u \in Threads : u # next.owner => state'[u] = state[u] /\ result'[u] = result[u]
      /\ next.owner \in Threads /\ state[next.owner] = "Waiting" =>
            state'[next.owner] = "Runnable" /\ result'[next.owner] = "Success"
  BY <1>1, <1>2, EndWaitWakes
<1>4. next.owner # NoThread => state[next.owner] = "Waiting" /\ next.owner # t
  BY <1>1, <1>2, NoThreadAssumption DEF NextOwnerWaits, HandingOver
<1>5. /\ arg'[t] = NoKey
      /\ \A u \in Threads : u # t => /\ arg'[u] = arg[u] /\ cvArg'[u] = cvArg[u]
                                    /\ seen'[u] = seen[u]
  BY <1>1 DEF CvTypeOK
<1>6. NodeInOneTree' /\ CvTreeSorted'
  BY <1>1 DEF NodeInOneTree, CvTreeSorted, waiterVars
<1>7. CvTypeOK'
  <2>1. WaiterInv'
    BY <1>1, SameGraph
  <2>2. QED BY <1>1, <1>2, <1>3, <2>1, WordFacts DEF CvTypeOK, WaiterInv, Places
<1>8. state'[t] = state[t]
  BY <1>3, <1>4, NoThreadAssumption
<1> HIDE DEF CvInv
<1>9. QED BY <1>1, <1>2, <1>3, <1>4, <1>5, <1>6, <1>7, <1>8, StoresNext, ZenonT(60)

\* The exit of an owner stores the next owner of a mutex.
LEMMA AbandonStoresNext ==
    ASSUME CvInv, NEW t \in Threads, AbandonedLockWrite(t)
    PROVE  CvInv'
<1> USE DEF CvInv
<1>1. /\ pc[t] = "exitHandover" /\ section = t /\ section' = t
      /\ pc' = [pc EXCEPT ![t] = "exit"] /\ word' = [word EXCEPT ![arg[t]] = next]
      /\ EndWait(next.owner) /\ next' = Free
      /\ UNCHANGED <<waiterVars, cvTree, waitingCv, cvWord, held, terminationRequested, target,
                     arg, cvArg, seen>>
  BY DEF AbandonedLockWrite, InSection, Goto, cvVars
<1>2. arg[t] \in UserKeys /\ next.owner \in Threads \cup {NoThread}
  BY <1>1, Ranges DEF CallsHaveArguments
<1>3. /\ state' \in [Threads -> {"Runnable", "Waiting", "Terminated"}]
      /\ result' \in [Threads -> {"Success", "TimedOut", "TerminationRequested"}]
      /\ timer' \in [Threads -> BOOLEAN]
      /\ \A u \in Threads : u # next.owner => state'[u] = state[u] /\ result'[u] = result[u]
      /\ next.owner \in Threads /\ state[next.owner] = "Waiting" =>
            state'[next.owner] = "Runnable" /\ result'[next.owner] = "Success"
  BY <1>1, <1>2, EndWaitWakes
<1>4. next.owner # NoThread => state[next.owner] = "Waiting" /\ next.owner # t
  BY <1>1, <1>2, NoThreadAssumption DEF NextOwnerWaits, HandingOver
<1>5. NodeInOneTree' /\ CvTreeSorted'
  BY <1>1 DEF NodeInOneTree, CvTreeSorted, waiterVars
<1>6. CvTypeOK'
  <2>1. WaiterInv'
    BY <1>1, SameGraph
  <2>2. QED BY <1>1, <1>2, <1>3, <2>1, WordFacts DEF CvTypeOK, WaiterInv, Places, SectionPlaces
<1>7. state'[t] = state[t]
  BY <1>3, <1>4, NoThreadAssumption
<1> HIDE DEF CvInv
<1>8. QED BY <1>1, <1>2, <1>3, <1>4, <1>5, <1>6, <1>7, StoresNext

\* Wait stores the next owner and, unless its timeout is zero, sleeps.
LEMMA WaitSleeps ==
    ASSUME CvInv, NEW t \in Threads, WaitEnqueue(t)
    PROVE  CvInv'
<1> USE DEF CvInv
<1>1. /\ pc[t] = "enqueue" /\ section = t /\ section' = NoThread
      /\ word' = [word EXCEPT ![arg[t]] = next] /\ next' = Free
      /\ cvWord' = [cvWord EXCEPT ![cvArg[t]] = 1]
      /\ UNCHANGED <<waiterVars, held, terminationRequested, target, arg, cvArg, seen>>
  BY DEF WaitEnqueue, InSection
<1>2. /\ arg[t] \in UserKeys /\ cvArg[t] \in CvKeys
      /\ next.owner \in Threads \cup {NoThread}
  BY <1>1, Ranges DEF CallsHaveArguments
<1>3. state[t] = "Runnable" /\ waitingLock[t] = NoKey /\ waitingCv[t] = NoKey
  BY <1>1 DEF OnlySleepersAreLinked, CvTypeOK
<1>4. WaiterInv' /\ UNCHANGED <<waitingLock, priority>>
  BY <1>1, SameGraph DEF waiterVars
<1>5. CASE pc' = [pc EXCEPT ![t] = "recheck"] /\ UNCHANGED <<cvVars, state, timer, result>>
  <2>1. NodeInOneTree' /\ CvTreeSorted'
    BY <1>4, <1>5 DEF NodeInOneTree, CvTreeSorted, cvVars
  <2>2. CvTypeOK'
    BY <1>1, <1>2, <1>4, <1>5, WordFacts DEF CvTypeOK, WaiterInv, Places, cvVars
  <2>3. UNCHANGED <<state, result, waitingCv>>
    BY <1>5 DEF cvVars
  <2> HIDE DEF CvInv
  <2>4. QED BY <1>1, <1>2, <1>5, <2>1, <2>2, <2>3, StoresNext
<1>6. ASSUME NEW timed \in BOOLEAN, BeginWait(t, timed),
             NEW s \in TreeInsert(cvTree[cvArg[t]], t, priority),
             cvTree' = [cvTree EXCEPT ![cvArg[t]] = s],
             waitingCv' = [waitingCv EXCEPT ![t] = cvArg[t]],
             pc' = [pc EXCEPT ![t] = "waitCv"]
      PROVE  CvInv'
  <2> DEFINE c == cvArg[t]
  <2>1. /\ cvTree[c] \in Seq(Threads) /\ ~In(t, cvTree[c]) /\ Distinct(cvTree[c])
        /\ Sorted(cvTree[c], priority)
    BY <1>2, <1>3, CvKeysAssumption DEF CvTypeOK, NodeInOneTree, CvTreeSorted
  <2>2. \A x \in Threads : priority[x] \in Int
    BY PrioritiesAreNumbers, GraphTypes
  <2>3. /\ s \in Seq(Threads) /\ \A x : In(x, s) <=> x = t \/ In(x, cvTree[c])
        /\ Distinct(s) /\ Sorted(s, priority)
    BY <1>6, <2>1, <2>2, TreeInsertKeeps
  <2>4. /\ cvTree'[c] = s /\ \A d \in CvKeys : d # c => cvTree'[d] = cvTree[d]
        /\ waitingCv'[t] = c /\ \A u \in Threads : u # t => waitingCv'[u] = waitingCv[u]
    BY <1>2, <1>6 DEF CvTypeOK
  <2>5. /\ state' = [state EXCEPT ![t] = "Waiting"] /\ timer' = [timer EXCEPT ![t] = timed]
        /\ result' = result
    BY <1>6 DEF BeginWait
  <2>6. /\ state'[t] = "Waiting" /\ \A u \in Threads : u # t => state'[u] = state[u]
    BY <2>5 DEF CvTypeOK
  <2>7. NodeInOneTree'
    <3>1. \A u \in Threads : waitingCv'[u] # NoKey => waitingLock'[u] = NoKey
      BY <1>3, <1>4, <2>4 DEF NodeInOneTree
    <3>2. ASSUME NEW u \in Threads, NEW d \in CvKeys
          PROVE  In(u, cvTree'[d]) <=> waitingCv'[u] = d
      <4>1. CASE d = c
        BY <2>3, <2>4, <4>1 DEF NodeInOneTree
      <4>2. CASE d # c
        BY <1>3, <2>4, <4>2, CvKeysAssumption DEF NodeInOneTree
      <4>3. QED BY <4>1, <4>2
    <3>3. \A d \in CvKeys : Distinct(cvTree'[d])
      BY <2>3, <2>4 DEF NodeInOneTree
    <3>4. QED BY <3>1, <3>2, <3>3 DEF NodeInOneTree
  <2>8. CvTreeSorted'
    BY <1>4, <2>3, <2>4 DEF CvTreeSorted
  <2>9. CvTypeOK'
    BY <1>1, <1>2, <1>4, <1>6, <2>3, <2>5, WordFacts DEF CvTypeOK, WaiterInv, Places
  <2> HIDE DEF CvInv
  <2>10. QED BY <1>1, <1>2, <1>6, <2>4, <2>5, <2>6, <2>7, <2>8, <2>9, StoresNext
<1>7. QED
  BY <1>5, <1>6 DEF WaitEnqueue, Goto

-----------------------------------------------------------------------------
(* Waiting for the owner of a mutex, or taking over from a terminated one *)

\* Only a thread whose exit is in the section has left its guest code with mutexes.
LEMMA LeaversAreInside ==
    ASSUME CvInv, NEW t \in Threads \cup {NoThread}, section = t,
           t \in Threads => pc[t] \notin {"exit", "exitHandover"}
    PROVE  \A u \in Threads : ~InGuest(u) => held[u] = {}
<1> USE DEF CvInv
<1> SUFFICES ASSUME NEW u \in Threads, ~InGuest(u), NEW m \in held[u]
             PROVE  FALSE
  OBVIOUS
<1>1. pc[u] \in {"exit", "exitHandover"}
  BY DEF LeavingHolds, InGuest
<1>2. section = u
  BY <1>1 DEF OneSection, SectionPlaces
<1>3. QED BY <1>1, <1>2

\* A mutex that a terminated thread has left locked belongs to nobody.
LEMMA LeftLocked ==
    ASSUME CvInv, NEW m \in UserKeys, NEW o \in Threads, word[m] = Contended(o),
           IsTerminated(o), ~HandingOver(m)
    PROVE  /\ \A u \in Threads : ~Claims(u, m) /\ ~IsServed(u, m)
           /\ lockOwner[m] = NoThread
<1> USE DEF CvInv
<1>1. word[m].owner = o
  BY WordFacts
<1>2. pc[o] = "exited"
  BY DEF IsTerminated, OnlySleepersAreLinked
<1>3. /\ \A u \in Threads : Claims(u, m) => u = o
      /\ \A u \in Threads : IsServed(u, m) => u = o
  BY <1>1, OnlyOwnerDepends
<1>4. ~Claims(o, m)
  BY <1>2 DEF Claims, InGuest
<1>5. ~IsServed(o, m)
  BY <1>2, NoThreadAssumption DEF IsServed, SignalledGetsMutex
<1>6. lockOwner[m] = NoThread
  <2>1. lockOwner[m] # NoThread => lockOwner[m] \in Threads /\ word[m] = Contended(lockOwner[m])
    BY GraphTypes DEF QueueMatchesWord, EffectiveWord
  <2>2. lockOwner[m] # NoThread => lockOwner[m] = o
    BY <1>1, <2>1, WordFacts
  <2>3. QED BY <2>2 DEF IsTerminated, TerminatedOwesNothing
<1>7. QED BY <1>3, <1>4, <1>5, <1>6

\* WaitForAddress takes over what a terminated thread has left locked.
LEMMA AttachTakesOver ==
    ASSUME CvInv, NEW t \in Threads, WaitForAddressAttach(t), IsTerminated(seen[t])
    PROVE  CvInv'
<1> USE DEF CvInv
<1> DEFINE m == arg[t]
<1>1. /\ pc[t] = "attach" /\ section = t /\ section' = NoThread
      /\ word' = [word EXCEPT ![m] = Owned(t)]
      /\ pc' = [pc EXCEPT ![t] = "recheck"] /\ seen' = [seen EXCEPT ![t] = NoThread]
      /\ UNCHANGED <<waiterVars, state, timer, result, cvTree, waitingCv, cvWord, held, arg,
                     cvArg, terminationRequested, next, target>>
  BY DEF WaitForAddressAttach, InSection, Recheck, Goto, cvVars
<1>2. /\ m \in UserKeys /\ seen[t] \in Threads /\ word[m] = Contended(seen[t])
      /\ m \notin held[t]
  BY <1>1 DEF CallsHaveArguments, ReleasingOwns, InGuest
<1>3. /\ NoThread \notin Threads /\ held \in [Threads -> SUBSET UserKeys]
      /\ target \in Threads \cup {NoThread}
  BY Ranges
<1> HIDE DEF m
<1>4. /\ word'[m] = Owned(t) /\ \A j \in UserKeys : j # m => word'[j] = word[j]
      /\ pc'[t] = "recheck" /\ \A u \in Threads : u # t => pc'[u] = pc[u] /\ seen'[u] = seen[u]
      /\ UNCHANGED <<waitingLock, lockOwner, priority>>
  BY <1>1, <1>2 DEF CvTypeOK, waiterVars
<1>5. \A j : ~HandingOver(j) /\ ~HandingOver(j)'
  BY <1>1 DEF HandingOver
<1>6. target = NoThread /\ \A u \in Threads : pc[u] = "attach" => u = t
  BY <1>1, <1>3 DEF OneSection, SectionPlaces
<1>7. /\ \A u \in Threads : ~Claims(u, m) /\ ~IsServed(u, m)
      /\ lockOwner[m] = NoThread
  BY <1>2, <1>5, LeftLocked
<1>8. WaiterInv'
  BY <1>1, SameGraph
<1>9. CvTypeOK'
  BY <1>1, <1>2, <1>8, WordFacts DEF CvTypeOK, WaiterInv, Places
<1>10. HolderOwnsMutex'
  BY <1>1, <1>3, <1>4, <1>7 DEF HolderOwnsMutex, Claims, InGuest
<1>11. QueueMatchesWord'
  BY <1>4, <1>5, <1>7 DEF QueueMatchesWord, EffectiveWord
<1>12. NodeInOneTree' /\ CvTreeSorted' /\ TerminatedOwesNothing'
  BY <1>1, <1>4 DEF NodeInOneTree, CvTreeSorted, TerminatedOwesNothing
<1>13. OneSection'
  BY <1>1, <1>3, <1>4 DEF OneSection, SectionPlaces
<1>14. WordsWellFormed'
  BY <1>1, <1>3, <1>4, WordFacts DEF WordsWellFormed
<1>15. CallsHaveArguments'
  BY <1>1, <1>2, <1>4 DEF CallsHaveArguments, InGuest, m
<1>16. OnlySleepersAreLinked'
  BY <1>1, <1>4 DEF OnlySleepersAreLinked
<1>17. ReleasingOwns'
  BY <1>1, <1>4, <1>6, <1>7 DEF ReleasingOwns, Claims, CallsHaveArguments
<1>18. NextOwnerWaits' /\ SignalledGetsMutex'
  BY <1>1, <1>5, <1>6 DEF NextOwnerWaits, SignalledGetsMutex
<1>19. WokenOwns'
  BY <1>1, <1>4, <1>5, <1>7 DEF WokenOwns, EffectiveWord, IsServed, CallsHaveArguments
<1>20. LeavingHolds'
  <2>1. \A u \in Threads : ~InGuest(u) => held[u] = {}
    BY <1>1, LeaversAreInside
  <2>2. QED BY <1>1, <1>4, <2>1 DEF LeavingHolds, InGuest
<1>21. QED
  BY <1>8, <1>9, <1>10, <1>11, <1>12, <1>13, <1>14, <1>15, <1>16, <1>17, <1>18, <1>19, <1>20

\* What AddWaiter does to the waiter graph of guest mutexes.
LEMMA QueuesUp ==
    ASSUME CvInv, NEW o \in Threads, NEW w \in Threads, NEW m \in UserKeys, AddWaiter(o, w, m)
    PROVE  /\ WaiterInv' /\ UNCHANGED priority
           /\ waitingLock[w] = NoKey /\ waitingLock'[w] = m
           /\ \A u \in Threads : u # w => waitingLock'[u] = waitingLock[u]
           /\ lockOwner'[m] = o
           /\ \A j \in UserKeys : j # m => lockOwner'[j] = lockOwner[j]
<1> USE DEF CvInv
<1>1. /\ m \in Keys /\ UserKeys \subseteq Keys /\ waitingLock \in [Threads -> Keys \cup {NoKey}]
      /\ lockOwner \in [Keys -> Threads \cup {NoThread}]
  BY GraphTypes
<1>2. WaiterInv'
  BY <1>1, AddWaiterInv
<1>3. /\ waitingLock[w] = NoKey /\ waitingLock' = [waitingLock EXCEPT ![w] = m]
      /\ lockOwner' = [lockOwner EXCEPT ![m] = o] /\ UNCHANGED priority
  BY DEF AddWaiter, prioVars
<1>4. QED BY <1>1, <1>2, <1>3

\* WaitForAddress waits for the owner.
LEMMA AttachQueues ==
    ASSUME CvInv, NEW t \in Threads, WaitForAddressAttach(t), ~IsTerminated(seen[t])
    PROVE  CvInv'
<1> USE DEF CvInv
<1> DEFINE m == arg[t]
<1>1. /\ pc[t] = "attach" /\ section = t /\ section' = NoThread
      /\ AddWaiter(seen[t], t, m) /\ BeginWait(t, FALSE)
      /\ pc' = [pc EXCEPT ![t] = "waitLock"] /\ seen' = [seen EXCEPT ![t] = NoThread]
      /\ UNCHANGED <<word, cvTree, waitingCv, cvWord, held, arg,
                     cvArg, terminationRequested, next, target>>
  BY DEF WaitForAddressAttach, InSection, Goto, cvVars
<1>2. /\ m \in UserKeys /\ seen[t] \in Threads /\ word[m] = Contended(seen[t])
      /\ m \notin held[t]
  BY <1>1 DEF CallsHaveArguments, ReleasingOwns, InGuest
<1>3. /\ NoThread \notin Threads /\ NoKey \notin UserKeys
      /\ target \in Threads \cup {NoThread}
  BY Ranges
<1>4. /\ WaiterInv' /\ UNCHANGED priority
      /\ waitingLock'[t] = m
      /\ \A u \in Threads : u # t => waitingLock'[u] = waitingLock[u]
      /\ lockOwner'[m] = seen[t]
      /\ \A j \in UserKeys : j # m => lockOwner'[j] = lockOwner[j]
  BY <1>1, <1>2, QueuesUp
<1>5. /\ pc'[t] = "waitLock" /\ \A u \in Threads : u # t => pc'[u] = pc[u] /\ seen'[u] = seen[u]
      /\ state' = [state EXCEPT ![t] = "Waiting"] /\ timer' = [timer EXCEPT ![t] = FALSE]
      /\ result' = result
      /\ state'[t] = "Waiting" /\ \A u \in Threads : u # t => state'[u] = state[u]
  BY <1>1 DEF CvTypeOK, BeginWait
<1>6. \A j : ~HandingOver(j) /\ ~HandingOver(j)'
  BY <1>1, <1>3 DEF HandingOver
<1>7. target = NoThread /\ \A u \in Threads : pc[u] = "attach" => u = t
  BY <1>1, <1>3 DEF OneSection, SectionPlaces
<1>8. waitingCv[t] = NoKey
  BY <1>1 DEF OnlySleepersAreLinked
<1> HIDE DEF m
<1>9. CvTypeOK'
  BY <1>1, <1>4, <1>5 DEF CvTypeOK, WaiterInv, Places
<1>10. HolderOwnsMutex'
  BY <1>1, <1>5 DEF HolderOwnsMutex, InGuest
<1>11. QueueMatchesWord'
  <2> SUFFICES ASSUME NEW j \in UserKeys, lockOwner'[j] # NoThread
               PROVE  word[j] = Contended(lockOwner'[j])
    BY <1>1, <1>6 DEF QueueMatchesWord, EffectiveWord
  <2>1. CASE j = m
    BY <1>2, <1>4, <2>1
  <2>2. CASE j # m
    BY <1>4, <1>6, <2>2 DEF QueueMatchesWord, EffectiveWord
  <2>3. QED BY <2>1, <2>2
<1>12. NodeInOneTree' /\ CvTreeSorted'
  BY <1>1, <1>4, <1>8 DEF NodeInOneTree, CvTreeSorted
<1>13. TerminatedOwesNothing'
  <2>1. \A j \in UserKeys : lockOwner'[j] # NoThread => state[lockOwner'[j]] # "Terminated"
    BY <1>4 DEF TerminatedOwesNothing, IsTerminated
  <2>2. \A j \in UserKeys : lockOwner'[j] \in Threads \cup {NoThread}
    BY <1>2, <1>4, GraphTypes
  <2>3. QED BY <1>5, <2>1, <2>2 DEF TerminatedOwesNothing
<1>14. OneSection'
  BY <1>1, <1>3, <1>5 DEF OneSection, SectionPlaces
<1>15. WordsWellFormed'
  BY <1>1 DEF WordsWellFormed
<1>16. CallsHaveArguments'
  BY <1>1, <1>2, <1>5 DEF CallsHaveArguments, InGuest, m
<1>17. OnlySleepersAreLinked'
  BY <1>1, <1>4, <1>5, <1>8 DEF OnlySleepersAreLinked, m
<1>18. ReleasingOwns'
  BY <1>1, <1>5 DEF ReleasingOwns
<1>19. NextOwnerWaits' /\ SignalledGetsMutex'
  BY <1>1, <1>6, <1>7 DEF NextOwnerWaits, SignalledGetsMutex
<1>20. WokenOwns'
  BY <1>1, <1>5, <1>6 DEF WokenOwns, EffectiveWord
<1>21. LeavingHolds'
  <2>1. \A u \in Threads : ~InGuest(u) => held[u] = {}
    BY <1>1, LeaversAreInside
  <2>2. QED BY <1>1, <1>5, <2>1 DEF LeavingHolds, InGuest
<1>22. QED
  BY <1>4, <1>9, <1>10, <1>11, <1>12, <1>13, <1>14, <1>15, <1>16, <1>17, <1>18, <1>19, <1>20, <1>21

-----------------------------------------------------------------------------
(* Signal *)

\* The loop of Signal takes the first thread of the condition variable's tree.
LEMMA SignalTakesFirst ==
    ASSUME CvInv, NEW t \in Threads, NEW c \in CvKeys, cvTree[c] # <<>>,
           NEW w, w = Head(cvTree[c]), cvTree' = [cvTree EXCEPT ![c] = Tail(@)],
           waitingCv' = [waitingCv EXCEPT ![w] = NoKey], UNCHANGED waiterVars
    PROVE  /\ w \in Threads /\ waitingCv[w] = c
           /\ waitingLock[w] = NoKey /\ state[w] = "Waiting" /\ pc[w] = "waitCv"
           /\ waitingCv' \in [Threads -> CvKeys \cup {NoKey}] /\ waitingCv'[w] = NoKey
           /\ \A u \in Threads : u # w => waitingCv'[u] = waitingCv[u]
           /\ cvTree' \in [CvKeys -> Seq(Threads)] /\ NodeInOneTree' /\ CvTreeSorted'
<1> USE DEF CvInv
<1>1. /\ cvTree[c] \in Seq(Threads) /\ Distinct(cvTree[c]) /\ cvTree \in [CvKeys -> Seq(Threads)]
      /\ waitingCv \in [Threads -> CvKeys \cup {NoKey}]
  BY DEF CvTypeOK, NodeInOneTree
<1>2. w = cvTree[c][1]
  BY <1>1
<1>3. /\ w \in Threads /\ In(w, cvTree[c]) /\ Tail(cvTree[c]) \in Seq(Threads)
      /\ \A x : In(x, Tail(cvTree[c])) <=> x # w /\ In(x, cvTree[c])
      /\ Distinct(Tail(cvTree[c]))
      /\ \A key : Sorted(cvTree[c], key) => Sorted(Tail(cvTree[c]), key)
  BY <1>1, <1>2, TreeTail
<1>4. /\ waitingCv[w] = c /\ waitingLock[w] = NoKey /\ state[w] = "Waiting" /\ pc[w] = "waitCv"
  BY <1>3, CvKeysAssumption DEF NodeInOneTree, OnlySleepersAreLinked
<1>5. /\ cvTree'[c] = Tail(cvTree[c]) /\ \A d \in CvKeys : d # c => cvTree'[d] = cvTree[d]
      /\ waitingCv'[w] = NoKey /\ \A u \in Threads : u # w => waitingCv'[u] = waitingCv[u]
      /\ cvTree' \in [CvKeys -> Seq(Threads)] /\ waitingCv' \in [Threads -> CvKeys \cup {NoKey}]
      /\ UNCHANGED <<waitingLock, priority>>
  BY <1>1, <1>3 DEF waiterVars
<1>6. NodeInOneTree'
  <2>1. ASSUME NEW u \in Threads, NEW d \in CvKeys
        PROVE  In(u, cvTree'[d]) <=> waitingCv'[u] = d
    <3>1. CASE d = c
      BY <1>3, <1>5, <3>1, CvKeysAssumption DEF NodeInOneTree
    <3>2. CASE d # c
      BY <1>4, <1>5, <3>2, CvKeysAssumption DEF NodeInOneTree
    <3>3. QED BY <3>1, <3>2
  <2>2. \A u \in Threads : waitingCv'[u] # NoKey => waitingLock'[u] = NoKey
    BY <1>5 DEF NodeInOneTree
  <2>3. \A d \in CvKeys : Distinct(cvTree'[d])
    BY <1>3, <1>5 DEF NodeInOneTree
  <2>4. QED BY <2>1, <2>2, <2>3 DEF NodeInOneTree
<1>7. CvTreeSorted'
  BY <1>3, <1>5 DEF CvTreeSorted
<1>8. QED BY <1>3, <1>4, <1>5, <1>6, <1>7

\* UpdateLockAtomic gives the signalled thread a free mutex, or sets the wait mask.
LEMMA SignalTakeKeeps ==
    ASSUME CvInv, NEW t \in Threads, SignalTake(t)
    PROVE  CvInv'
<1> USE DEF CvInv
<1> DEFINE w == Head(cvTree[cvArg[t]])
           m == arg[w]
<1>1. /\ pc[t] \in {"signalOne", "signalAll"} /\ section = t /\ target = NoThread
      /\ cvTree[cvArg[t]] # <<>>
      /\ cvTree' = [cvTree EXCEPT ![cvArg[t]] = Tail(@)]
      /\ waitingCv' = [waitingCv EXCEPT ![w] = NoKey] /\ target' = w /\ next' = word[m]
      /\ word' = [word EXCEPT ![m] = UpdateLockAtomic(@, w)]
      /\ UNCHANGED <<waiterVars, cvWord, state, timer, result, terminationRequested,
                     pc, held, arg, cvArg, seen, section>>
  BY DEF SignalTake, InSection, threadVars, callVars
<1>2. cvArg[t] \in CvKeys
  BY <1>1 DEF CallsHaveArguments
<1> HIDE DEF w
<1>3. /\ w \in Threads
      /\ waitingLock[w] = NoKey /\ state[w] = "Waiting" /\ pc[w] = "waitCv"
      /\ waitingCv' \in [Threads -> CvKeys \cup {NoKey}] /\ waitingCv'[w] = NoKey
      /\ \A u \in Threads : u # w => waitingCv'[u] = waitingCv[u]
      /\ cvTree' \in [CvKeys -> Seq(Threads)] /\ NodeInOneTree' /\ CvTreeSorted'
  <2>1. w = Head(cvTree[cvArg[t]])
    BY DEF w
  <2>2. QED BY <1>1, <1>2, <2>1, SignalTakesFirst, ZenonT(60)
<1>4. /\ NoThread \notin Threads /\ held \in [Threads -> SUBSET UserKeys]
      /\ word \in [UserKeys -> Words] /\ m \in UserKeys
  BY <1>3, Ranges DEF CallsHaveArguments
<1> HIDE DEF m
<1>5. /\ word'[m] = UpdateLockAtomic(word[m], w)
      /\ \A j \in UserKeys : j # m => word'[j] = word[j]
      /\ UNCHANGED <<waitingLock, lockOwner>>
  BY <1>1, <1>4 DEF waiterVars
<1>6. \A j : ~HandingOver(j) /\ ~HandingOver(j)'
  BY <1>1 DEF HandingOver
<1>7. \A u \in Threads : pc[u] # "attach"
  BY <1>1 DEF OneSection, SectionPlaces
<1>8. /\ word[m] \in Words /\ word[m].owner \in Threads \cup {NoThread}
      /\ word[m] # Free => word[m].owner \in Threads
  BY <1>4, WordFacts DEF WordsWellFormed
<1>9. /\ word[m] = Free => /\ word'[m] = Owned(w) /\ lockOwner[m] = NoThread
                           /\ \A u \in Threads : ~Claims(u, m) /\ ~IsServed(u, m)
      /\ word[m] # Free => word'[m] = Contended(word[m].owner)
  <2>1. CASE word[m] = Free
    <3>1. word[m].owner = NoThread /\ word'[m] = Owned(w)
      BY <1>5, <2>1, WordFacts DEF UpdateLockAtomic
    <3>2. QED BY <1>4, <1>6, <2>1, <3>1, OnlyOwnerDepends
  <2>2. CASE word[m] # Free
    BY <1>5, <2>2 DEF UpdateLockAtomic
  <2>3. QED BY <2>1, <2>2
<1>10. word[m] # Free => /\ word'[m].owner = word[m].owner
                         /\ \A u \in Threads : word[m] = Contended(u) => word'[m] = Contended(u)
  BY <1>8, <1>9, WordFacts
<1>11. word'[m] \in Words /\ word'[m].owner # NoThread
  BY <1>3, <1>4, <1>8, <1>9, WordFacts
<1>12. WaiterInv'
  BY <1>1, SameGraph
<1>13. CvTypeOK'
  BY <1>1, <1>3, <1>4, <1>8, <1>11, <1>12 DEF CvTypeOK, WaiterInv
<1>14. HolderOwnsMutex'
  BY <1>1, <1>4, <1>5, <1>9, <1>10 DEF HolderOwnsMutex, Claims, InGuest
<1>15. QueueMatchesWord'
  BY <1>5, <1>6, <1>9, <1>10, GraphTypes DEF QueueMatchesWord, EffectiveWord
<1>16. TerminatedOwesNothing'
  BY <1>1, <1>5 DEF TerminatedOwesNothing
<1>17. OneSection'
  BY <1>1 DEF OneSection
<1>18. WordsWellFormed'
  BY <1>1, <1>4, <1>5, <1>8, <1>11 DEF WordsWellFormed
<1>19. CallsHaveArguments'
  BY <1>1 DEF CallsHaveArguments, InGuest
<1>20. OnlySleepersAreLinked'
  BY <1>1, <1>3, <1>5 DEF OnlySleepersAreLinked
<1>21. ReleasingOwns'
  BY <1>1, <1>5, <1>7, <1>9, <1>10 DEF ReleasingOwns, Claims, CallsHaveArguments
<1>22. NextOwnerWaits'
  BY <1>6 DEF NextOwnerWaits
<1>23. SignalledGetsMutex'
  BY <1>1, <1>3, <1>5, <1>9, WordFacts DEF SignalledGetsMutex, m
<1>24. WokenOwns'
  BY <1>1, <1>5, <1>6, <1>9, <1>10 DEF WokenOwns, EffectiveWord, IsServed, CallsHaveArguments
<1>25. LeavingHolds'
  <2>1. \A u \in Threads : ~InGuest(u) => held[u] = {}
    BY <1>1, LeaversAreInside
  <2>2. QED BY <1>1, <2>1 DEF LeavingHolds, InGuest
<1>26. QED
  BY <1>3, <1>12, <1>13, <1>14, <1>15, <1>16, <1>17, <1>18, <1>19, <1>20, <1>21, <1>22, <1>23,
     <1>24, <1>25

\* The signalled thread has the mutex, its own or a terminated thread's, and wakes.
LEMMA SignalServes ==
    ASSUME CvInv, NEW t \in Threads, SignalImpl(t),
           next.owner = NoThread \/ IsTerminated(next.owner)
    PROVE  CvInv'
<1> USE DEF CvInv
<1> DEFINE w == target
           m == arg[w]
<1>1. /\ pc[t] \in {"signalOne", "signalAll"} /\ section = t /\ section' = t
      /\ w # NoThread /\ target' = NoThread /\ next' = Free
      /\ EndWait(w)
      /\ \/ next.owner = NoThread /\ word' = word
         \/ next.owner # NoThread /\ word' = [word EXCEPT ![m] = Owned(w)]
      /\ UNCHANGED <<waiterVars, cvTree, waitingCv, cvWord, held, arg, cvArg, seen,
                     terminationRequested>>
  BY DEF SignalImpl, InSection, cvVars
<1>2. PICK label \in {"signalEnd", "signalAll"} : pc' = [pc EXCEPT ![t] = label]
  BY <1>1 DEF SignalImpl, Goto
<1>3. /\ NoThread \notin Threads /\ held \in [Threads -> SUBSET UserKeys]
      /\ word \in [UserKeys -> Words] /\ next.owner \in Threads \cup {NoThread}
      /\ w \in Threads
  BY <1>1, Ranges
<1>4. /\ pc[w] = "waitCv" /\ state[w] = "Waiting" /\ waitingLock[w] = NoKey
      /\ waitingCv[w] = NoKey /\ m \in UserKeys
      /\ IF next = Free THEN word[m].owner = w ELSE word[m] = Contended(next.owner)
  BY <1>1, <1>3 DEF SignalledGetsMutex, CallsHaveArguments
<1> HIDE DEF w, m
<1>5. /\ state' \in [Threads -> {"Runnable", "Waiting", "Terminated"}]
      /\ result' \in [Threads -> {"Success", "TimedOut", "TerminationRequested"}]
      /\ timer' \in [Threads -> BOOLEAN]
      /\ \A u \in Threads : u # w => state'[u] = state[u] /\ result'[u] = result[u]
      /\ state'[w] = "Runnable" /\ result'[w] = "Success"
  BY <1>1, <1>3, <1>4, EndWaitWakes
<1>6. /\ pc'[t] = label /\ \A u \in Threads : u # t => pc'[u] = pc[u]
      /\ UNCHANGED <<waitingLock, lockOwner, priority>>
  BY <1>1, <1>2 DEF CvTypeOK, waiterVars
<1>7. /\ \A j : ~HandingOver(j) /\ ~HandingOver(j)'
      /\ \A u \in Threads : pc[u] # "attach"
  BY <1>1, <1>2, <1>6 DEF HandingOver, OneSection, SectionPlaces
<1>8. /\ word' \in [UserKeys -> Words] /\ word'[m].owner = w
      /\ \A j \in UserKeys : j # m => word'[j] = word[j]
      /\ \/ word'[m] = word[m]
         \/ /\ lockOwner[m] = NoThread
            /\ \A u \in Threads : ~Claims(u, m) /\ ~IsServed(u, m)
  <2>1. CASE next.owner = NoThread
    <3>1. next = Free
      BY <2>1 DEF WordsWellFormed
    <3>2. QED BY <1>1, <1>3, <1>4, <2>1, <3>1
  <2>2. CASE next.owner # NoThread
    <3>1. next.owner \in Threads /\ word[m] = Contended(next.owner) /\ IsTerminated(next.owner)
      BY <1>3, <1>4, <2>2, WordFacts
    <3>2. /\ lockOwner[m] = NoThread
          /\ \A u \in Threads : ~Claims(u, m) /\ ~IsServed(u, m)
      BY <1>4, <1>7, <3>1, LeftLocked
    <3>3. QED BY <1>1, <1>3, <1>4, <2>2, <3>2, WordFacts
  <2>3. QED BY <2>1, <2>2
<1>9. WaiterInv'
  BY <1>1, SameGraph
<1>10. CvTypeOK'
  BY <1>1, <1>2, <1>5, <1>8, <1>9, WordFacts DEF CvTypeOK, WaiterInv, Places, SectionPlaces
<1>11. HolderOwnsMutex'
  BY <1>1, <1>3, <1>6, <1>8 DEF HolderOwnsMutex, Claims, InGuest
<1>12. QueueMatchesWord'
  BY <1>6, <1>7, <1>8 DEF QueueMatchesWord, EffectiveWord
<1>13. NodeInOneTree' /\ CvTreeSorted'
  BY <1>1, <1>6 DEF NodeInOneTree, CvTreeSorted
<1>14. TerminatedOwesNothing'
  <2>1. \A u \in Threads : state[u] # "Terminated" => state'[u] # "Terminated"
    BY <1>5
  <2>2. QED BY <1>6, <2>1, GraphTypes DEF TerminatedOwesNothing
<1>15. OneSection'
  BY <1>1, <1>3, <1>6 DEF OneSection, SectionPlaces
<1>16. WordsWellFormed'
  BY <1>1, <1>3, <1>4, <1>8 DEF WordsWellFormed
<1>17. CallsHaveArguments'
  BY <1>1, <1>6 DEF CallsHaveArguments, InGuest
<1>18. OnlySleepersAreLinked'
  BY <1>1, <1>4, <1>5, <1>6 DEF OnlySleepersAreLinked
<1>19. ReleasingOwns'
  BY <1>1, <1>6, <1>7, <1>8 DEF ReleasingOwns, Claims, CallsHaveArguments
<1>20. NextOwnerWaits' /\ SignalledGetsMutex'
  BY <1>1, <1>7 DEF NextOwnerWaits, SignalledGetsMutex
<1>21. WokenOwns'
  <2> SUFFICES ASSUME NEW u \in Threads, pc'[u] = "waitCv", state'[u] = "Runnable",
                      result'[u] = "Success"
               PROVE  word'[arg[u]].owner = u
    BY <1>1, <1>7 DEF WokenOwns, EffectiveWord
  <2>1. CASE u = w
    BY <1>8, <2>1 DEF m
  <2>2. CASE u # w
    <3>1. pc[u] = "waitCv" /\ state[u] = "Runnable" /\ result[u] = "Success"
      BY <1>5, <1>6, <2>2
    <3>2. word[arg[u]].owner = u /\ arg[u] \in UserKeys
      BY <1>7, <3>1 DEF WokenOwns, EffectiveWord, CallsHaveArguments
    <3>3. QED BY <1>8, <3>1, <3>2 DEF IsServed
  <2>3. QED BY <2>1, <2>2
<1>22. LeavingHolds'
  <2>1. \A u \in Threads : ~InGuest(u) => held[u] = {}
    BY <1>1, LeaversAreInside
  <2>2. QED BY <1>1, <1>6, <2>1 DEF LeavingHolds, InGuest
<1>23. QED
  BY <1>9, <1>10, <1>11, <1>12, <1>13, <1>14, <1>15, <1>16, <1>17, <1>18, <1>19, <1>20, <1>21, <1>22

\* The signalled thread waits for the owner of the mutex.
LEMMA SignalQueues ==
    ASSUME CvInv, NEW t \in Threads, SignalImpl(t), next.owner # NoThread,
           ~IsTerminated(next.owner)
    PROVE  CvInv'
<1> USE DEF CvInv
<1> DEFINE w == target
           m == arg[w]
           o == next.owner
<1>1. /\ pc[t] \in {"signalOne", "signalAll"} /\ section = t /\ section' = t
      /\ w # NoThread /\ target' = NoThread /\ next' = Free
      /\ AddWaiter(o, w, m)
      /\ UNCHANGED <<word, state, timer, result, cvTree, waitingCv, cvWord, held, arg, cvArg,
                     seen, terminationRequested>>
  BY DEF SignalImpl, InSection, cvVars
<1>2. PICK label \in {"signalEnd", "signalAll"} : pc' = [pc EXCEPT ![t] = label]
  BY <1>1 DEF SignalImpl, Goto
<1>3. /\ NoThread \notin Threads /\ NoKey \notin UserKeys /\ o \in Threads /\ w \in Threads
  BY <1>1, Ranges
<1>4. /\ pc[w] = "waitCv" /\ state[w] = "Waiting" /\ waitingCv[w] = NoKey /\ m \in UserKeys
      /\ word[m] = Contended(o)
  BY <1>1, <1>3, WordFacts DEF SignalledGetsMutex, CallsHaveArguments
<1> HIDE DEF w, m, o
<1>5. /\ WaiterInv' /\ UNCHANGED priority
      /\ waitingLock'[w] = m
      /\ \A u \in Threads : u # w => waitingLock'[u] = waitingLock[u]
      /\ lockOwner'[m] = o
      /\ \A j \in UserKeys : j # m => lockOwner'[j] = lockOwner[j]
  BY <1>1, <1>3, <1>4, QueuesUp
<1>6. pc'[t] = label /\ \A u \in Threads : u # t => pc'[u] = pc[u]
  BY <1>2 DEF CvTypeOK
<1>7. \A j : ~HandingOver(j) /\ ~HandingOver(j)'
  BY <1>1, <1>2, <1>6 DEF HandingOver
<1>8. CvTypeOK'
  BY <1>1, <1>2, <1>5, WordFacts DEF CvTypeOK, WaiterInv, Places, SectionPlaces
<1>9. HolderOwnsMutex'
  BY <1>1, <1>6 DEF HolderOwnsMutex, InGuest
<1>10. QueueMatchesWord'
  <2> SUFFICES ASSUME NEW j \in UserKeys, lockOwner'[j] # NoThread
               PROVE  word[j] = Contended(lockOwner'[j])
    BY <1>1, <1>7 DEF QueueMatchesWord, EffectiveWord
  <2>1. CASE j = m
    BY <1>4, <1>5, <2>1
  <2>2. CASE j # m
    BY <1>5, <1>7, <2>2 DEF QueueMatchesWord, EffectiveWord
  <2>3. QED BY <2>1, <2>2
<1>11. NodeInOneTree' /\ CvTreeSorted'
  BY <1>1, <1>4, <1>5 DEF NodeInOneTree, CvTreeSorted
<1>12. TerminatedOwesNothing'
  <2>1. CASE state[o] # "Terminated"
    BY <1>1, <1>5, <2>1 DEF TerminatedOwesNothing
  <2>2. QED BY <2>1 DEF IsTerminated, o
<1>13. OneSection'
  BY <1>1, <1>3, <1>6 DEF OneSection, SectionPlaces
<1>14. WordsWellFormed'
  BY <1>1 DEF WordsWellFormed
<1>15. CallsHaveArguments'
  BY <1>1, <1>6 DEF CallsHaveArguments, InGuest
<1>16. OnlySleepersAreLinked'
  <2> SUFFICES ASSUME NEW u \in Threads
               PROVE  /\ state[u] = "Terminated" <=> pc'[u] = "exited"
                      /\ state[u] = "Waiting" => pc'[u] \in {"waitLock", "waitCv"}
                      /\ waitingLock'[u] # NoKey => waitingLock'[u] = arg[u] /\ state[u] = "Waiting"
                      /\ waitingCv[u] # NoKey =>
                            waitingCv[u] = cvArg[u] /\ state[u] = "Waiting" /\ pc'[u] = "waitCv"
    BY <1>1 DEF OnlySleepersAreLinked
  <2>1. CASE u = w
    BY <1>1, <1>4, <1>5, <1>6, <2>1 DEF m
  <2>2. CASE u # w
    BY <1>1, <1>5, <1>6, <2>2 DEF OnlySleepersAreLinked
  <2>3. QED BY <2>1, <2>2
<1>17. ReleasingOwns'
  BY <1>1, <1>6 DEF ReleasingOwns
<1>18. NextOwnerWaits' /\ SignalledGetsMutex'
  BY <1>1, <1>7 DEF NextOwnerWaits, SignalledGetsMutex
<1>19. WokenOwns'
  BY <1>1, <1>6, <1>7 DEF WokenOwns, EffectiveWord
<1>20. LeavingHolds'
  <2>1. \A u \in Threads : ~InGuest(u) => held[u] = {}
    BY <1>1, LeaversAreInside
  <2>2. QED BY <1>1, <1>6, <2>1 DEF LeavingHolds, InGuest
<1>21. QED
  BY <1>5, <1>8, <1>9, <1>10, <1>11, <1>12, <1>13, <1>14, <1>15, <1>16, <1>17, <1>18, <1>19, <1>20

-----------------------------------------------------------------------------
(* Priorities *)

\* Steps that change priorities only: those of the threads, and so the order of the trees.
LEMMA Elsewhere ==
    ASSUME CvInv, section' = section, target' = target \/ section = NoThread,
           UNCHANGED <<word, pc, held, arg, cvArg, seen, next, waitingLock, lockOwner,
                       waitingCv, state, result>>,
           WaiterInv', CvTypeOK', NodeInOneTree', CvTreeSorted'
    PROVE  CvInv'
<1> USE DEF CvInv
<1>1. \A j : HandingOver(j)' <=> HandingOver(j)
  BY DEF HandingOver
<1>2. HolderOwnsMutex' /\ CallsHaveArguments'
  BY DEF HolderOwnsMutex, InGuest, CallsHaveArguments
<1>3. QueueMatchesWord' /\ WokenOwns'
  BY <1>1 DEF QueueMatchesWord, WokenOwns, EffectiveWord
<1>4. TerminatedOwesNothing' /\ WordsWellFormed' /\ ReleasingOwns'
  BY DEF TerminatedOwesNothing, WordsWellFormed, ReleasingOwns
<1>5. OneSection'
  BY NoThreadAssumption DEF OneSection
<1>6. OnlySleepersAreLinked'
  BY DEF OnlySleepersAreLinked
<1>7. NextOwnerWaits'
  BY <1>1 DEF NextOwnerWaits
<1>8. SignalledGetsMutex'
  BY DEF SignalledGetsMutex
<1>9. LeavingHolds'
  BY DEF LeavingHolds, InGuest, OwnedOrPassedOn
<1>10. QED
  BY <1>2, <1>3, <1>4, <1>5, <1>6, <1>7, <1>8, <1>9

\* A base priority changes: an order of another thread, or of RequestTerminate.
LEMMA BasePriorityChanges ==
    ASSUME CvInv,
           \E t \in Threads : \/ RequestTerminate(t)
                              \/ \E p \in Priorities : ChangeBasePriority(t, p)
    PROVE  CvInv'
<1> USE DEF CvInv
<1>1. PICK t \in Threads : \/ RequestTerminate(t)
                           \/ \E p \in Priorities : ChangeBasePriority(t, p)
  OBVIOUS
<1>2. /\ section' = section /\ section = NoThread /\ target' \in Threads \cup {NoThread}
      /\ UNCHANGED <<word, cvWord, pc, held, arg, cvArg, seen, next, cvTree, waitingCv, state,
                     timer, result>>
      /\ terminationRequested' \in [Threads -> BOOLEAN]
      /\ UNCHANGED waiterVars \/ \E p \in Priorities : SetBasePriority(t, p)
  <2>1. CASE RequestTerminate(t)
    BY <2>1, TerminatingPriorityAssumption
       DEF RequestTerminate, IncreaseBasePriority, SchedulerFree, memVars, cvVars, callVars,
           CvTypeOK
  <2>2. CASE \E p \in Priorities : ChangeBasePriority(t, p)
    BY <2>2 DEF ChangeBasePriority, SchedulerFree, memVars, cvVars, callVars, threadVars,
                sectionVars, CvTypeOK
  <2>3. QED BY <1>1, <2>1, <2>2
<1>3. WaiterInv' /\ UNCHANGED <<priority, waitingLock, lockOwner>>
  <2>1. CASE UNCHANGED waiterVars
    BY <2>1, SameGraph DEF waiterVars
  <2>2. CASE \E p \in Priorities : SetBasePriority(t, p)
    BY <2>2, SetBasePriorityInv DEF SetBasePriority, graphVars
  <2>3. QED BY <1>2, <2>1, <2>2
<1>4. CvTypeOK'
  BY <1>2, <1>3 DEF CvTypeOK, WaiterInv
<1>5. NodeInOneTree' /\ CvTreeSorted'
  BY <1>2, <1>3 DEF NodeInOneTree, CvTreeSorted
<1>6. QED BY <1>2, <1>3, <1>4, <1>5, Elsewhere

\* RestorePriority: a thread whose priority changes moves in the tree it is in.
LEMMA RestoreKeeps ==
    ASSUME CvInv, Restore
    PROVE  CvInv'
<1> USE DEF CvInv
<1> DEFINE r == restoring
           c == waitingCv[r]
<1>1. /\ RestorePriority /\ r \in Threads
      /\ IF c = NoKey \/ priority'[r] = priority[r]
         THEN UNCHANGED cvTree ELSE MoveInCvTree(r, c)
      /\ UNCHANGED <<word, cvWord, waitingCv, pc, held, arg, cvArg, seen, state, timer, result,
                     terminationRequested, section, next, target>>
  BY DEF Restore, RestorePriority, memVars, callVars, threadVars, sectionVars, WaiterInv, TypeOK
<1>2. /\ WaiterInv' /\ UNCHANGED <<waitingLock, lockOwner>>
      /\ \A u \in Threads : u # r => priority'[u] = priority[u]
  <2>1. WaiterInv'
    BY <1>1, RestorePriorityInv
  <2>2. UNCHANGED <<waitingLock, lockOwner>>
        /\ (UNCHANGED priority \/ \E p : priority' = [priority EXCEPT ![r] = p])
    BY <1>1 DEF RestorePriority
  <2>3. QED BY <2>1, <2>2, GraphTypes
<1>3. /\ priority' \in [Threads -> Priorities] /\ waitingCv \in [Threads -> CvKeys \cup {NoKey}]
      /\ cvTree \in [CvKeys -> Seq(Threads)]
  BY <1>2 DEF WaiterInv, TypeOK, CvTypeOK
<1> HIDE DEF r, c
<1>4. \A x \in Threads : priority'[x] \in Int
  BY <1>3, PrioritiesAreNumbers
<1>5. \A d \in CvKeys : d # c \/ priority'[r] = priority[r] => Sorted(cvTree[d], priority')
  <2> SUFFICES ASSUME NEW d \in CvKeys, d # c \/ priority'[r] = priority[r]
               PROVE  Sorted(cvTree[d], priority')
    OBVIOUS
  <2>1. ASSUME NEW x, In(x, cvTree[d]) PROVE priority[x] = priority'[x]
    <3>1. x \in Threads
      BY <1>3, <2>1 DEF In
    <3>2. d # c => x # r
      BY <2>1, <3>1 DEF NodeInOneTree, c
    <3>3. QED BY <1>2, <3>1, <3>2
  <2>2. cvTree[d] \in Seq(Threads) /\ Sorted(cvTree[d], priority)
    BY <1>3 DEF CvTreeSorted
  <2>3. QED BY <2>1, <2>2, SortedCongruence
<1>6. /\ cvTree' \in [CvKeys -> Seq(Threads)]
      /\ \A d \in CvKeys : /\ \A x \in Threads : In(x, cvTree'[d]) <=> In(x, cvTree[d])
                           /\ Distinct(cvTree'[d]) /\ Sorted(cvTree'[d], priority')
  <2>1. CASE c = NoKey \/ priority'[r] = priority[r]
    <3>1. \A d \in CvKeys : Sorted(cvTree[d], priority')
      BY <1>5, <2>1, CvKeysAssumption
    <3>2. QED BY <1>1, <1>3, <2>1, <3>1 DEF NodeInOneTree
  <2>2. CASE c # NoKey /\ priority'[r] # priority[r]
    <3>1. c \in CvKeys
      BY <1>1, <1>3, <2>2 DEF c
    <3>2. PICK s1 \in TreeErase(cvTree[c], r) :
              \E s2 \in TreeInsert(s1, r, priority') : cvTree' = [cvTree EXCEPT ![c] = s2]
      BY <1>1, <2>2 DEF MoveInCvTree
    <3>3. PICK s2 \in TreeInsert(s1, r, priority') : cvTree' = [cvTree EXCEPT ![c] = s2]
      BY <3>2
    <3>4. /\ cvTree[c] \in Seq(Threads) /\ Distinct(cvTree[c]) /\ Sorted(cvTree[c], priority)
          /\ In(r, cvTree[c])
      BY <1>1, <1>3, <3>1 DEF NodeInOneTree, CvTreeSorted, c
    <3>5. /\ s1 \in Seq(Threads) /\ \A x : In(x, s1) <=> x # r /\ In(x, cvTree[c])
          /\ Distinct(s1) /\ Sorted(s1, priority)
      BY <1>1, <3>4, TreeEraseKeeps
    <3>6. \A x : In(x, s1) => priority[x] = priority'[x]
      <4>1. \A x : In(x, s1) => x \in Threads
        BY <3>5 DEF In
      <4>2. QED BY <1>2, <3>5, <4>1
    <3>7. Sorted(s1, priority')
      BY <3>5, <3>6, SortedCongruence
    <3>8. /\ s2 \in Seq(Threads) /\ \A x : In(x, s2) <=> x = r \/ In(x, s1)
          /\ Distinct(s2) /\ Sorted(s2, priority')
      BY <1>1, <1>4, <3>5, <3>7, TreeInsertKeeps
    <3>9. /\ cvTree'[c] = s2 /\ \A d \in CvKeys : d # c => cvTree'[d] = cvTree[d]
          /\ cvTree' \in [CvKeys -> Seq(Threads)]
      BY <1>3, <3>1, <3>3, <3>8
    <3>10. \A x : In(x, s2) <=> In(x, cvTree[c])
      BY <3>4, <3>5, <3>8
    <3>11. QED BY <1>5, <3>8, <3>9, <3>10 DEF NodeInOneTree
  <2>3. QED BY <2>1, <2>2
<1>7. NodeInOneTree' /\ CvTreeSorted'
  BY <1>1, <1>2, <1>6 DEF NodeInOneTree, CvTreeSorted
<1>8. CvTypeOK'
  BY <1>1, <1>2, <1>6 DEF CvTypeOK, WaiterInv
<1>9. QED BY <1>1, <1>2, <1>7, <1>8, Elsewhere

-----------------------------------------------------------------------------
(* The end of a wait, timeouts, termination *)

\* A thread that returns from a successful Wait is the owner of its mutex.
LEMMA WaitEndsKeeps ==
    ASSUME CvInv, NEW t \in Threads, WaitEnds(t)
    PROVE  CvInv'
<1> USE DEF CvInv
<1>1. /\ pc[t] \in {"waitLock", "waitCv"} /\ state[t] = "Runnable"
      /\ section = NoThread /\ target = NoThread
      /\ \/ /\ pc[t] = "waitCv" /\ result[t] = "Success"
            /\ pc' = [pc EXCEPT ![t] = "run"] /\ held' = [held EXCEPT ![t] = @ \cup {arg[t]}]
            /\ arg' = [arg EXCEPT ![t] = NoKey] /\ cvArg' = [cvArg EXCEPT ![t] = NoKey]
            /\ seen' = [seen EXCEPT ![t] = NoThread]
         \/ /\ pc' = [pc EXCEPT ![t] = "recheck"]
            /\ UNCHANGED <<held, arg, cvArg, seen>>
      /\ result' = [result EXCEPT ![t] = "Success"]
      /\ UNCHANGED <<waiterVars, word, cvWord, cvTree, waitingCv, section, next, target, state,
                     timer, terminationRequested>>
  BY DEF WaitEnds, SchedulerFree, Leave, Goto, memVars, cvVars, sectionVars
<1>2. /\ NoThread \notin Threads /\ NoKey \notin UserKeys
      /\ held \in [Threads -> SUBSET UserKeys]
      /\ arg[t] \in UserKeys /\ arg[t] \notin held[t]
  BY <1>1, Ranges DEF CallsHaveArguments, InGuest
<1>3. /\ UNCHANGED <<waitingLock, lockOwner, priority>>
      /\ waitingLock[t] = NoKey /\ waitingCv[t] = NoKey
      /\ \A j : ~HandingOver(j) /\ ~HandingOver(j)'
  BY <1>1 DEF waiterVars, OnlySleepersAreLinked, HandingOver
<1>4. /\ pc'[t] \in {"run", "recheck"} /\ result'[t] = "Success"
      /\ \A u \in Threads : u # t => /\ pc'[u] = pc[u] /\ held'[u] = held[u] /\ arg'[u] = arg[u]
                                    /\ cvArg'[u] = cvArg[u] /\ seen'[u] = seen[u]
                                    /\ result'[u] = result[u]
  BY <1>1 DEF CvTypeOK
<1>5. \/ /\ pc'[t] = "run" /\ held'[t] = held[t] \cup {arg[t]} /\ arg'[t] = NoKey
         /\ word[arg[t]].owner = t
      \/ pc'[t] = "recheck" /\ held'[t] = held[t] /\ arg'[t] = arg[t]
  BY <1>1, <1>2, <1>3 DEF CvTypeOK, WokenOwns, EffectiveWord
<1>6. WaiterInv'
  BY <1>1, SameGraph
<1>7. CvTypeOK'
  <2>1. pc' \in [Threads -> Places]
    BY <1>1 DEF CvTypeOK, Places
  <2>2. /\ held' \in [Threads -> SUBSET UserKeys] /\ arg' \in [Threads -> UserKeys \cup {NoKey}]
        /\ cvArg' \in [Threads -> CvKeys \cup {NoKey}]
        /\ seen' \in [Threads -> Threads \cup {NoThread}]
    <3>1. /\ held \in [Threads -> SUBSET UserKeys] /\ arg \in [Threads -> UserKeys \cup {NoKey}]
          /\ cvArg \in [Threads -> CvKeys \cup {NoKey}]
          /\ seen \in [Threads -> Threads \cup {NoThread}]
      BY DEF CvTypeOK
    <3>2. CASE UNCHANGED <<held, arg, cvArg, seen>>
      BY <3>1, <3>2
    <3>3. CASE held' = [held EXCEPT ![t] = @ \cup {arg[t]}]
      BY <1>1, <1>2, <3>1, <3>3
    <3>4. QED BY <1>1, <3>2, <3>3
  <2>3. QED BY <1>1, <1>6, <2>1, <2>2 DEF CvTypeOK, WaiterInv
<1>8. HolderOwnsMutex'
  <2> SUFFICES ASSUME NEW u \in Threads, InGuest(u)', NEW j \in held'[u]
               PROVE  word[j].owner = u
    BY <1>1 DEF HolderOwnsMutex
  <2>1. CASE u = t
    BY <1>1, <1>5, <2>1 DEF HolderOwnsMutex, InGuest
  <2>2. CASE u # t
    BY <1>4, <2>2 DEF HolderOwnsMutex, InGuest
  <2>3. QED BY <2>1, <2>2
<1>9. QueueMatchesWord' /\ TerminatedOwesNothing'
  BY <1>1, <1>3 DEF QueueMatchesWord, EffectiveWord, TerminatedOwesNothing
<1>10. NodeInOneTree' /\ CvTreeSorted'
  BY <1>1, <1>3 DEF NodeInOneTree, CvTreeSorted
<1>11. OneSection'
  BY <1>1, <1>2, <1>4 DEF OneSection, SectionPlaces
<1>12. WordsWellFormed'
  BY <1>1 DEF WordsWellFormed
<1>13. CallsHaveArguments'
  BY <1>2, <1>4, <1>5 DEF CallsHaveArguments, InGuest
<1>14. OnlySleepersAreLinked'
  BY <1>1, <1>3, <1>4 DEF OnlySleepersAreLinked
<1>15. ReleasingOwns'
  BY <1>1, <1>4 DEF ReleasingOwns
<1>16. NextOwnerWaits' /\ SignalledGetsMutex'
  BY <1>1, <1>3 DEF NextOwnerWaits, SignalledGetsMutex
<1>17. WokenOwns'
  BY <1>1, <1>3, <1>4 DEF WokenOwns, EffectiveWord
<1>18. LeavingHolds'
  <2>1. \A u \in Threads : ~InGuest(u) => held[u] = {}
    BY <1>1, <1>2, LeaversAreInside
  <2>2. QED BY <1>4, <2>1 DEF LeavingHolds, InGuest
<1>19. QED
  BY <1>6, <1>7, <1>8, <1>9, <1>10, <1>11, <1>12, <1>13, <1>14, <1>15, <1>16, <1>17, <1>18

\* A wait is cancelled: the thread leaves the tree it is in, if any.
LEMMA CancelWaitKeeps ==
    ASSUME CvInv, NEW t \in Threads, NEW why \in {"TimedOut", "TerminationRequested"},
           section = NoThread, section' = NoThread, target' = NoThread,
           state[t] = "Waiting", CancelWait(t, why),
           UNCHANGED <<word, cvWord, pc, held, arg, cvArg, seen, terminationRequested, next>>
    PROVE  CvInv'
<1> USE DEF CvInv
<1>1. /\ state' = [state EXCEPT ![t] = "Runnable"] /\ timer' = [timer EXCEPT ![t] = FALSE]
      /\ result' = [result EXCEPT ![t] = why]
      /\ state'[t] = "Runnable" /\ result'[t] = why
      /\ \A u \in Threads : u # t => state'[u] = state[u] /\ result'[u] = result[u]
  BY DEF CancelWait, CvTypeOK
<1>2. /\ waitingLock \in [Threads -> Keys \cup {NoKey}]
      /\ lockOwner \in [Keys -> Threads \cup {NoThread}]
      /\ UserKeys \subseteq Keys
  BY GraphTypes
<1>3. /\ WaiterInv' /\ UNCHANGED priority /\ waitingLock'[t] = NoKey
      /\ \A u \in Threads : u # t => waitingLock'[u] = waitingLock[u]
      /\ \A j \in UserKeys : lockOwner'[j] \in {NoThread, lockOwner[j]}
  <2>1. CASE waitingLock[t] # NoKey /\ RemoveWaiter(t)
    <3>1. /\ waitingLock' = [waitingLock EXCEPT ![t] = NoKey] /\ UNCHANGED priority
          /\ \E s : lockOwner' = [lockOwner EXCEPT ![waitingLock[t]] =
                                    IF s = <<>> THEN NoThread ELSE GetLockOwner(t)]
      BY <2>1 DEF RemoveWaiter, prioVars
    <3>2. GetLockOwner(t) = lockOwner[waitingLock[t]]
      BY <2>1 DEF GetLockOwner
    <3>3. WaiterInv'
      BY <2>1, RemoveWaiterInv
    <3>4. QED BY <1>2, <3>1, <3>2, <3>3
  <2>2. CASE waitingLock[t] = NoKey /\ UNCHANGED waiterVars
    BY <2>2, SameGraph DEF waiterVars
  <2>3. QED BY <2>1, <2>2 DEF CancelWait
<1>4. /\ cvTree' \in [CvKeys -> Seq(Threads)] /\ waitingCv' \in [Threads -> CvKeys \cup {NoKey}]
      /\ waitingCv'[t] = NoKey /\ \A u \in Threads : u # t => waitingCv'[u] = waitingCv[u]
      /\ \A c \in CvKeys :
            /\ \A x \in Threads : In(x, cvTree'[c]) <=> x # t /\ In(x, cvTree[c])
            /\ Distinct(cvTree'[c]) /\ Sorted(cvTree'[c], priority)
  <2> DEFINE c == waitingCv[t]
  <2>1. /\ cvTree \in [CvKeys -> Seq(Threads)] /\ waitingCv \in [Threads -> CvKeys \cup {NoKey}]
    BY DEF CvTypeOK
  <2>2. CASE c = NoKey /\ UNCHANGED cvVars
    <3>1. \A d \in CvKeys : ~In(t, cvTree[d])
      BY <2>2, CvKeysAssumption DEF NodeInOneTree
    <3>2. QED BY <2>1, <2>2, <3>1 DEF NodeInOneTree, CvTreeSorted, cvVars
  <2>3. CASE c # NoKey
    <3>1. PICK s \in TreeErase(cvTree[c], t) : cvTree' = [cvTree EXCEPT ![c] = s]
      BY <2>3 DEF CancelWait
    <3>2. c \in CvKeys /\ waitingCv' = [waitingCv EXCEPT ![t] = NoKey]
      BY <2>1, <2>3 DEF CancelWait
    <3>3. cvTree[c] \in Seq(Threads) /\ Distinct(cvTree[c]) /\ Sorted(cvTree[c], priority)
      BY <2>1, <3>2 DEF NodeInOneTree, CvTreeSorted
    <3>4. /\ s \in Seq(Threads) /\ \A x : In(x, s) <=> x # t /\ In(x, cvTree[c])
          /\ Distinct(s) /\ Sorted(s, priority)
      BY <3>1, <3>3, TreeEraseKeeps
    <3>5. \A d \in CvKeys : d # c => ~In(t, cvTree[d])
      BY DEF NodeInOneTree
    <3>6. QED BY <2>1, <3>1, <3>2, <3>4, <3>5 DEF NodeInOneTree, CvTreeSorted
  <2>4. QED BY <2>2, <2>3 DEF CancelWait
<1>5. /\ \A j : ~HandingOver(j) /\ ~HandingOver(j)'
  BY DEF HandingOver
<1>6. CvTypeOK'
  BY <1>1, <1>3, <1>4 DEF CvTypeOK, WaiterInv
<1>7. HolderOwnsMutex'
  BY DEF HolderOwnsMutex, InGuest
<1>8. QueueMatchesWord'
  BY <1>3, <1>5 DEF QueueMatchesWord, EffectiveWord
<1>9. NodeInOneTree' /\ CvTreeSorted'
  <2>1. \A u \in Threads : waitingCv'[u] # NoKey => waitingLock'[u] = NoKey
    BY <1>3, <1>4 DEF NodeInOneTree
  <2>2. \A u \in Threads, c \in CvKeys : In(u, cvTree'[c]) <=> waitingCv'[u] = c
    BY <1>4, CvKeysAssumption DEF NodeInOneTree
  <2>3. QED BY <1>3, <1>4, <2>1, <2>2 DEF NodeInOneTree, CvTreeSorted
<1>10. TerminatedOwesNothing'
  <2>1. \A u \in Threads : state[u] # "Terminated" => state'[u] # "Terminated"
    BY <1>1
  <2>2. QED BY <1>2, <1>3, <2>1 DEF TerminatedOwesNothing
<1>11. OneSection'
  BY DEF OneSection
<1>12. WordsWellFormed'
  BY DEF WordsWellFormed
<1>13. CallsHaveArguments'
  BY DEF CallsHaveArguments, InGuest
<1>14. OnlySleepersAreLinked'
  BY <1>1, <1>3, <1>4 DEF OnlySleepersAreLinked
<1>15. ReleasingOwns'
  BY DEF ReleasingOwns
<1>16. NextOwnerWaits' /\ SignalledGetsMutex'
  BY <1>5 DEF NextOwnerWaits, SignalledGetsMutex
<1>17. WokenOwns'
  BY <1>1, <1>5 DEF WokenOwns, EffectiveWord
<1>18. LeavingHolds'
  <2>1. \A u \in Threads : ~InGuest(u) => held[u] = {}
    BY LeaversAreInside, NoThreadAssumption
  <2>2. QED BY <2>1 DEF LeavingHolds, InGuest
<1>19. QED
  BY <1>3, <1>6, <1>7, <1>8, <1>9, <1>10, <1>11, <1>12, <1>13, <1>14, <1>15, <1>16, <1>17, <1>18

\* The timer of a wait expires, or a thread that is to terminate is woken.
LEMMA WaitsAreCancelled ==
    ASSUME CvInv, TerminateCancelsWait \/ \E t \in Threads : OnTimer(t)
    PROVE  CvInv'
<1>1. ASSUME NEW t \in Threads, OnTimer(t) PROVE CvInv'
  <2>1. /\ section = NoThread /\ section' = NoThread /\ target' = NoThread
        /\ state[t] = "Waiting" /\ CancelWait(t, "TimedOut")
        /\ UNCHANGED <<word, cvWord, pc, held, arg, cvArg, seen, terminationRequested, next>>
    BY <1>1 DEF OnTimer, SchedulerFree, memVars, callVars, sectionVars
  <2>2. QED BY <2>1, CancelWaitKeeps
<1>2. CASE TerminateCancelsWait
  <2>1. /\ section = NoThread /\ section' = NoThread /\ target' = NoThread
        /\ target # NoThread
        /\ UNCHANGED <<word, cvWord, pc, held, arg, cvArg, seen, terminationRequested, next>>
    BY <1>2 DEF TerminateCancelsWait, memVars, callVars
  <2>2. target \in Threads
    BY <2>1, Ranges
  <2>3. CASE state[target] = "Waiting" /\ CancelWait(target, "TerminationRequested")
    BY <2>1, <2>2, <2>3, CancelWaitKeeps
  <2>4. CASE UNCHANGED <<waiterVars, cvVars, state, timer, result>>
    <3>1. WaiterInv' /\ CvTypeOK' /\ NodeInOneTree' /\ CvTreeSorted'
      <4>1. WaiterInv'
        BY <2>4, SameGraph DEF CvInv
      <4>2. QED BY <2>1, <2>4, <4>1
               DEF CvInv, CvTypeOK, WaiterInv, NodeInOneTree, CvTreeSorted, cvVars, waiterVars
    <3>2. UNCHANGED <<waitingLock, lockOwner, waitingCv, state, result>>
      BY <2>4 DEF waiterVars, cvVars
    <3>3. QED BY <2>1, <3>1, <3>2, Elsewhere
  <2>5. QED BY <1>2, <2>3, <2>4 DEF TerminateCancelsWait
<1>3. QED BY <1>1, <1>2

\* A thread terminates: nobody waits for it any more.
LEMMA TerminationKeeps ==
    ASSUME CvInv, NEW t \in Threads, StartTermination(t)
    PROVE  CvInv'
<1> USE DEF CvInv
<1>1. /\ pc[t] = "exit" /\ section = t /\ section' = NoThread
      /\ \A m \in UserKeys : lockOwner[m] # t
      /\ state' = [state EXCEPT ![t] = "Terminated"]
      /\ pc' = [pc EXCEPT ![t] = "exited"] /\ held' = [held EXCEPT ![t] = {}]
      /\ arg' = [arg EXCEPT ![t] = NoKey] /\ cvArg' = [cvArg EXCEPT ![t] = NoKey]
      /\ seen' = [seen EXCEPT ![t] = NoThread]
      /\ UNCHANGED <<waiterVars, word, cvWord, cvTree, waitingCv, timer, result,
                     terminationRequested, next, target>>
  BY DEF StartTermination, InSection, FindHeldUserLockKey, Leave, Goto, memVars, cvVars
<1>2. /\ NoThread \notin Threads /\ NoKey \notin UserKeys
      /\ held \in [Threads -> SUBSET UserKeys] /\ target \in Threads \cup {NoThread}
  BY Ranges
<1>3. /\ pc'[t] = "exited" /\ held'[t] = {} /\ state'[t] = "Terminated"
      /\ \A u \in Threads : u # t => /\ pc'[u] = pc[u] /\ held'[u] = held[u] /\ arg'[u] = arg[u]
                                    /\ cvArg'[u] = cvArg[u] /\ seen'[u] = seen[u]
                                    /\ state'[u] = state[u]
  BY <1>1 DEF CvTypeOK
<1>4. /\ UNCHANGED <<waitingLock, lockOwner, priority>> /\ target = NoThread
      /\ waitingLock[t] = NoKey /\ waitingCv[t] = NoKey
      /\ \A j : ~HandingOver(j) /\ ~HandingOver(j)'
  BY <1>1, <1>2 DEF waiterVars, OnlySleepersAreLinked, HandingOver, OneSection
<1>5. WaiterInv'
  BY <1>1, SameGraph
<1>6. CvTypeOK'
  BY <1>1, <1>2, <1>5 DEF CvTypeOK, WaiterInv, Places
<1>7. HolderOwnsMutex'
  BY <1>1, <1>3 DEF HolderOwnsMutex, InGuest
<1>8. QueueMatchesWord'
  BY <1>1, <1>4 DEF QueueMatchesWord, EffectiveWord
<1>9. NodeInOneTree' /\ CvTreeSorted'
  BY <1>1, <1>4 DEF NodeInOneTree, CvTreeSorted
<1>10. TerminatedOwesNothing'
  BY <1>1, <1>3, <1>4, GraphTypes DEF TerminatedOwesNothing
<1>11. OneSection'
  BY <1>1, <1>2, <1>3, <1>4 DEF OneSection, SectionPlaces
<1>12. WordsWellFormed'
  BY <1>1 DEF WordsWellFormed
<1>13. CallsHaveArguments'
  BY <1>3 DEF CallsHaveArguments, InGuest
<1>14. OnlySleepersAreLinked'
  BY <1>1, <1>3, <1>4 DEF OnlySleepersAreLinked
<1>15. ReleasingOwns'
  BY <1>1, <1>3 DEF ReleasingOwns
<1>16. NextOwnerWaits' /\ SignalledGetsMutex'
  BY <1>1, <1>4 DEF NextOwnerWaits, SignalledGetsMutex
<1>17. WokenOwns'
  BY <1>1, <1>3, <1>4 DEF WokenOwns, EffectiveWord
<1>18. LeavingHolds'
  <2> SUFFICES ASSUME NEW u \in Threads, ~InGuest(u)', NEW m \in held'[u]
               PROVE  FALSE
    BY DEF LeavingHolds
  <2>1. u # t /\ ~InGuest(u) /\ m \in held[u]
    BY <1>3 DEF InGuest
  <2>2. pc[u] \in {"exit", "exitHandover"}
    BY <2>1 DEF LeavingHolds, InGuest
  <2>3. QED BY <1>1, <2>1, <2>2 DEF OneSection, SectionPlaces
<1>19. QED
  BY <1>5, <1>6, <1>7, <1>8, <1>9, <1>10, <1>11, <1>12, <1>13, <1>14, <1>15, <1>16, <1>17, <1>18

-----------------------------------------------------------------------------
(* The invariant *)

\* Nobody has done anything yet.
LEMMA CvInvInit == CvInit => CvInv
<1> SUFFICES ASSUME CvInit PROVE CvInv
  OBVIOUS
<1> USE DEF CvInit
<1>1. WaiterInv
  BY WaiterInvInit
<1>2. /\ waitingLock = [t \in Threads |-> NoKey] /\ lockOwner = [k \in Keys |-> NoThread]
      /\ UserKeys \subseteq Keys
  BY DEF Init, Keys
<1>3. CvTypeOK
  BY <1>1, WordFacts DEF CvTypeOK, WaiterInv, Places
<1>4. HolderOwnsMutex /\ LeavingHolds
  BY DEF HolderOwnsMutex, LeavingHolds
<1>5. QueueMatchesWord /\ TerminatedOwesNothing
  BY <1>2 DEF QueueMatchesWord, TerminatedOwesNothing
<1>6. NodeInOneTree
  BY <1>2, CvKeysAssumption DEF NodeInOneTree, In, Distinct
<1>7. CvTreeSorted
  BY DEF CvTreeSorted, Sorted
<1>8. OneSection
  BY NoThreadAssumption DEF OneSection, SectionPlaces
<1>9. WordsWellFormed
  BY DEF WordsWellFormed
<1>10. CallsHaveArguments
  BY DEF CallsHaveArguments
<1>11. OnlySleepersAreLinked
  BY <1>2 DEF OnlySleepersAreLinked
<1>12. ReleasingOwns /\ NextOwnerWaits /\ SignalledGetsMutex /\ WokenOwns
  BY DEF ReleasingOwns, NextOwnerWaits, SignalledGetsMutex, WokenOwns, HandingOver
<1>13. QED
  BY <1>1, <1>3, <1>4, <1>5, <1>6, <1>7, <1>8, <1>9, <1>10, <1>11, <1>12 DEF CvInv

\* Every step of a guest, a call, the timer and RestorePriority keeps the invariant.
LEMMA CvInvNext == CvInv /\ [CvNext]_vars => CvInv'
<1> SUFFICES ASSUME CvInv, [CvNext]_vars PROVE CvInv'
  OBVIOUS
<1>1. ASSUME NEW t \in Threads, GuestStep(t) PROVE CvInv'
  <2>1. ASSUME NEW m \in UserKeys, GuestLock(t, m) PROVE CvInv'
    <3>1. /\ pc[t] = "run" /\ CompareExchange(t, m)
          /\ UNCHANGED <<waiterVars, cvVars, threadVars, sectionVars, cvWord>>
      BY <2>1 DEF GuestLock
    <3>2. m \notin held[t]
      BY <2>1, OrderedMutexes DEF GuestLock
    <3>3. CASE word[m] = Free
      BY <3>1, <3>3, TakesMutex
    <3>4. CASE word[m] # Free
      BY <3>1, <3>2, <3>4, SetsMask
    <3>5. QED BY <3>3, <3>4
  <2>2. ASSUME NEW m \in UserKeys, GuestUnlock(t, m) PROVE CvInv'
    BY <2>2, UnlocksSlowly, UnlocksFast
  <2>3. CASE GuestRecheck(t)
    <3>1. CASE word[arg[t]].owner = t
      BY <2>3, <3>1, FindsItself
    <3>2. CASE word[arg[t]].owner # t
      <4>1. /\ pc[t] = "recheck" /\ CompareExchange(t, arg[t])
            /\ UNCHANGED <<waiterVars, cvVars, threadVars, sectionVars, cvWord>>
        BY <2>3, <3>2 DEF GuestRecheck
      <4>2. arg[t] \in UserKeys /\ arg[t] \notin held[t]
        BY <4>1 DEF CvInv, CallsHaveArguments, InGuest
      <4>3. CASE word[arg[t]] = Free
        BY <4>1, <4>2, <4>3, TakesMutex
      <4>4. CASE word[arg[t]] # Free
        BY <4>1, <4>2, <4>4, SetsMask
      <4>5. QED BY <4>3, <4>4
    <3>3. QED BY <3>1, <3>2
  <2>4. QED BY <1>1, <2>1, <2>2, <2>3 DEF GuestStep
<1>2. ASSUME NEW t \in Threads, KernelEntry(t) PROVE CvInv'
  BY <1>2, LooksAtWord, UnlockPicksNext, WaitEndsKeeps, WaitReleases, SignalStartsAndEnds,
     ExitStarts DEF KernelEntry
<1>3. ASSUME NEW t \in Threads, SectionStep(t) PROVE CvInv'
  <2>1. CASE WaitForAddressAttach(t)
    BY <2>1, AttachTakesOver, AttachQueues
  <2>2. CASE SignalImpl(t)
    BY <2>2, SignalServes, SignalQueues
  <2>3. CASE SignalEnd(t)
    BY <2>3, SignalStartsAndEnds
  <2>4. QED
    BY <1>3, <2>1, <2>2, <2>3, UnlockStoresNext, WaitSleeps, SignalTakeKeeps, AbandonPicksNext,
       AbandonStoresNext, TerminationKeeps DEF SectionStep
<1>4. ASSUME \/ \E t \in Threads : OnTimer(t) \/ RequestTerminate(t)
             \/ TerminateCancelsWait \/ Restore
             \/ \E t \in Threads, p \in Priorities : ChangeBasePriority(t, p)
      PROVE  CvInv'
  BY <1>4, WaitsAreCancelled, BasePriorityChanges, RestoreKeeps
<1>5. CASE UNCHANGED vars
  <2>1. /\ UNCHANGED <<waiterVars, word, cvWord, cvTree, waitingCv, pc, held, arg, cvArg, seen,
                       state, timer, result, terminationRequested, section, next, target>>
    BY <1>5 DEF vars, callVars, memVars, cvVars, threadVars, sectionVars
  <2>2. UNCHANGED <<waitingLock, lockOwner, priority>>
    BY <2>1 DEF waiterVars
  <2>3. WaiterInv' /\ CvTypeOK' /\ NodeInOneTree' /\ CvTreeSorted'
    <3>1. WaiterInv'
      BY <2>1, SameGraph DEF CvInv
    <3>2. QED BY <2>1, <2>2, <3>1 DEF CvInv, CvTypeOK, WaiterInv, NodeInOneTree, CvTreeSorted
  <2>4. QED BY <2>1, <2>2, <2>3, Elsewhere
<1>6. QED BY <1>1, <1>2, <1>3, <1>4, <1>5 DEF CvNext

\* Guest mutexes and condition variables for every number of threads, mutexes and
\* condition variables: the word of a mutex names whoever the guests believe to hold
\* it and whoever others queue on, and the trees, the words and the calls in progress
\* agree, through timeouts, priority changes, exits and terminations.
THEOREM CvInvariant == CvSpec => []CvInv
<1>1. QED
  BY CvInvInit, CvInvNext, PTL DEF CvSpec

\* Owners of guest mutexes inherit their waiters' priorities, through every timeout,
\* cancellation, hand-over, exit and change of priority: no priority inversion.
THEOREM GuestMutexOwnersInherit == CvSpec => []PriorityInheritance
<1>1. CvInv => PriorityInheritance
  BY NoThreadAssumption DEF CvInv, WaiterInv, PriorityInheritance, TypeOK
<1>2. QED
  BY <1>1, CvInvariant, PTL

\* Whoever others queue on is alive and can hand the mutex on.
THEOREM NobodyWaitsForTheDead == CvSpec => []TerminatedOwesNothing
<1>1. CvInv => TerminatedOwesNothing
  BY DEF CvInv
<1>2. QED BY <1>1, CvInvariant, PTL

-----------------------------------------------------------------------------
(* The mutexes implement Mutex *)

\* The threads that hold mutex m.
Holders(m) == { t \in Threads : m \in held[t] }

\* Nobody holds a mutex but the thread its word names, unless that thread is just
\* being made the owner.
LEMMA OnlyOwnerHolds ==
    ASSUME CvInv, NEW m \in UserKeys, NEW o \in Threads \cup {NoThread}, word[m].owner = o,
           o \in Threads => \/ InGuest(o) /\ pc[o] \notin {"waitLock", "waitCv"}
                            \/ section = NoThread
    PROVE  Holders(m) \subseteq {o}
<1> USE DEF CvInv
<1> SUFFICES ASSUME NEW u \in Threads, m \in held[u]
             PROVE  u = o
  BY DEF Holders
<1>1. CASE InGuest(u)
  BY <1>1 DEF HolderOwnsMutex
<1>2. CASE ~InGuest(u)
  <2>1. section # NoThread
    BY <1>2, LeaversAreInside, NoThreadAssumption
  <2>2. OwnedOrPassedOn(u, m)
    BY <1>2 DEF LeavingHolds
  <2>3. CASE word[m].owner = u
    BY <2>3
  <2>4. CASE \E n \in Threads : word[m].owner = n /\ pc[n] \in {"waitLock", "waitCv"}
    BY <2>1, <2>4
  <2>5. QED BY <2>2, <2>3, <2>4 DEF OwnedOrPassedOn
<1>3. QED BY <1>1, <1>2

\* A guest's compare-and-swap takes a mutex that nobody holds.
LEMMA TakesUnheld ==
    ASSUME CvInv, NEW t \in Threads, NEW m \in UserKeys, CompareExchange(t, m)
    PROVE  \/ Holders(m) = {} /\ held' = [held EXCEPT ![t] = @ \cup {m}]
           \/ held' = held
<1>1. CASE word[m] = Free
  <2>1. Holders(m) \subseteq {NoThread} /\ NoThread \notin Threads
    BY <1>1, WordFacts, OnlyOwnerHolds, NoThreadAssumption
  <2>2. Holders(m) = {}
    BY <2>1 DEF Holders
  <2>3. QED BY <1>1, <2>2 DEF CompareExchange
<1>2. CASE word[m] # Free
  BY <1>2 DEF CompareExchange
<1>3. QED BY <1>1, <1>2

\* How the steps change what the guests hold.
LEMMA HoldersStep ==
    ASSUME CvInv, [CvNext]_vars
    PROVE  \/ \E t \in Threads, m \in UserKeys :
                Holders(m) = {} /\ held' = [held EXCEPT ![t] = @ \cup {m}]
           \/ \E t \in Threads, m \in UserKeys :
                Holders(m) = {t} /\ held' = [held EXCEPT ![t] = @ \ {m}]
           \/ \E t \in Threads : held' = [held EXCEPT ![t] = {}]
           \/ held' = held
<1> USE DEF CvInv
<1>1. ASSUME NEW t \in Threads, NEW m \in UserKeys, GuestLock(t, m)
      PROVE  CompareExchange(t, m)
  BY <1>1 DEF GuestLock
<1>2. ASSUME NEW t \in Threads, NEW m \in UserKeys, m \in held[t], pc[t] = "run"
      PROVE  Holders(m) = {t}
  <2>1. word[m].owner = t /\ InGuest(t)
    BY <1>2 DEF HolderOwnsMutex, InGuest
  <2>2. Holders(m) \subseteq {t}
    BY <1>2, <2>1, OnlyOwnerHolds
  <2>3. QED BY <1>2, <2>2 DEF Holders
<1>3. ASSUME NEW t \in Threads, NEW m \in UserKeys,
             GuestUnlock(t, m) \/ \E c \in CvKeys : Wait(t, m, c)
      PROVE  Holders(m) = {t} /\ held' = [held EXCEPT ![t] = @ \ {m}]
  BY <1>2, <1>3 DEF GuestUnlock, Wait
<1>4. ASSUME NEW t \in Threads, arg[t] \in UserKeys, arg[t] \notin held[t],
             word[arg[t]].owner = t, InGuest(t),
             pc[t] \notin {"waitLock", "waitCv"} \/ section = NoThread
      PROVE  Holders(arg[t]) = {}
  <2>1. Holders(arg[t]) \subseteq {t}
    BY <1>4, OnlyOwnerHolds
  <2>2. QED BY <1>4, <2>1 DEF Holders
<1>5. ASSUME NEW t \in Threads, GuestRecheck(t)
      PROVE  \/ /\ arg[t] \in UserKeys /\ Holders(arg[t]) = {}
                /\ held' = [held EXCEPT ![t] = @ \cup {arg[t]}]
             \/ held' = held
  <2>1. pc[t] = "recheck" /\ arg[t] \in UserKeys /\ arg[t] \notin held[t] /\ InGuest(t)
    BY <1>5 DEF GuestRecheck, CallsHaveArguments, InGuest
  <2>2. CASE word[arg[t]].owner = t
    BY <1>4, <1>5, <2>1, <2>2 DEF GuestRecheck
  <2>3. CASE word[arg[t]].owner # t
    <3>1. CompareExchange(t, arg[t])
      BY <1>5, <2>3 DEF GuestRecheck
    <3>2. QED BY <2>1, <3>1, TakesUnheld
  <2>4. QED BY <2>2, <2>3
<1>6. ASSUME NEW t \in Threads, WaitEnds(t)
      PROVE  \/ /\ arg[t] \in UserKeys /\ Holders(arg[t]) = {}
                /\ held' = [held EXCEPT ![t] = @ \cup {arg[t]}]
             \/ held' = held
  <2>1. /\ section = NoThread /\ arg[t] \in UserKeys /\ arg[t] \notin held[t] /\ InGuest(t)
    BY <1>6 DEF WaitEnds, SchedulerFree, CallsHaveArguments, InGuest
  <2>2. CASE pc[t] = "waitCv" /\ result[t] = "Success"
    <3>1. word[arg[t]].owner = t
      BY <1>6, <2>1, <2>2 DEF WaitEnds, WokenOwns, EffectiveWord, HandingOver
    <3>2. held' = [held EXCEPT ![t] = @ \cup {arg[t]}]
      BY <1>6, <2>2 DEF WaitEnds
    <3>3. QED BY <1>4, <2>1, <3>1, <3>2
  <2>3. CASE ~(pc[t] = "waitCv" /\ result[t] = "Success")
    BY <1>6, <2>3 DEF WaitEnds
  <2>4. QED BY <2>2, <2>3
<1>7. ASSUME NEW t \in Threads, StartTermination(t)
      PROVE  held' = [held EXCEPT ![t] = {}]
  BY <1>7 DEF StartTermination
<1>8. ASSUME NEW t \in Threads,
             \/ WaitForAddress(t) \/ SignalToAddress(t) \/ Exit(t)
             \/ \E c \in CvKeys, label \in {"signalOne", "signalAll"} : Signal(t, c, label)
             \/ WaitForAddressAttach(t) \/ SignalToAddressWrite(t) \/ WaitEnqueue(t)
      PROVE  held' = held
  BY <1>8 DEF WaitForAddress, SignalToAddress, Exit, Signal, WaitForAddressAttach,
              SignalToAddressWrite, WaitEnqueue
<1>9. ASSUME NEW t \in Threads,
             \/ SignalTake(t) \/ SignalImpl(t) \/ SignalEnd(t) \/ AbandonedLockWrite(t)
             \/ \E m \in UserKeys : ReleaseAbandonedUserLocks(t, m)
      PROVE  held' = held
  BY <1>9 DEF SignalTake, SignalImpl, SignalEnd, AbandonedLockWrite,
              ReleaseAbandonedUserLocks, callVars
<1>10. ASSUME \/ \E t \in Threads : OnTimer(t) \/ RequestTerminate(t)
              \/ TerminateCancelsWait \/ Restore
              \/ \E t \in Threads, p \in Priorities : ChangeBasePriority(t, p)
              \/ UNCHANGED vars
       PROVE  held' = held
  BY <1>10 DEF OnTimer, RequestTerminate, TerminateCancelsWait, Restore, ChangeBasePriority,
               callVars, vars
<1>11. ASSUME NEW t \in Threads, GuestStep(t)
       PROVE  \/ \E m \in UserKeys : Holders(m) = {} /\ held' = [held EXCEPT ![t] = @ \cup {m}]
              \/ \E m \in UserKeys : Holders(m) = {t} /\ held' = [held EXCEPT ![t] = @ \ {m}]
              \/ held' = held
  BY <1>1, <1>3, <1>5, <1>11, TakesUnheld DEF GuestStep
<1>12. ASSUME NEW t \in Threads, KernelEntry(t) \/ SectionStep(t)
       PROVE  \/ \E m \in UserKeys : Holders(m) = {} /\ held' = [held EXCEPT ![t] = @ \cup {m}]
              \/ \E m \in UserKeys : Holders(m) = {t} /\ held' = [held EXCEPT ![t] = @ \ {m}]
              \/ held' = [held EXCEPT ![t] = {}]
              \/ held' = held
  BY <1>3, <1>6, <1>7, <1>8, <1>9, <1>12 DEF KernelEntry, SectionStep
<1>13. QED
  BY <1>10, <1>11, <1>12 DEF CvNext

\* What is inside the other mutexes stays inside.
LEMMA HoldersAfter ==
    ASSUME NEW t \in Threads, NEW m \in UserKeys, NEW s \in SUBSET UserKeys,
           held \in [Threads -> SUBSET UserKeys], held' = [held EXCEPT ![t] = s],
           \A j \in UserKeys \ {m} : j \in s <=> j \in held[t]
    PROVE  /\ \A j \in UserKeys \ {m} : Holders(j)' = Holders(j)
           /\ Holders(m)' = (Holders(m) \ {t}) \cup (IF m \in s THEN {t} ELSE {})
BY DEF Holders

\* The guests' mutexes behave as mutexes for every number of threads, mutexes and
\* condition variables: one holder at a time, who alone gives a mutex up, whoever
\* times out, is terminated or exits in a critical section.
THEOREM GuestMutexesExclude == CvSpec => GuestMutexIsMutex
<1> DEFINE bar == [m \in UserKeys |-> { t \in Threads : m \in held[t] }]
<1>1. ASSUME CvInit PROVE AbstractMutexes!Init
  BY <1>1 DEF CvInit, AbstractMutexes!Init
<1>2. ASSUME CvInv, [CvNext]_vars PROVE [AbstractMutexes!Next]_bar
  <2>1. held \in [Threads -> SUBSET UserKeys]
    BY <1>2, Ranges
  <2>2. \A m \in UserKeys : bar[m] = Holders(m) /\ bar'[m] = Holders(m)'
    BY DEF Holders
  <2>3. ASSUME NEW t \in Threads, NEW m \in UserKeys, Holders(m) = {},
               held' = [held EXCEPT ![t] = @ \cup {m}]
        PROVE  AbstractMutexes!Acquire(t, m)
    <3>1. /\ \A j \in UserKeys \ {m} : Holders(j)' = Holders(j)
          /\ Holders(m)' = {t}
      <4> DEFINE s == held[t] \cup {m}
      <4>1. /\ s \in SUBSET UserKeys /\ held' = [held EXCEPT ![t] = s]
            /\ \A j \in UserKeys \ {m} : j \in s <=> j \in held[t]
            /\ m \in s
        BY <2>1, <2>3
      <4> HIDE DEF s
      <4>2. QED BY <2>1, <2>3, <4>1, HoldersAfter, ZenonT(60)
    <3>2. bar' = [bar EXCEPT ![m] = {t}]
      BY <2>2, <3>1
    <3>3. bar[m] = {}
      BY <2>2, <2>3
    <3>4. QED BY <3>2, <3>3 DEF AbstractMutexes!Acquire
  <2>4. ASSUME NEW t \in Threads, NEW m \in UserKeys, Holders(m) = {t},
               held' = [held EXCEPT ![t] = @ \ {m}]
        PROVE  AbstractMutexes!Release(t, m)
    <3>1. /\ \A j \in UserKeys \ {m} : Holders(j)' = Holders(j)
          /\ Holders(m)' = {}
      <4> DEFINE s == held[t] \ {m}
      <4>1. /\ s \in SUBSET UserKeys /\ held' = [held EXCEPT ![t] = s]
            /\ \A j \in UserKeys \ {m} : j \in s <=> j \in held[t]
            /\ m \notin s
        BY <2>1, <2>4
      <4> HIDE DEF s
      <4>2. QED BY <2>1, <2>4, <4>1, HoldersAfter, ZenonT(60)
    <3>2. bar' = [bar EXCEPT ![m] = {}]
      BY <2>2, <3>1, ZenonT(60)
    <3>3. bar[m] = {t}
      BY <2>2, <2>4
    <3>4. QED BY <3>2, <3>3 DEF AbstractMutexes!Release
  <2>5. ASSUME NEW t \in Threads, held' = [held EXCEPT ![t] = {}]
        PROVE  AbstractMutexes!Abandon(t)
    <3>1. \A m \in UserKeys : Holders(m)' = Holders(m) \ {t}
      BY <2>1, <2>5 DEF Holders
    <3>2. bar' = [m \in UserKeys |-> bar[m] \ {t}]
      BY <2>2, <3>1
    <3>3. QED BY <3>2 DEF AbstractMutexes!Abandon
  <2>6. CASE held' = held
    BY <2>6
  <2>7. QED BY <1>2, <2>3, <2>4, <2>5, <2>6, HoldersStep DEF AbstractMutexes!Next
<1>3. QED
  BY <1>1, <1>2, CvInvariant, PTL DEF CvSpec, GuestMutexIsMutex, AbstractMutexes!Spec

-----------------------------------------------------------------------------
(* No waiter is forgotten *)

\* Every waiting thread's flag is set.
LEMMA FlagByThreads ==
    ASSUME CvInv, FlagAnnouncesWaiters, NEW u \in Threads, waitingCv[u] # NoKey
    PROVE  cvWord[waitingCv[u]] = 1
<1>1. waitingCv[u] \in CvKeys /\ In(u, cvTree[waitingCv[u]])
  BY DEF CvInv, CvTypeOK, NodeInOneTree
<1>2. QED BY <1>1 DEF FlagAnnouncesWaiters, In

\* Only Wait links a thread into a condition variable's tree and only the end of a
\* Signal clears a flag.
LEMMA FlagsElsewhere ==
    ASSUME CvInv, [CvNext]_vars, \A t \in Threads : ~WaitEnqueue(t) /\ ~SignalEnd(t)
    PROVE  cvWord' = cvWord /\ \A u \in Threads : waitingCv'[u] \in {waitingCv[u], NoKey}
<1>1. waitingCv \in [Threads -> CvKeys \cup {NoKey}]
  BY DEF CvInv, CvTypeOK
<1>2. ASSUME NEW t \in Threads, GuestStep(t) PROVE UNCHANGED <<cvWord, waitingCv>>
  BY <1>2 DEF GuestStep, GuestRecheck, GuestLock, GuestUnlock, cvVars
<1>3. ASSUME NEW t \in Threads, KernelEntry(t) PROVE UNCHANGED <<cvWord, waitingCv>>
  BY <1>3 DEF KernelEntry, WaitForAddress, SignalToAddress, WaitEnds, Wait, Signal, Exit,
              memVars, cvVars
<1>4. ASSUME NEW t \in Threads, SectionStep(t)
      PROVE  cvWord' = cvWord /\ \A u \in Threads : waitingCv'[u] \in {waitingCv[u], NoKey}
  <2>1. CASE SignalTake(t)
    BY <1>1, <2>1 DEF SignalTake
  <2>2. CASE ~SignalTake(t)
    BY <1>4, <2>2 DEF SectionStep, WaitForAddressAttach, SignalToAddressWrite, SignalImpl,
       ReleaseAbandonedUserLocks, AbandonedLockWrite, StartTermination, memVars, cvVars
  <2>3. QED BY <2>1, <2>2
<1>5. ASSUME NEW t, NEW why, CancelWait(t, why)
      PROVE  \A u \in Threads : waitingCv'[u] \in {waitingCv[u], NoKey}
  BY <1>1, <1>5 DEF CancelWait, cvVars
<1>6. ASSUME (\E t \in Threads : OnTimer(t)) \/ TerminateCancelsWait
      PROVE  cvWord' = cvWord /\ \A u \in Threads : waitingCv'[u] \in {waitingCv[u], NoKey}
  BY <1>5, <1>6 DEF OnTimer, TerminateCancelsWait, memVars, cvVars
<1>7. ASSUME NEW t \in Threads,
             RequestTerminate(t) \/ \E p \in Priorities : ChangeBasePriority(t, p)
      PROVE  UNCHANGED <<cvWord, waitingCv>>
  BY <1>7 DEF RequestTerminate, ChangeBasePriority, memVars, cvVars
<1>8. ASSUME Restore \/ UNCHANGED vars
      PROVE  UNCHANGED <<cvWord, waitingCv>>
  BY <1>8 DEF Restore, vars, memVars, cvVars
<1>9. QED
  BY <1>2, <1>3, <1>4, <1>6, <1>7, <1>8 DEF CvNext

\* Whoever waits on a condition variable is announced by its flag.
THEOREM WaitersAreAnnounced == CvSpec => []FlagAnnouncesWaiters
<1>1. CvInit => FlagAnnouncesWaiters
  BY DEF CvInit, FlagAnnouncesWaiters
<1>2. ASSUME CvInv, CvInv', FlagAnnouncesWaiters, [CvNext]_vars
      PROVE  FlagAnnouncesWaiters'
  <2> SUFFICES ASSUME NEW u \in Threads, waitingCv'[u] # NoKey
               PROVE  cvWord'[waitingCv'[u]] = 1
    <3>1. ASSUME NEW c \in CvKeys, cvTree'[c] # <<>>
          PROVE  \E w \in Threads : waitingCv'[w] = c
      <4>1. cvTree'[c] \in Seq(Threads)
        BY <1>2 DEF CvInv, CvTypeOK
      <4>2. cvTree'[c][1] \in Threads /\ In(cvTree'[c][1], cvTree'[c])
        BY <3>1, <4>1, FrontExists
      <4>3. waitingCv'[cvTree'[c][1]] = c
        BY <1>2, <4>2 DEF CvInv, NodeInOneTree
      <4>4. QED BY <4>2, <4>3
    <3>2. QED BY <3>1, CvKeysAssumption DEF FlagAnnouncesWaiters
  <2>1. /\ waitingCv \in [Threads -> CvKeys \cup {NoKey}] /\ cvWord \in [CvKeys -> {0, 1}]
        /\ waitingCv' \in [Threads -> CvKeys \cup {NoKey}]
    BY <1>2 DEF CvInv, CvTypeOK
  <2>2. waitingCv[u] # NoKey => cvWord[waitingCv[u]] = 1
    BY <1>2, FlagByThreads
  <2>3. ASSUME NEW t \in Threads, WaitEnqueue(t)
        PROVE  cvWord'[waitingCv'[u]] = 1
    <3>1. /\ cvWord' = [cvWord EXCEPT ![cvArg[t]] = 1]
          /\ waitingCv' = waitingCv \/ waitingCv' = [waitingCv EXCEPT ![t] = cvArg[t]]
      BY <2>3 DEF WaitEnqueue, cvVars
    <3>2. waitingCv'[u] \in {waitingCv[u], cvArg[t]}
      BY <2>1, <3>1
    <3>3. QED BY <2>1, <2>2, <3>1, <3>2
  <2>4. ASSUME NEW t \in Threads, SignalEnd(t)
        PROVE  cvWord'[waitingCv'[u]] = 1
    <3>1. /\ cvWord' = [cvWord EXCEPT ![cvArg[t]] = FlagAfterSignal(cvArg[t])]
          /\ waitingCv' = waitingCv
      BY <2>4 DEF SignalEnd, cvVars
    <3>2. waitingCv[u] = cvArg[t] => FlagAfterSignal(cvArg[t]) = cvWord[cvArg[t]]
      <4>1. waitingCv[u] = cvArg[t] => In(u, cvTree[cvArg[t]])
        BY <1>2, <2>1, <3>1 DEF CvInv, NodeInOneTree
      <4>2. QED BY <4>1 DEF FlagAfterSignal, In
    <3>3. QED BY <2>1, <2>2, <3>1, <3>2
  <2>5. CASE \A t \in Threads : ~WaitEnqueue(t) /\ ~SignalEnd(t)
    BY <1>2, <2>2, <2>5, FlagsElsewhere
  <2>6. QED BY <2>3, <2>4, <2>5
<1>3. QED BY <1>1, <1>2, CvInvariant, CvInvNext, PTL DEF CvSpec

\* What a sleeping thread waits for.
Owed(u) ==
    \/ pc[u] = "waitCv" /\ waitingCv[u] = cvArg[u]
    \/ pc[u] \in {"waitLock", "waitCv"} /\ waitingLock[u] = arg[u]
    \/ pc[u] = "waitCv" /\ target = u /\ section # NoThread
    \/ HandingOver(arg[u]) /\ next.owner = u

\* The invariant, thread by thread.
LEMMA OwedSleepers == SleepersAreOwed <=> \A u \in Threads : state[u] = "Waiting" => Owed(u)
BY DEF SleepersAreOwed, Owed

\* Between two of these sections no thread is being signalled or handed a mutex.
Quiet == (target = NoThread \/ section = NoThread) /\ \A m : ~HandingOver(m)

\* A thread that stays in its tree is owed something still.
LEMMA StaysOwed ==
    ASSUME CvInv, SleepersAreOwed, NEW u \in Threads, state[u] = "Waiting", Quiet,
           pc'[u] = pc[u], arg'[u] = arg[u], cvArg'[u] = cvArg[u],
           waitingCv'[u] = waitingCv[u], waitingLock'[u] = waitingLock[u]
    PROVE  Owed(u)'
<1>1. Owed(u)
  BY OwedSleepers
<1>2. \/ pc[u] = "waitCv" /\ waitingCv[u] = cvArg[u]
      \/ pc[u] \in {"waitLock", "waitCv"} /\ waitingLock[u] = arg[u]
  BY <1>1, NoThreadAssumption DEF Owed, Quiet
<1>3. QED BY <1>2 DEF Owed

\* Steps of a thread that is awake and touches no tree.
LEMMA OwedElsewhere ==
    ASSUME CvInv, SleepersAreOwed, NEW t \in Threads, state[t] # "Waiting", state'[t] # "Waiting",
           \A u \in Threads : u # t => /\ pc'[u] = pc[u] /\ arg'[u] = arg[u]
                                     /\ cvArg'[u] = cvArg[u] /\ state'[u] = state[u],
           UNCHANGED <<waitingLock, waitingCv>>,
           Quiet \/ (section # t /\ UNCHANGED sectionVars)
    PROVE  SleepersAreOwed'
<1> SUFFICES ASSUME NEW u \in Threads, state'[u] = "Waiting" PROVE Owed(u)'
  BY DEF SleepersAreOwed, Owed
<1>1. u # t /\ state[u] = "Waiting"
  OBVIOUS
<1>2. CASE Quiet
  BY <1>1, <1>2, StaysOwed
<1>3. CASE section # t /\ UNCHANGED sectionVars
  <2>1. Owed(u)
    BY <1>1, OwedSleepers
  <2>2. \A m : HandingOver(m) => HandingOver(m)'
    BY <1>3, Ranges DEF HandingOver, sectionVars
  <2>3. QED BY <1>1, <1>3, <2>1, <2>2 DEF Owed, sectionVars
<1>4. QED BY <1>2, <1>3

\* Guests, and calls that touch no tree.
LEMMA OwedByGuests ==
    ASSUME CvInv, SleepersAreOwed, NEW t \in Threads, GuestStep(t)
    PROVE  SleepersAreOwed'
<1>1. /\ pc[t] \in {"run", "recheck"}
      /\ \A u \in Threads : u # t => /\ pc'[u] = pc[u] /\ arg'[u] = arg[u] /\ cvArg'[u] = cvArg[u]
      /\ UNCHANGED <<state, waitingLock, waitingCv, sectionVars>>
  BY DEF GuestStep, GuestLock, GuestRecheck, GuestUnlock, CompareExchange, Leave, Goto, cvVars,
         threadVars, waiterVars, CvInv, CvTypeOK
<1>2. state[t] # "Waiting" /\ section # t
  BY <1>1 DEF CvInv, OnlySleepersAreLinked, OneSection, SectionPlaces
<1>3. QED BY <1>1, <1>2, OwedElsewhere

\* Calls that only enter or leave the section.
LEMMA OwedByCalls ==
    ASSUME CvInv, SleepersAreOwed, NEW t \in Threads,
           \/ WaitForAddress(t) \/ WaitEnds(t) \/ Exit(t) \/ SignalEnd(t) \/ StartTermination(t)
           \/ \E c \in CvKeys, label \in {"signalOne", "signalAll"} : Signal(t, c, label)
    PROVE  SleepersAreOwed'
<1>1. CASE WaitForAddress(t) \/ WaitEnds(t)
  <2>1. /\ section = NoThread
        /\ pc[t] = "arbitrate" \/ state[t] = "Runnable"
        /\ \A u \in Threads : u # t => /\ pc'[u] = pc[u] /\ arg'[u] = arg[u] /\ cvArg'[u] = cvArg[u]
        /\ UNCHANGED <<state, waitingLock, waitingCv>>
    BY <1>1 DEF WaitForAddress, WaitEnds, SchedulerFree, Leave, Recheck, Goto, cvVars, threadVars,
                waiterVars, CvInv, CvTypeOK
  <2>2. Quiet /\ state[t] # "Waiting" /\ state'[t] # "Waiting"
    BY <2>1 DEF Quiet, HandingOver, CvInv, OnlySleepersAreLinked
  <2>3. \A u \in Threads : u # t => /\ pc'[u] = pc[u] /\ arg'[u] = arg[u]
                                   /\ cvArg'[u] = cvArg[u] /\ state'[u] = state[u]
    BY <2>1
  <2>4. UNCHANGED <<waitingLock, waitingCv>>
    BY <2>1
  <2>5. QED BY <2>2, <2>3, <2>4, OwedElsewhere
<1>2. CASE \/ Exit(t)
           \/ \E c \in CvKeys, label \in {"signalOne", "signalAll"} : Signal(t, c, label)
  <2>1. /\ section = NoThread /\ pc[t] \in {"run", "arbitrate", "recheck", "unlock"}
        /\ \A u \in Threads : u # t => /\ pc'[u] = pc[u] /\ arg'[u] = arg[u] /\ cvArg'[u] = cvArg[u]
        /\ UNCHANGED <<state, waitingLock, waitingCv>>
    BY <1>2 DEF Exit, Signal, SchedulerFree, Leave, Goto, cvVars, threadVars, waiterVars, CvInv,
                CvTypeOK
  <2>2. Quiet /\ state[t] # "Waiting" /\ state'[t] # "Waiting"
    BY <2>1 DEF Quiet, HandingOver, CvInv, OnlySleepersAreLinked
  <2>3. \A u \in Threads : u # t => /\ pc'[u] = pc[u] /\ arg'[u] = arg[u]
                                   /\ cvArg'[u] = cvArg[u] /\ state'[u] = state[u]
    BY <2>1
  <2>4. UNCHANGED <<waitingLock, waitingCv>>
    BY <2>1
  <2>5. QED BY <2>2, <2>3, <2>4, OwedElsewhere
<1>3. CASE SignalEnd(t) \/ StartTermination(t)
  <2>1. /\ section = t /\ pc[t] \in {"signalOne", "signalAll", "signalEnd", "exit"}
        /\ pc[t] \in {"signalOne", "signalAll"} => target = NoThread
        /\ \A u \in Threads : u # t => /\ pc'[u] = pc[u] /\ arg'[u] = arg[u] /\ cvArg'[u] = cvArg[u]
                                      /\ state'[u] = state[u]
        /\ state'[t] \in {state[t], "Terminated"}
        /\ UNCHANGED <<waitingLock, waitingCv>>
    BY <1>3 DEF SignalEnd, StartTermination, InSection, Leave, Goto, cvVars, threadVars, waiterVars,
                CvInv, CvTypeOK
  <2>2. Quiet /\ state[t] # "Waiting" /\ state'[t] # "Waiting"
    BY <2>1, NoThreadAssumption DEF Quiet, HandingOver, CvInv, OnlySleepersAreLinked, OneSection
  <2>3. \A u \in Threads : u # t => /\ pc'[u] = pc[u] /\ arg'[u] = arg[u]
                                   /\ cvArg'[u] = cvArg[u] /\ state'[u] = state[u]
    BY <2>1
  <2>4. UNCHANGED <<waitingLock, waitingCv>>
    BY <2>1
  <2>5. QED BY <2>2, <2>3, <2>4, OwedElsewhere
<1>4. QED BY <1>1, <1>2, <1>3

\* The next owner leaves the queue of the mutex and is named by the call instead.
LEMMA OwedByPicking ==
    ASSUME CvInv, SleepersAreOwed, NEW t \in Threads, NEW m \in UserKeys, word[m].owner = t, Quiet,
           section' = t, pc'[t] \in {"handover", "enqueue", "exitHandover"}, arg'[t] = m,
           RemoveUserWaiterByKey(t, m), pc[t] \notin {"waitLock", "waitCv"},
           \A u \in Threads : u # t => /\ pc'[u] = pc[u] /\ arg'[u] = arg[u] /\ cvArg'[u] = cvArg[u],
           waitingCv' = waitingCv, \A u \in Threads : state'[u] = "Waiting" => state[u] = "Waiting"
    PROVE  SleepersAreOwed'
<1> SUFFICES ASSUME NEW u \in Threads, state'[u] = "Waiting" PROVE Owed(u)'
  BY DEF SleepersAreOwed, Owed
<1>1. /\ \A v \in Threads : v # next'.owner => waitingLock'[v] = waitingLock[v]
      /\ next'.owner # NoThread => waitingLock[next'.owner] = m
  BY PicksNext DEF Quiet
<1>2. state[u] = "Waiting" /\ u # t
  BY DEF CvInv, OnlySleepersAreLinked
<1>3. CASE u = next'.owner
  <2>1. arg[u] = m
    BY <1>1, <1>2, <1>3, Ranges DEF CvInv, OnlySleepersAreLinked
  <2>2. HandingOver(m)'
    BY Ranges DEF HandingOver
  <2>3. QED BY <1>2, <1>3, <2>1, <2>2 DEF Owed
<1>4. CASE u # next'.owner
  BY <1>1, <1>2, <1>4, StaysOwed
<1>5. QED BY <1>3, <1>4

\* Calls that hand a mutex over.
LEMMA OwedByHandover ==
    ASSUME CvInv, SleepersAreOwed, NEW t \in Threads,
           \/ SignalToAddress(t)
           \/ \E m \in UserKeys : ReleaseAbandonedUserLocks(t, m) \/ \E c \in CvKeys : Wait(t, m, c)
    PROVE  SleepersAreOwed'
<1> USE DEF CvInv
<1>1. CASE SignalToAddress(t)
  <2>1. /\ section = NoThread /\ section' = t /\ pc[t] = "unlock" /\ pc'[t] = "handover"
        /\ RemoveUserWaiterByKey(t, arg[t]) /\ \A u \in Threads : u # t => pc'[u] = pc[u]
        /\ UNCHANGED <<arg, cvArg, state, waitingCv>>
    BY <1>1 DEF SignalToAddress, SchedulerFree, Goto, cvVars, threadVars, CvTypeOK
  <2>2. Quiet /\ arg[t] \in UserKeys /\ word[arg[t]].owner = t
    BY <2>1 DEF Quiet, HandingOver, CallsHaveArguments, ReleasingOwns
  <2>3. QED BY <2>1, <2>2, OwedByPicking
<1>2. ASSUME NEW m \in UserKeys, ReleaseAbandonedUserLocks(t, m) PROVE SleepersAreOwed'
  <2>1. /\ section = t /\ section' = t /\ pc[t] = "exit" /\ pc'[t] = "exitHandover"
        /\ RemoveUserWaiterByKey(t, m) /\ arg'[t] = m /\ lockOwner[m] = t
        /\ \A u \in Threads : u # t => pc'[u] = pc[u] /\ arg'[u] = arg[u]
        /\ UNCHANGED <<cvArg, state, waitingCv>>
    BY <1>2 DEF ReleaseAbandonedUserLocks, InSection, FindHeldUserLockKey, Goto, cvVars,
                threadVars, CvTypeOK
  <2>2. Quiet
    BY <2>1, NoThreadAssumption DEF Quiet, HandingOver, OneSection
  <2>3. word[m].owner = t
    BY <2>1, <2>2, NoThreadAssumption, WordFacts DEF Quiet, QueueMatchesWord, EffectiveWord
  <2>4. QED BY <2>1, <2>2, <2>3, OwedByPicking
<1>3. ASSUME NEW m \in UserKeys, NEW c \in CvKeys, Wait(t, m, c) PROVE SleepersAreOwed'
  <2>1. /\ section = NoThread /\ section' = t /\ pc[t] = "run" /\ pc'[t] = "enqueue"
        /\ RemoveUserWaiterByKey(t, m) /\ arg'[t] = m /\ m \in held[t]
        /\ \A u \in Threads : u # t => pc'[u] = pc[u] /\ arg'[u] = arg[u] /\ cvArg'[u] = cvArg[u]
        /\ UNCHANGED waitingCv /\ EndWait(next'.owner)
    BY <1>3 DEF Wait, SchedulerFree, Goto, cvVars, CvTypeOK
  <2>2. \A u \in Threads : state'[u] = "Waiting" => state[u] = "Waiting"
    BY <2>1 DEF EndWait
  <2>3. Quiet /\ word[m].owner = t
    BY <2>1 DEF Quiet, HandingOver, HolderOwnsMutex, InGuest
  <2>4. QED BY <2>1, <2>2, <2>3, OwedByPicking
<1>4. QED BY <1>1, <1>2, <1>3

\* The next owner is woken, and whoever starts to wait is in its tree.
LEMMA OwedByStoring ==
    ASSUME CvInv, SleepersAreOwed, NEW t \in Threads,
           SignalToAddressWrite(t) \/ AbandonedLockWrite(t) \/ WaitEnqueue(t)
    PROVE  SleepersAreOwed'
<1> SUFFICES ASSUME NEW u \in Threads, state'[u] = "Waiting" PROVE Owed(u)'
  BY DEF SleepersAreOwed, Owed
<1>1. /\ section = t /\ pc[t] \in {"handover", "exitHandover", "enqueue"}
      /\ UNCHANGED waitingLock
      /\ \A v \in Threads : v # t => /\ pc'[v] = pc[v] /\ arg'[v] = arg[v]
                                    /\ cvArg'[v] = cvArg[v] /\ waitingCv'[v] = waitingCv[v]
  BY DEF SignalToAddressWrite, AbandonedLockWrite, WaitEnqueue, InSection, Leave, Goto, cvVars,
         waiterVars, CvInv, CvTypeOK
<1>2. /\ HandingOver(arg[t]) /\ arg[t] \in UserKeys /\ target = NoThread
      /\ state[t] # "Waiting" /\ next.owner \in Threads \cup {NoThread}
  BY <1>1, Ranges DEF HandingOver, CvInv, CallsHaveArguments, OneSection, OnlySleepersAreLinked
<1>3. CASE WaitEnqueue(t)
  <2>1. /\ pc[t] = "enqueue" /\ \A v \in Threads : v # t => state'[v] = state[v]
        /\ state'[t] = "Waiting" =>
             pc'[t] = "waitCv" /\ waitingCv'[t] = cvArg[t] /\ cvArg'[t] = cvArg[t]
    BY <1>2, <1>3 DEF WaitEnqueue, InSection, BeginWait, Goto, CvInv, CvTypeOK
  <2>2. CASE u = t
    BY <2>1, <2>2 DEF Owed
  <2>3. CASE u # t
    <3>1. state[u] = "Waiting" /\ u # next.owner
      BY <1>1, <1>2, <2>1, <2>3, NoThreadAssumption DEF CvInv, NextOwnerWaits
    <3>2. \/ pc[u] = "waitCv" /\ waitingCv[u] = cvArg[u]
          \/ pc[u] \in {"waitLock", "waitCv"} /\ waitingLock[u] = arg[u]
      BY <1>2, <3>1, NoThreadAssumption DEF SleepersAreOwed
    <3>3. QED BY <1>1, <2>3, <3>2 DEF Owed
  <2>4. QED BY <2>2, <2>3
<1>4. CASE SignalToAddressWrite(t) \/ AbandonedLockWrite(t)
  <2>1. EndWait(next.owner) /\ pc[t] # "enqueue"
    BY <1>4 DEF SignalToAddressWrite, AbandonedLockWrite, InSection
  <2>2. next.owner \in Threads => state[next.owner] = "Waiting"
    BY <1>1, <1>2, <2>1, NoThreadAssumption DEF CvInv, NextOwnerWaits
  <2>3. state[u] = "Waiting" /\ u # next.owner /\ u # t
    BY <1>2, <2>1, <2>2, EndWaitWakes DEF CvInv
  <2>4. \/ pc[u] = "waitCv" /\ waitingCv[u] = cvArg[u]
        \/ pc[u] \in {"waitLock", "waitCv"} /\ waitingLock[u] = arg[u]
    BY <1>2, <2>3, NoThreadAssumption DEF SleepersAreOwed
  <2>5. QED BY <1>1, <2>3, <2>4 DEF Owed
<1>5. QED BY <1>3, <1>4

\* WaitForAddress goes to sleep in the queue of its mutex.
LEMMA OwedByAttaching ==
    ASSUME CvInv, SleepersAreOwed, NEW t \in Threads, WaitForAddressAttach(t)
    PROVE  SleepersAreOwed'
<1> SUFFICES ASSUME NEW u \in Threads, state'[u] = "Waiting" PROVE Owed(u)'
  BY DEF SleepersAreOwed, Owed
<1>1. /\ section = t /\ pc[t] = "attach" /\ UNCHANGED <<arg, cvArg, waitingCv>>
      /\ \A v \in Threads : v # t => pc'[v] = pc[v] /\ state'[v] = state[v]
  BY DEF WaitForAddressAttach, InSection, Recheck, BeginWait, Goto, cvVars, CvInv, CvTypeOK
<1>2. /\ Quiet /\ state[t] # "Waiting" /\ arg[t] \in UserKeys /\ seen[t] \in Threads
  BY <1>1, NoThreadAssumption
     DEF Quiet, HandingOver, CvInv, OneSection, OnlySleepersAreLinked, CallsHaveArguments
<1>3. CASE IsTerminated(seen[t])
  <2>1. UNCHANGED <<waitingLock, state>>
    BY <1>3 DEF WaitForAddressAttach, waiterVars
  <2>2. QED BY <1>1, <1>2, <2>1, StaysOwed
<1>4. CASE ~IsTerminated(seen[t])
  <2>1. AddWaiter(seen[t], t, arg[t]) /\ pc'[t] = "waitLock"
    BY <1>4 DEF WaitForAddressAttach, Goto, CvInv, CvTypeOK
  <2>2. /\ waitingLock'[t] = arg[t]
        /\ \A v \in Threads : v # t => waitingLock'[v] = waitingLock[v]
    BY <1>2, <2>1, QueuesUp
  <2>3. CASE u = t
    BY <1>1, <2>1, <2>2, <2>3 DEF Owed
  <2>4. CASE u # t
    BY <1>1, <1>2, <2>2, <2>4, StaysOwed
  <2>5. QED BY <2>3, <2>4
<1>5. QED BY <1>3, <1>4

\* The signalled thread leaves the tree and is the target of the call.
LEMMA OwedByTaking ==
    ASSUME CvInv, SleepersAreOwed, NEW t \in Threads, SignalTake(t)
    PROVE  SleepersAreOwed'
<1> SUFFICES ASSUME NEW u \in Threads, state'[u] = "Waiting" PROVE Owed(u)'
  BY DEF SleepersAreOwed, Owed
<1> DEFINE w == Head(cvTree[cvArg[t]])
<1>1. /\ section = t /\ section' = t /\ pc[t] \in {"signalOne", "signalAll"} /\ target' = w
      /\ target = NoThread /\ cvTree[cvArg[t]] # <<>>
      /\ cvTree' = [cvTree EXCEPT ![cvArg[t]] = Tail(@)]
      /\ waitingCv' = [waitingCv EXCEPT ![w] = NoKey]
      /\ UNCHANGED <<waiterVars, waitingLock, state, pc, arg, cvArg>>
  BY DEF SignalTake, InSection, threadVars, callVars, waiterVars
<1>2. Quiet /\ cvArg[t] \in CvKeys
  BY <1>1 DEF Quiet, HandingOver, CvInv, CallsHaveArguments
<1>3. pc[w] = "waitCv" /\ \A v \in Threads : v # w => waitingCv'[v] = waitingCv[v]
  BY <1>1, <1>2, SignalTakesFirst, ZenonT(60)
<1>4. CASE u = w
  BY <1>1, <1>3, <1>4, NoThreadAssumption DEF Owed
<1>5. CASE u # w
  <2> HIDE DEF w
  <2>1. QED BY <1>1, <1>2, <1>3, <1>5, StaysOwed
<1>6. QED BY <1>4, <1>5

\* The signalled thread is woken or queues for its mutex.
LEMMA OwedBySignalling ==
    ASSUME CvInv, SleepersAreOwed, NEW t \in Threads, SignalImpl(t)
    PROVE  SleepersAreOwed'
<1> SUFFICES ASSUME NEW u \in Threads, state'[u] = "Waiting" PROVE Owed(u)'
  BY DEF SleepersAreOwed, Owed
<1>1. /\ section = t /\ pc[t] \in {"signalOne", "signalAll"} /\ target # NoThread
      /\ UNCHANGED <<arg, cvArg, waitingCv>>
      /\ \A v \in Threads : v # t => pc'[v] = pc[v]
  BY DEF SignalImpl, InSection, Goto, cvVars, CvInv, CvTypeOK
<1>2. /\ target \in Threads /\ target # t /\ state[target] = "Waiting" /\ pc[target] = "waitCv"
      /\ state[t] # "Waiting" /\ \A m : ~HandingOver(m) /\ arg[target] \in UserKeys
  BY <1>1, Ranges, NoThreadAssumption
     DEF HandingOver, CvInv, SignalledGetsMutex, OnlySleepersAreLinked, CallsHaveArguments
<1>3. ASSUME u # target, state[u] = "Waiting", waitingLock'[u] = waitingLock[u]
      PROVE  Owed(u)'
  BY <1>1, <1>2, <1>3 DEF SleepersAreOwed, Owed
<1>4. CASE EndWait(target) /\ UNCHANGED waiterVars
  <2>1. u # target /\ state[u] = "Waiting"
    BY <1>2, <1>4, EndWaitWakes DEF CvInv
  <2>2. QED BY <1>3, <1>4, <2>1 DEF waiterVars
<1>5. CASE AddWaiter(next.owner, target, arg[target]) /\ next.owner \in Threads /\ UNCHANGED state
  <2>1. /\ waitingLock'[target] = arg[target]
        /\ \A v \in Threads : v # target => waitingLock'[v] = waitingLock[v]
    BY <1>2, <1>5, QueuesUp
  <2>2. CASE u = target
    BY <1>1, <1>2, <2>1, <2>2 DEF Owed
  <2>3. CASE u # target
    BY <1>3, <1>5, <2>1, <2>3
  <2>4. QED BY <2>2, <2>3
<1>6. QED
  BY <1>4, <1>5, Ranges DEF SignalImpl

\* A thread whose wait is cancelled is awake.
LEMMA OwedByCancelling ==
    ASSUME CvInv, SleepersAreOwed, NEW t \in Threads, NEW why, CancelWait(t, why),
           section = NoThread, UNCHANGED <<pc, arg, cvArg>>
    PROVE  SleepersAreOwed'
<1> SUFFICES ASSUME NEW u \in Threads, state'[u] = "Waiting" PROVE Owed(u)'
  BY DEF SleepersAreOwed, Owed
<1>1. /\ state' = [state EXCEPT ![t] = "Runnable"]
      /\ state \in [Threads -> {"Runnable", "Waiting", "Terminated"}]
      /\ waitingLock' = waitingLock \/ waitingLock' = [waitingLock EXCEPT ![t] = NoKey]
      /\ waitingCv' = waitingCv \/ waitingCv' = [waitingCv EXCEPT ![t] = NoKey]
      /\ waitingLock \in [Threads -> Keys \cup {NoKey}]
      /\ waitingCv \in [Threads -> CvKeys \cup {NoKey}]
  BY GraphTypes DEF CancelWait, RemoveWaiter, waiterVars, cvVars, CvInv, CvTypeOK
<1>2. /\ u # t /\ state[u] = "Waiting"
      /\ waitingLock'[u] = waitingLock[u] /\ waitingCv'[u] = waitingCv[u]
  BY <1>1
<1>3. Quiet
  BY DEF Quiet, HandingOver
<1>4. QED BY <1>2, <1>3, StaysOwed

\* A step that moves no thread and takes none out of its tree.
LEMMA OwedAtRest ==
    ASSUME CvInv, SleepersAreOwed,
           UNCHANGED <<pc, arg, cvArg, state, waitingLock, waitingCv, section, next>>,
           target' = target \/ section = NoThread
    PROVE  SleepersAreOwed'
BY NoThreadAssumption DEF SleepersAreOwed, HandingOver

\* No wake-up is lost: a thread asleep in WaitForAddress or Wait is in a tree, or is
\* just being signalled or made the owner, whatever else happens to its mutex, its
\* condition variable or its owner.
THEOREM NoWaiterIsForgotten == CvSpec => []SleepersAreOwed
<1>1. CvInit => SleepersAreOwed
  BY DEF CvInit, SleepersAreOwed
<1>2. ASSUME CvInv, SleepersAreOwed, [CvNext]_vars PROVE SleepersAreOwed'
  <2>1. ASSUME NEW t \in Threads, KernelEntry(t) PROVE SleepersAreOwed'
    BY <1>2, <2>1, OwedByCalls, OwedByHandover DEF KernelEntry
  <2>2. ASSUME NEW t \in Threads, SectionStep(t) PROVE SleepersAreOwed'
    BY <1>2, <2>2, OwedByCalls, OwedByHandover, OwedByStoring, OwedByAttaching, OwedByTaking,
       OwedBySignalling DEF SectionStep
  <2>3. ASSUME NEW t \in Threads, OnTimer(t) PROVE SleepersAreOwed'
    <3>1. CancelWait(t, "TimedOut") /\ section = NoThread /\ UNCHANGED <<pc, arg, cvArg>>
      BY <2>3 DEF OnTimer, SchedulerFree, callVars
    <3>2. QED BY <1>2, <3>1, OwedByCancelling
  <2>4. CASE TerminateCancelsWait
    <3>1. target \in Threads /\ section = NoThread /\ UNCHANGED <<pc, arg, cvArg, section, next>>
      BY <1>2, <2>4, Ranges DEF TerminateCancelsWait, callVars
    <3>2. CASE CancelWait(target, "TerminationRequested")
      BY <1>2, <3>1, <3>2, OwedByCancelling
    <3>3. CASE UNCHANGED <<waiterVars, cvVars, state>>
      BY <1>2, <3>1, <3>3, OwedAtRest DEF waiterVars, cvVars
    <3>4. QED BY <2>4, <3>2, <3>3 DEF TerminateCancelsWait
  <2>5. ASSUME NEW t \in Threads,
               RequestTerminate(t) \/ \E p \in Priorities : ChangeBasePriority(t, p)
        PROVE  SleepersAreOwed'
    <3>1. /\ UNCHANGED <<pc, arg, cvArg, state, waitingLock, waitingCv, section, next>>
          /\ section = NoThread
      BY <2>5 DEF RequestTerminate, ChangeBasePriority, IncreaseBasePriority, SetBasePriority,
                  SchedulerFree, waiterVars, graphVars, cvVars, callVars, threadVars, sectionVars
    <3>2. QED BY <1>2, <3>1, OwedAtRest
  <2>6. CASE Restore \/ UNCHANGED vars
    <3>1. UNCHANGED <<pc, arg, cvArg, state, waitingLock, waitingCv, section, next, target>>
      BY <2>6 DEF Restore, RestorePriority, vars, waiterVars, cvVars, callVars, threadVars,
                  sectionVars
    <3>2. QED BY <1>2, <3>1, OwedAtRest
  <2>7. QED
    BY <1>2, <2>1, <2>2, <2>3, <2>4, <2>5, <2>6, OwedByGuests DEF CvNext
<1>3. QED BY <1>1, <1>2, CvInvariant, CvInvNext, PTL DEF CvSpec

=============================================================================
