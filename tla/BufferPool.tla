------------------------------ MODULE BufferPool ------------------------------
(***************************************************************************)
(* The pool of network buffer descriptors of                               *)
(* FreeRTOS-Plus-TCP/portable/BufferManagement/BufferAllocation_1.c: a     *)
(* counting semaphore says how many descriptors may be taken, a linked     *)
(* list holds the descriptors that are free.  The two are updated in       *)
(* separate steps: a task that has taken the semaphore may be preempted,   *)
(* or interrupted by the Ethernet handler, before it unlinks the head of   *)
(* the list, and a task that has linked a descriptor back may be           *)
(* preempted before it gives the semaphore.  An interrupt handler runs to  *)
(* completion, so each of its calls is one step.                           *)
(*                                                                         *)
(* The lines between ipconfigBUFFER_ALLOC_LOCK and _UNLOCK are a critical  *)
(* section and form one step.                                              *)
(***************************************************************************)
EXTENDS Naturals, Sequences, FiniteSets

CONSTANTS
  Buffer,        \* the descriptors of xNetworkBuffers[]
  Task,          \* the tasks that call the pool
  Threshold      \* baINTERRUPT_BUFFER_GET_THRESHOLD

ASSUME BufferAssumption == IsFiniteSet(Buffer)
ASSUME TaskAssumption == IsFiniteSet(Task)
ASSUME ThresholdAssumption == Threshold \in Nat
ASSUME HolderAssumption == "handler" \notin Task /\ "nobody" \notin Task

\* ipconfigNUM_NETWORK_BUFFER_DESCRIPTORS
NumBuffers == Cardinality(Buffer)

VARIABLES
  xNetworkBufferSemaphore,      \* the count of the semaphore
  xFreeBuffersList,             \* the free list, head first
  uxMinimumFreeNetworkBuffers,  \* the statistic
  poolPc,                           \* where each task is inside the pool's code
  uxCount,                      \* the local of that name of each task
  owned,                        \* the descriptors each task holds
  isrOwned                      \* those handed out to the Ethernet handler

poolVars == << xNetworkBufferSemaphore, xFreeBuffersList, uxMinimumFreeNetworkBuffers,
              poolPc, uxCount, owned, isrOwned >>

-----------------------------------------------------------------------------

Elements(s) == { s[i] : i \in 1..Len(s) }

IsInjectiveSeq(s) == \A i, j \in 1..Len(s) : i # j => s[i] # s[j]

FreeSet == Elements(xFreeBuffersList)

\* Tasks between xSemaphoreTake and the unlinking of the head.
Taking == { t \in Task : poolPc[t] = "unlink" }

\* Tasks between vListInsertEnd and xSemaphoreGive.
Giving == { t \in Task : poolPc[t] = "give" }

\* xNetworkBuffersInitialise: every descriptor is linked, the semaphore is full.
PoolInit ==
  /\ xNetworkBufferSemaphore = NumBuffers
  /\ xFreeBuffersList \in { s \in [1..NumBuffers -> Buffer] : IsInjectiveSeq(s) }
  /\ uxMinimumFreeNetworkBuffers = NumBuffers
  /\ poolPc = [t \in Task |-> "idle"]
  /\ uxCount = [t \in Task |-> 0]
  /\ owned = [t \in Task |-> {}]
  /\ isrOwned = {}

-----------------------------------------------------------------------------
(* pxGetNetworkBufferWithDescriptor, called by a task.                       *)

\* xSemaphoreTake succeeds.  When the count stays 0 until the block time is
\* over the call returns NULL and nothing has changed.
SemaphoreTake(t) ==
  /\ poolPc[t] = "idle"
  /\ xNetworkBufferSemaphore > 0
  /\ xNetworkBufferSemaphore' = xNetworkBufferSemaphore - 1
  /\ poolPc' = [poolPc EXCEPT ![t] = "unlink"]
  /\ UNCHANGED << xFreeBuffersList, uxMinimumFreeNetworkBuffers, uxCount, owned, isrOwned >>

\* A slip: uxListRemove is forgotten, the head stays linked.
UnlinkHeadKept(t) ==
  /\ poolPc[t] = "unlink"
  /\ xFreeBuffersList # << >>
  /\ owned' = [owned EXCEPT ![t] = @ \cup { Head(xFreeBuffersList) }]
  /\ poolPc' = [poolPc EXCEPT ![t] = "count"]
  /\ UNCHANGED << xNetworkBufferSemaphore, xFreeBuffersList, uxMinimumFreeNetworkBuffers,
                  uxCount, isrOwned >>

\* The critical section: the head of the list is removed and returned.
UnlinkHead(t) ==
  /\ poolPc[t] = "unlink"
  /\ xFreeBuffersList # << >>
  /\ xFreeBuffersList' = Tail(xFreeBuffersList)
  /\ owned' = [owned EXCEPT ![t] = @ \cup { Head(xFreeBuffersList) }]
  /\ poolPc' = [poolPc EXCEPT ![t] = "count"]
  /\ UNCHANGED << xNetworkBufferSemaphore, uxMinimumFreeNetworkBuffers, uxCount, isrOwned >>

\* "Reading UBaseType_t, no critical section needed": the length is read after
\* the section has been left.
ReadCount(t) ==
  /\ poolPc[t] = "count"
  /\ uxCount' = [uxCount EXCEPT ![t] = Len(xFreeBuffersList)]
  /\ poolPc' = [poolPc EXCEPT ![t] = "latch"]
  /\ UNCHANGED << xNetworkBufferSemaphore, xFreeBuffersList, uxMinimumFreeNetworkBuffers,
                  owned, isrOwned >>

LatchMinimum(t) ==
  /\ poolPc[t] = "latch"
  /\ uxMinimumFreeNetworkBuffers' = IF uxMinimumFreeNetworkBuffers > uxCount[t]
                                      THEN uxCount[t]
                                      ELSE uxMinimumFreeNetworkBuffers
  /\ poolPc' = [poolPc EXCEPT ![t] = "idle"]
  /\ UNCHANGED << xNetworkBufferSemaphore, xFreeBuffersList, uxCount, owned, isrOwned >>

-----------------------------------------------------------------------------
(* vReleaseNetworkBufferAndDescriptor, called by a task.                     *)

\* A slip: the test for a repeated release is left out.
LinkLastUnchecked(t, b) ==
  /\ poolPc[t] = "idle"
  /\ b \in owned[t] \cup FreeSet
  /\ Len(xFreeBuffersList) <= NumBuffers  \* bounds the list of the slip
  /\ xFreeBuffersList' = Append(xFreeBuffersList, b)
  /\ poolPc' = [poolPc EXCEPT ![t] = "give"]
  /\ owned' = [owned EXCEPT ![t] = @ \ {b}]
  /\ UNCHANGED << xNetworkBufferSemaphore, uxMinimumFreeNetworkBuffers, uxCount, isrOwned >>

\* The critical section.  A descriptor that is already linked is left alone and
\* the semaphore is not given: a repeated release has no effect.
LinkLast(t, b) ==
  /\ poolPc[t] = "idle"
  /\ b \in owned[t] \cup FreeSet
  /\ IF b \in FreeSet
       THEN UNCHANGED << xFreeBuffersList, poolPc >>
       ELSE /\ xFreeBuffersList' = Append(xFreeBuffersList, b)
            /\ poolPc' = [poolPc EXCEPT ![t] = "give"]
  /\ owned' = [owned EXCEPT ![t] = @ \ {b}]
  /\ UNCHANGED << xNetworkBufferSemaphore, uxMinimumFreeNetworkBuffers, uxCount, isrOwned >>

\* xSemaphoreGive fails on a semaphore that is full, and the result is ignored.
GiveSemaphore ==
  xNetworkBufferSemaphore' = IF xNetworkBufferSemaphore < NumBuffers
                               THEN xNetworkBufferSemaphore + 1
                               ELSE xNetworkBufferSemaphore

SemaphoreGive(t) ==
  /\ poolPc[t] = "give"
  /\ GiveSemaphore
  /\ poolPc' = [poolPc EXCEPT ![t] = "idle"]
  /\ UNCHANGED << xFreeBuffersList, uxMinimumFreeNetworkBuffers, uxCount, owned, isrOwned >>

-----------------------------------------------------------------------------
(* The calls of the Ethernet interrupt handler.                              *)

\* A slip: >= for >.
GetFromISRAtThreshold ==
  /\ xNetworkBufferSemaphore >= Threshold
  /\ xFreeBuffersList # << >>
  /\ xNetworkBufferSemaphore' = xNetworkBufferSemaphore - 1
  /\ isrOwned' = isrOwned \cup { Head(xFreeBuffersList) }
  /\ xFreeBuffersList' = Tail(xFreeBuffersList)
  /\ UNCHANGED << uxMinimumFreeNetworkBuffers, poolPc, uxCount, owned >>

\* pxNetworkBufferGetFromISR takes nothing unless the count exceeds the
\* threshold, and does not touch the statistic.
GetFromISR ==
  /\ xNetworkBufferSemaphore > Threshold
  /\ xFreeBuffersList # << >>
  /\ xNetworkBufferSemaphore' = xNetworkBufferSemaphore - 1
  /\ isrOwned' = isrOwned \cup { Head(xFreeBuffersList) }
  /\ xFreeBuffersList' = Tail(xFreeBuffersList)
  /\ UNCHANGED << uxMinimumFreeNetworkBuffers, poolPc, uxCount, owned >>

\* EthernetIntHandler releases the descriptor of a frame the firewall rejects
\* with the same function tasks use.
ReleaseFromISR(b) ==
  /\ b \in isrOwned
  /\ b \notin FreeSet
  /\ xFreeBuffersList' = Append(xFreeBuffersList, b)
  /\ GiveSemaphore
  /\ isrOwned' = isrOwned \ {b}
  /\ UNCHANGED << uxMinimumFreeNetworkBuffers, poolPc, uxCount, owned >>

\* A frame that was accepted reaches a task through the network event queue.
PassToTask(t, b) ==
  /\ b \in isrOwned
  /\ poolPc[t] = "idle"
  /\ isrOwned' = isrOwned \ {b}
  /\ owned' = [owned EXCEPT ![t] = @ \cup {b}]
  /\ UNCHANGED << xNetworkBufferSemaphore, xFreeBuffersList, uxMinimumFreeNetworkBuffers,
                  poolPc, uxCount >>

-----------------------------------------------------------------------------

TaskStep(t) ==
  \/ SemaphoreTake(t)
  \/ UnlinkHead(t)
  \/ ReadCount(t)
  \/ LatchMinimum(t)
  \/ \E b \in Buffer : LinkLast(t, b)
  \/ SemaphoreGive(t)
  \/ \E b \in Buffer : PassToTask(t, b)

IsrStep ==
  \/ GetFromISR
  \/ \E b \in Buffer : ReleaseFromISR(b)

PoolNext == IsrStep \/ \E t \in Task : TaskStep(t)

PoolSpec == PoolInit /\ [][PoolNext]_poolVars

-----------------------------------------------------------------------------

Location == { "idle", "unlink", "count", "latch", "give" }

\* Type correctness: the count never leaves 0..NumBuffers, the list holds descriptors.
PoolTypeOK ==
  /\ xNetworkBufferSemaphore \in 0..NumBuffers
  /\ xFreeBuffersList \in Seq(Buffer)
  /\ uxMinimumFreeNetworkBuffers \in Nat
  /\ poolPc \in [Task -> Location]
  /\ uxCount \in [Task -> Nat]
  /\ owned \in [Task -> SUBSET Buffer]
  /\ isrOwned \subseteq Buffer

\* No descriptor is linked twice (BufferAllocation_1.c:406-411).
ListIsInjective == IsInjectiveSeq(xFreeBuffersList)

\* A descriptor has one holder: it is free, or the handler has it, or exactly one
\* task does.  The two-step allocation must never hand the same descriptor to two
\* callers, however they interleave (BufferAllocation_1.c:258-276, 350-358).
OneHolder ==
  /\ \A t \in Task : owned[t] \cap (FreeSet \cup isrOwned) = {}
  /\ isrOwned \cap FreeSet = {}
  /\ \A t, u \in Task : t # u => owned[t] \cap owned[u] = {}

\* The semaphore and the list agree up to the tasks that are between their two
\* steps, so the semaphore never promises more than the list holds.
CountAgrees ==
  xNetworkBufferSemaphore + Cardinality(Taking) + Cardinality(Giving) = Len(xFreeBuffersList)

\* "If there is a semaphore available, there is a network buffer available"
\* (BufferAllocation_1.c:256): whoever got the semaphore finds a head to unlink.
BufferAvailable ==
  (xNetworkBufferSemaphore > 0 \/ Taking # {}) => xFreeBuffersList # << >>

\* The strengthening that makes the above inductive: the semaphore is only given
\* below its maximum because an injective list is no longer than NumBuffers.
PoolIInv == PoolTypeOK /\ ListIsInjective /\ OneHolder /\ CountAgrees

\* After the handler has taken a descriptor, Threshold descriptors remain over and
\* above those promised to tasks (BufferAllocation_1.c:343-348).
HandlerLeavesReserve ==
  [][ isrOwned' \ isrOwned # {} =>
        Len(xFreeBuffersList') >= Threshold + Cardinality(Taking') ]_poolVars

\* Who holds each descriptor, read off the concrete state.
HolderOf(b) ==
  IF b \in isrOwned THEN "handler"
  ELSE IF \E t \in Task : b \in owned[t] THEN CHOOSE t \in Task : b \in owned[t]
  ELSE "nobody"

Ownership == INSTANCE BufferOwnership
               WITH Handler <- "handler", Nobody <- "nobody",
                    holder <- [b \in Buffer |-> HolderOf(b)]

\* The pool implements exclusive ownership: no interleaving of the two-step
\* operations hands out a descriptor somebody still holds.
ImplementsOwnership == Ownership!Spec

=============================================================================
