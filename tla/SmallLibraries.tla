--------------------------- MODULE SmallLibraries ---------------------------
(***************************************************************************)
(* Seven libraries beside each other: five containers, the led and the     *)
(* older command line.  They share nothing, so a behaviour is about one of *)
(* them, and the others stay as they begin.                                *)
(***************************************************************************)
EXTENDS Integers, Sequences

CONSTANTS None,                               \* no item, no node, no time
          Messages, Size, Fields,             \* can-fifo-queue-legacy
          Elements,                           \* of the next two and the heap
          Bytes, ElemBytes,                   \* generic-queue
          Half, Priorities, Capacity,         \* priority-queue, as a list
          Items, Cells, Rank, Equal(_, _), Sizes,     \* llist-legacy
          HeapPriorities, Compare(_, _), Worth(_), MaxElem,  \* as a heap
          Patterns, TimeMod,                  \* blinky
          Plain, BufSize, Junk, MaxHistory    \* cli-legacy

VARIABLES library,
          canHead, canTail, canQueue, canPush, canPop,
          genHead, genTail, genCount, genQueue, genAnswer,
          pqHead, pqFree, pqNext, pqPriority, pqPayload, pqAnswer,
          llCount, llHead, llTail, llPrev, llNext, llData, llAllocated,
          llAsked, llAnswer,
          heapPriority, heapQueue, heapCount, heapPc, heapCur, heapAnswer,
          ledPattern, ledTime, ledIndex, ledInitial, ledState, ledEnable,
          ledRepeat, ledClock, ledWatch,
          cliCmd, cliHistory, cliIndex, cliReceive, cliComplete, cliInput,
          cliPc, cliRan

canVars  == <<canHead, canTail, canQueue, canPush, canPop>>
genVars  == <<genHead, genTail, genCount, genQueue, genAnswer>>
pqVars   == <<pqHead, pqFree, pqNext, pqPriority, pqPayload, pqAnswer>>
llVars   == <<llCount, llHead, llTail, llPrev, llNext, llData, llAllocated,
              llAsked, llAnswer>>
heapVars == <<heapPriority, heapQueue, heapCount, heapPc, heapCur, heapAnswer>>
ledVars  == <<ledPattern, ledTime, ledIndex, ledInitial, ledState, ledEnable,
              ledRepeat, ledClock, ledWatch>>
cliVars  == <<cliCmd, cliHistory, cliIndex, cliReceive, cliComplete, cliInput,
              cliPc, cliRan>>
vars     == <<library, canVars, genVars, pqVars, llVars, heapVars, ledVars, cliVars>>

Can == INSTANCE CanFifoQueue WITH
         NoMessage <- None,
         head <- canHead, tail <- canTail, queue <- canQueue,
         push <- canPush, pop <- canPop

Gen == INSTANCE GenericQueue WITH
         NoElement <- None,
         head <- genHead, tail <- genTail, cntElems <- genCount,
         queue <- genQueue, answer <- genAnswer

Pq == INSTANCE PriorityQueue WITH
        Items <- Elements, NoItem <- None,
        head <- pqHead, freeNodes <- pqFree, next <- pqNext,
        priority <- pqPriority, payload <- pqPayload, answer <- pqAnswer

Ll == INSTANCE LList WITH
        NoItem <- None, Null <- None, Nodes <- Cells,
        count <- llCount, head <- llHead, tail <- llTail, prev <- llPrev,
        next <- llNext, data <- llData, allocated <- llAllocated,
        asked <- llAsked, answer <- llAnswer

Heap == INSTANCE PriorityHeap WITH
          Priorities <- HeapPriorities, NoElement <- None,
          priority <- heapPriority, queue <- heapQueue, elemCnt <- heapCount,
          pc <- heapPc, cur <- heapCur, answer <- heapAnswer

Led == INSTANCE Blinky WITH
         Unknown <- None, Modulus <- TimeMod,
         pattern <- ledPattern, t <- ledTime, index <- ledIndex,
         initialState <- ledInitial, state <- ledState, enable <- ledEnable,
         repeat <- ledRepeat, clock <- ledClock, watch <- ledWatch

Cl == INSTANCE Cli WITH
        cmd <- cliCmd, history <- cliHistory, histIndex <- cliIndex,
        receive <- cliReceive, complete <- cliComplete, input <- cliInput,
        pc <- cliPc, ran <- cliRan

(* What the libraries assume of their constants.                           *)
ASSUME Assumptions ==
  /\ Can!CanFifoAssumption /\ Gen!GenericQueueAssumption
  /\ Pq!PriorityQueueAssumption /\ Ll!LListAssumption
  /\ Heap!PriorityHeapAssumption
  /\ Led!BlinkyAssumption /\ Cl!CliAssumption

(* Any led will do where the behaviour is about another library.           *)
LedAside ==
  /\ ledPattern = CHOOSE p \in Patterns : TRUE
  /\ ledTime = 0 /\ ledIndex = 0 /\ ledInitial = TRUE /\ ledState = TRUE
  /\ ledEnable = TRUE /\ ledRepeat = TRUE /\ ledClock = 0 /\ ledWatch = None

Init ==
  /\ library \in {"can", "generic", "priority", "list", "heap", "led", "cli"}
  /\ Can!Init /\ Gen!Init /\ Pq!Init /\ Ll!Init /\ Heap!Init /\ Cl!Init
  /\ IF library = "led" THEN Led!Init ELSE LedAside

Next ==
  /\ UNCHANGED library
  /\ \/ /\ library = "can" /\ Can!Next
        /\ UNCHANGED <<genVars, pqVars, llVars, heapVars, ledVars, cliVars>>
     \/ /\ library = "generic" /\ Gen!Next
        /\ UNCHANGED <<canVars, pqVars, llVars, heapVars, ledVars, cliVars>>
     \/ /\ library = "priority" /\ Pq!Next
        /\ UNCHANGED <<canVars, genVars, llVars, heapVars, ledVars, cliVars>>
     \/ /\ library = "list" /\ Ll!Next
        /\ UNCHANGED <<canVars, genVars, pqVars, heapVars, ledVars, cliVars>>
     \/ /\ library = "heap" /\ Heap!Next
        /\ UNCHANGED <<canVars, genVars, pqVars, llVars, ledVars, cliVars>>
     \/ /\ library = "led" /\ Led!Next
        /\ UNCHANGED <<canVars, genVars, pqVars, llVars, heapVars, cliVars>>
     \/ /\ library = "cli" /\ Cl!Next
        /\ UNCHANGED <<canVars, genVars, pqVars, llVars, heapVars, ledVars>>

Spec == Init /\ [][Next]_vars

-----------------------------------------------------------------------------
(* The variables of every library keep the types of its module, and none   *)
(* leaves its memory; by Inv of CanFifoQueue the slots between its indices *)
(* hold whole messages; by PoolKept of PriorityQueue no node of its pool   *)
(* is lost and none is used twice, and by LinksCoherent of LList the links *)
(* of the list agree with each other and with what is allocated.           *)
MemoryKept ==
  CASE library = "can"      -> Can!Inv
    [] library = "generic"  -> Gen!TypeOK
    [] library = "priority" -> Pq!TypeOK /\ Pq!PoolKept
    [] library = "list"     -> Ll!TypeOK /\ Ll!LinksCoherent
    [] library = "heap"     -> Heap!TypeOK
    [] library = "led"      -> Led!TypeOK
    [] library = "cli"      -> Cl!TypeOK

(* WaitBounded of PriorityQueue: ageing lets nobody wait for ever, nor the *)
(* comparison turn round.                                                  *)
WaitBounded == library = "priority" => Pq!WaitBounded

(* The refinements below are ImplementsDeque, ImplementsQueue,             *)
(* ImplementsRankedQueue, ImplementsList, ImplementsBag,                   *)
(* ImplementsSchedule and ImplementsHistory of the modules: a library that *)
(* is not chosen only stutters.                                            *)

(* can_fifo_queue.c is a first-in first-out queue for one context on each  *)
(* side, whatever the interleaving of their statements.                    *)
CanFifoImplementsDeque ==
  Can!D!Init /\ [][library = "can" => Can!D!Next]_<<library, Can!D!dvars>>

(* generic_queue.c is a bounded first-in first-out queue.                  *)
GenericImplementsQueue ==
  Gen!R!Init /\ [][library = "generic" => Gen!R!Next]_<<library, Gen!R!qvars>>

(* priority_queue.c, whose priorities wrap around below zero, is a queue   *)
(* with integer ranks that come forward by one at every pop.               *)
PriorityImplementsRanks ==
  Pq!R!Init /\ [][library = "priority" => Pq!R!Next]_<<library, Pq!R!qvars>>

(* llist.c is the sequence of its items.                                   *)
ListImplementsSequence ==
  Ll!L!Init /\ [][library = "list" => Ll!L!Next]_<<library, Ll!L!ivars>>

(* priority_queue_heap.c serves a best entry of a bag.                     *)
HeapImplementsBag ==
  Heap!B!Init /\ [][library = "heap" => Heap!B!Next]_<<library, Heap!B!bvars>>

(* blinky.c is a lamp that goes through its pattern in real time.          *)
BlinkyImplementsSchedule ==
  [][library = "led" => Led!S!Next]_<<library, Led!S!lampVars>>

(* cli.c edits and recalls lines, whatever its arrays keep of older ones.  *)
CliImplementsHistory ==
  Cl!H!Init /\ [][library = "cli" => Cl!H!Next]_<<library, Cl!H!hvars>>
=============================================================================
