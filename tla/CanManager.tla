----------------------------- MODULE CanManager -----------------------------
(***************************************************************************)
(* can-manager/src/can_manager.c on an STM32: the main loop sets up the    *)
(* peripherals, sends, and looks through the message tables, field by      *)
(* field; the receive handler of a peripheral may run between any two of   *)
(* its steps.  What is received is numbered, in its size and its data, so  *)
(* that no two messages are alike and a mixture shows.                     *)
(***************************************************************************)
EXTENDS Integers, Sequences, FiniteSets

CONSTANTS NCan,         \* CAN_MGR_N_CAN
          Fifos,        \* 0 .. CAN_MGR_TOTAL_CAN_RX_FIFOS - 1
          Sizes,        \* sizes of message tables
          Ids,          \* identifiers on the bus
          IndexOf,      \* can_mgr_from_id_to_index, for every peripheral
          Depth,        \* what a receive FIFO holds
          MaxArrivals   \* bound: messages on the bus

ASSUME CanManagerAssumption ==
  /\ NCan \in Nat \ {0} /\ Depth \in Nat \ {0} /\ MaxArrivals \in Nat
  /\ 0 \in Fifos /\ Fifos \subseteq Nat
  /\ Sizes \subseteq Nat \ {0}
  /\ IndexOf \in [(0 .. NCan - 1) \X Ids -> Int]

VARIABLES count,                      \* _can_mgr_current_can_counter
          fifoAssignment,
          msgStates, isNew, sizes,    \* a size of 0 goes with a table NULL
          errorCode, halCode,
          answer,                     \* what the last call returned
          fifo, active, started,      \* the peripherals: the FIFO they use,
          pending, arrivals,          \*   its interrupt, and what it holds
          pc, at, copy                \* the main loop: what it has read

library  == <<count, fifoAssignment, msgStates, isNew, sizes>>
results  == <<errorCode, halCode, answer>>
hardware == <<fifo, active, started, pending, arrivals>>
program  == <<pc, at, copy>>
vars     == <<library, results, hardware, program>>

Cans    == 0 .. (NCan - 1)
Entries(c) == 0 .. (sizes[c] - 1)
Empty   == [id |-> 0, size |-> 0, data |-> 0]
None    == << >>

-----------------------------------------------------------------------------
Init ==
  /\ count = 0 /\ fifoAssignment = [f \in Fifos |-> 0]
  /\ msgStates = [c \in Cans |-> << >>] /\ isNew = [c \in Cans |-> << >>]
  /\ sizes = [c \in Cans |-> 0]
  /\ errorCode = "no_error" /\ halCode = "HAL_OK" /\ answer = 0
  /\ fifo = [c \in Cans |-> 0] /\ active = [c \in Cans |-> FALSE]
  /\ started = [c \in Cans |-> FALSE]
  /\ pending = [c \in Cans |-> << >>] /\ arrivals = 0
  /\ pc = "idle" /\ at = None /\ copy = [c \in Cans |-> << >>]

Fails(code) == answer' = -1 /\ errorCode' = code

(* Bug: one peripheral more is let in.                                     *)
AllGivenLate == count > NCan
AllGiven == count = NCan

InitCan ==
  /\ pc = "idle"
  /\ IF AllGiven
     THEN Fails("too_many_peripherals") /\ UNCHANGED count
     ELSE answer' = count /\ count' = count + 1 /\ UNCHANGED errorCode
  /\ UNCHANGED <<fifoAssignment, msgStates, isNew, sizes, halCode, hardware, program>>

(* CAN_MGR_ID_CHECK of any function.                                       *)
WrongId(c) ==
  /\ pc = "idle" /\ c >= count
  /\ Fails("invalid_can_id")
  /\ UNCHANGED <<library, halCode, hardware, program>>

Outcomes == {"HAL_OK", "HAL_ERROR"}

(* The status of the last HAL call is stored as error code, and the one of *)
(* an earlier call tested.                                                 *)
Told(outcome, hal, code) ==
  /\ halCode' = hal
  /\ IF hal # "HAL_OK" THEN Fails(code)
     ELSE answer' = 0 /\ errorCode' = outcome

(* Bug: an assignment that is there already is kept.                       *)
AssignOnce(c, f) ==
  fifoAssignment' = [fifoAssignment EXCEPT ![f] = IF @ = 0 THEN c ELSE @]
Assign(c, f) == fifoAssignment' = [fifoAssignment EXCEPT ![f] = c]

(* A program gives every peripheral a FIFO number of its own and sets it   *)
(* up before it starts it.  Size 0 goes with a table NULL, and then with a *)
(* filter that lets nothing through.                                       *)
Config(c, f, size, filtered) ==
  /\ pc = "idle" /\ c < count /\ ~started[c]
  /\ \A d \in Cans \ {c} : sizes[d] > 0 \/ active[d] => fifo[d] # f
  /\ size = 0 => filtered
  /\ Assign(c, f)
  /\ msgStates' = [msgStates EXCEPT ![c] = [i \in 0 .. (size - 1) |-> Empty]]
  /\ isNew' = [isNew EXCEPT ![c] = [i \in 0 .. (size - 1) |-> FALSE]]
  /\ sizes' = [sizes EXCEPT ![c] = size]
  /\ copy' = [copy EXCEPT ![c] = [i \in 0 .. (size - 1) |-> Empty]]
  /\ fifo' = [fifo EXCEPT ![c] = f]
  /\ \/ /\ filtered
        /\ halCode' = "HAL_ERROR" /\ Fails("hal_config_filter")
        /\ UNCHANGED active
     \/ \E outcome \in Outcomes :
          /\ active' = [active EXCEPT ![c] = (outcome = "HAL_OK")]
          /\ Told(outcome, IF filtered THEN "HAL_OK" ELSE halCode,
                  "hal_activate_notification")
  /\ UNCHANGED <<count, started, pending, arrivals, pc, at>>

Start(c) ==
  /\ pc = "idle" /\ c < count
  /\ \E outcome \in Outcomes :
       /\ started' = [started EXCEPT ![c] = @ \/ outcome = "HAL_OK"]
       /\ Told(outcome, halCode, "hal_can_start")
  /\ UNCHANGED <<library, fifo, active, pending, arrivals, program>>

(* _can_mgr_wait has no effect but to delay the transmission.              *)
Send(c) ==
  /\ pc = "idle" /\ c < count
  /\ halCode' \in Outcomes
  /\ IF halCode' # "HAL_OK" THEN Fails("hal_can_send")
     ELSE answer' = 0 /\ UNCHANGED errorCode
  /\ UNCHANGED <<library, hardware, program>>

-----------------------------------------------------------------------------
(* A message comes in over the bus; a full FIFO loses it.                  *)
Arrive(c, id) ==
  /\ started[c] /\ sizes[c] > 0
  /\ arrivals < MaxArrivals
  /\ arrivals' = arrivals + 1
  /\ pending' = [pending EXCEPT ![c] =
                   IF Len(@) = Depth THEN @
                   ELSE Append(@, [id |-> id, size |-> arrivals + 1, data |-> arrivals + 1])]
  /\ UNCHANGED <<library, results, fifo, active, started, program>>

(* Bug: the flag is set only when the identifier changes.                  *)
KeepQuiet(can, i, m) ==
  /\ isNew' = [isNew EXCEPT ![can][i] = @ \/ msgStates[can][i].id # m.id]
  /\ msgStates' = [msgStates EXCEPT ![can][i] = m]
Keep(can, i, m) ==
  /\ isNew' = [isNew EXCEPT ![can][i] = TRUE]
  /\ msgStates' = [msgStates EXCEPT ![can][i] = m]

(* can_mgr_it_callback, from the interrupt of peripheral c.  Handlers of   *)
(* two peripherals have no variable in common but the error code, so that  *)
(* one may be taken to wait for the other.  A table NULL leaves the        *)
(* message where it is.                                                    *)
Callback(c) ==
  LET can   == fifoAssignment[fifo[c]]
      m     == Head(pending[c])
      index == IndexOf[<<can, m.id>>]
  IN  /\ active[c] /\ pending[c] # << >>
      /\ sizes[can] > 0
      /\ pending' = [pending EXCEPT ![c] = Tail(@)]
      /\ \/ index < 0 /\ UNCHANGED <<isNew, msgStates, errorCode>>
         \/ /\ index >= sizes[can]
            /\ errorCode' = "index_out_of_bound"
            /\ UNCHANGED <<isNew, msgStates>>
         \/ /\ index \in 0 .. (sizes[can] - 1)
            /\ Keep(can, index, m)
            /\ UNCHANGED errorCode
      /\ UNCHANGED <<count, fifoAssignment, sizes, halCode, answer,
                     fifo, active, started, arrivals, program>>

-----------------------------------------------------------------------------
(* The main loop finds a new message, clears the flag and copies the       *)
(* message in two steps.                                                   *)
Look(c, i) ==
  /\ pc = "idle" /\ isNew[c][i]
  /\ pc' = "copyHead" /\ at' = <<c, i>>
  /\ isNew' = [isNew EXCEPT ![c][i] = FALSE]
  /\ UNCHANGED <<count, fifoAssignment, msgStates, sizes, results, hardware, copy>>

CopyHead ==
  /\ pc = "copyHead" /\ pc' = "copyData"
  /\ copy' = [copy EXCEPT ![at[1]][at[2]].id = msgStates[at[1]][at[2]].id,
                          ![at[1]][at[2]].size = msgStates[at[1]][at[2]].size]
  /\ UNCHANGED <<library, results, hardware, at>>

CopyData ==
  /\ pc = "copyData" /\ pc' = "idle"
  /\ copy' = [copy EXCEPT ![at[1]][at[2]].data = msgStates[at[1]][at[2]].data]
  /\ at' = None
  /\ UNCHANGED <<library, results, hardware>>

Setup ==
  \/ InitCan
  \/ \E c \in Cans :
       \/ WrongId(c) \/ Start(c) \/ Send(c)
       \/ \E f \in Fifos, size \in Sizes \cup {0}, filtered \in BOOLEAN :
            Config(c, f, size, filtered)

Next ==
  \/ Setup
  \/ \E c \in Cans : Callback(c) \/ \E id \in Ids : Arrive(c, id)
  \/ \E c \in Cans : \E i \in DOMAIN isNew[c] : Look(c, i)
  \/ CopyHead \/ CopyData

MaxSize == CHOOSE n \in Sizes : \A m \in Sizes : m <= n

(* Handlers run; the main loop goes on with a copy, and comes by every     *)
(* entry again and again.                                                  *)
Spec ==
  /\ Init /\ [][Next]_vars
  /\ \A c \in Cans : WF_vars(Callback(c))
  /\ WF_vars(CopyHead \/ CopyData)
  /\ \A c \in Cans, i \in 0 .. (MaxSize - 1) :
       SF_vars(i \in DOMAIN isNew[c] /\ Look(c, i))

-----------------------------------------------------------------------------
Message == [id : Ids \cup {0}, size : 0 .. MaxArrivals, data : 0 .. MaxArrivals]

TypeOK ==
  /\ count \in 0 .. NCan /\ answer \in -1 .. NCan
  /\ fifoAssignment \in [Fifos -> Cans] /\ fifo \in [Cans -> Fifos]
  /\ \A c \in Cans :
       /\ sizes[c] \in Sizes \cup {0}
       /\ msgStates[c] \in [Entries(c) -> Message]
       /\ copy[c] \in [Entries(c) -> Message]
       /\ isNew[c] \in [Entries(c) -> BOOLEAN]
       /\ Len(pending[c]) <= Depth
  /\ active \in [Cans -> BOOLEAN] /\ started \in [Cans -> BOOLEAN]
  /\ halCode \in Outcomes /\ arrivals \in 0 .. MaxArrivals
  /\ pc \in {"idle", "copyHead", "copyData"}

(* Whatever comes in while the main loop reads, a copy without a flag is   *)
(* the message of the table, whole: a message that overtakes the copying   *)
(* leaves its flag set.                                                    *)
NothingMissed ==
  \A c \in Cans : \A i \in Entries(c) :
    ~isNew[c][i] /\ at # <<c, i>> => copy[c][i] = msgStates[c][i]

(* Peripherals with FIFO numbers of their own never write into each        *)
(* other's tables, and a message is put where its identifier belongs.      *)
EntriesInPlace ==
  \A c \in Cans : \A i \in Entries(c) :
    LET m == msgStates[c][i]
    IN  m # Empty => started[c] /\ IndexOf[<<c, m.id>>] = i

(* The tables, and what a peripheral holds.                                *)
Arrived == [id : Ids, size : 1 .. MaxArrivals, data : 1 .. MaxArrivals]
Tables ==
  /\ sizes \in [Cans -> Sizes \cup {0}] /\ pending \in [Cans -> Seq(Arrived)]
  /\ DOMAIN msgStates = Cans /\ DOMAIN isNew = Cans /\ DOMAIN copy = Cans

(* A peripheral that is set up finds itself in the assignment of its FIFO, *)
(* and one that is not started holds nothing.                              *)
Assigned ==
  \A c \in Cans :
    /\ sizes[c] > 0 \/ active[c] => fifoAssignment[fifo[c]] = c
    /\ pending[c] # None => started[c]

(* The entry the main loop copies exists, and while its flag is down the   *)
(* half that is copied is still the one of the table.                      *)
Copying ==
  /\ pc = "idle" => at = None
  /\ pc # "idle" =>
       \E c \in Cans : \E i \in Entries(c) :
         /\ at = <<c, i>>
         /\ pc = "copyData" /\ ~isNew[c][i] =>
              /\ copy[c][i].id = msgStates[c][i].id
              /\ copy[c][i].size = msgStates[c][i].size

(* What the library holds has its types, each table holds only messages    *)
(* that belong there, and nothing that came in is missed: the inductive    *)
(* invariant of the proofs.                                                *)
Inv == TypeOK /\ Tables /\ Assigned /\ Copying /\ EntriesInPlace /\ NothingMissed

(* Once the bus is silent the program comes to hold what came last for     *)
(* every entry, whatever overtook what: the handler flags every message it *)
(* stores, and leaves none that it could store in the peripheral.          *)
CatchesUp ==
  \A c \in Cans : []<>(active[c] => pending[c] = << >> /\ copy[c] = msgStates[c])
=============================================================================
