-------------------------- MODULE CanManagerProofs --------------------------
(***************************************************************************)
(* What holds of CanManager for any number of peripherals and FIFOs, any   *)
(* table sizes, identifiers and index functions, and however much comes    *)
(* in.  The invariant Inv is inductive: besides NothingMissed it says what *)
(* the halves of a copy have in common (Copying), and why the handler of a *)
(* peripheral finds its own table (Assigned).                              *)
(***************************************************************************)
EXTENDS CanManager, TLAPS, SequenceTheorems

USE CanManagerAssumption DEF Cans, Entries

-----------------------------------------------------------------------------
LEMMA EmptyMessage == Empty \in Message
  BY DEF Empty, Message

LEMMA ArrivedMessage == \A m \in Arrived : m \in Message /\ m.id \in Ids
  BY DEF Arrived, Message

(* What it means to write entry i of the table of peripheral c.            *)
LEMMA TableUpdate ==
  ASSUME NEW t, DOMAIN t = Cans, NEW c \in Cans, NEW S, DOMAIN t[c] = S,
         NEW i \in S, NEW v, NEW u, u = [t EXCEPT ![c][i] = v]
  PROVE  /\ DOMAIN u = Cans
         /\ \A d \in Cans : d # c => u[d] = t[d]
         /\ u[c] = [t[c] EXCEPT ![i] = v]
         /\ DOMAIN u[c] = S /\ u[c][i] = v
         /\ \A j \in S : j # i => u[c][j] = t[c][j]
  OBVIOUS

LEMMA InitInv == Init => Inv
<1> SUFFICES ASSUME Init PROVE Inv
  OBVIOUS
<1>1. TypeOK
  BY DEF Init, TypeOK, Outcomes
<1>2. Tables /\ Assigned /\ Copying
  BY DEF Init, Tables, Assigned, Copying, None
<1>3. EntriesInPlace /\ NothingMissed
  BY DEF Init, EntriesInPlace, NothingMissed
<1>4. QED
  BY <1>1, <1>2, <1>3 DEF Inv

(* The calls that touch neither the tables nor what a peripheral holds.    *)
LEMMA InvCalls ==
  ASSUME Inv, NEW c \in Cans, InitCan \/ WrongId(c) \/ Start(c) \/ Send(c)
  PROVE  Inv'
<1>1. /\ UNCHANGED <<fifoAssignment, msgStates, isNew, sizes, fifo, active,
                     pending, arrivals, pc, at, copy>>
      /\ \A d \in Cans : started[d] => started'[d]
  BY DEF Inv, TypeOK, InitCan, WrongId, Start, Send, library, hardware, program
<1>2. TypeOK'
  <2>1. count' \in 0 .. NCan /\ answer' \in -1 .. NCan
    BY DEF Inv, TypeOK, InitCan, WrongId, Start, Send, library, Fails, Told,
           AllGiven
  <2>2. started' \in [Cans -> BOOLEAN] /\ halCode' \in Outcomes
    BY DEF Inv, TypeOK, InitCan, WrongId, Start, Send, hardware, Told
  <2>3. QED
    BY <1>1, <2>1, <2>2 DEF Inv, TypeOK
<1>3. Tables' /\ Assigned' /\ Copying'
  BY <1>1 DEF Inv, Tables, Assigned, Copying
<1>4. EntriesInPlace' /\ NothingMissed'
  BY <1>1 DEF Inv, EntriesInPlace, NothingMissed
<1>5. QED
  BY <1>2, <1>3, <1>4 DEF Inv

LEMMA InvConfig ==
  ASSUME Inv, NEW c \in Cans, NEW f \in Fifos, NEW size \in Sizes \cup {0},
         NEW filtered \in BOOLEAN, Config(c, f, size, filtered)
  PROVE  Inv'
<1> DEFINE table == [i \in 0 .. (size - 1) |-> Empty]
           flags == [i \in 0 .. (size - 1) |-> FALSE]
<1>1. /\ pc = "idle" /\ ~started[c]
      /\ \A d \in Cans \ {c} : sizes[d] > 0 \/ active[d] => fifo[d] # f
      /\ fifoAssignment' = [fifoAssignment EXCEPT ![f] = c]
      /\ msgStates' = [msgStates EXCEPT ![c] = table]
      /\ isNew' = [isNew EXCEPT ![c] = flags]
      /\ sizes' = [sizes EXCEPT ![c] = size]
      /\ copy' = [copy EXCEPT ![c] = table]
      /\ fifo' = [fifo EXCEPT ![c] = f]
      /\ UNCHANGED <<count, started, pending, arrivals, pc, at>>
  BY DEF Config, Assign
<1>2. /\ active' \in [Cans -> BOOLEAN]
      /\ \A d \in Cans \ {c} : active'[d] = active[d]
  BY DEF Config, Inv, TypeOK
<1>3. answer' \in -1 .. NCan /\ halCode' \in Outcomes
  BY DEF Config, Inv, TypeOK, Fails, Told, Outcomes
<1>4. /\ table \in [0 .. (size - 1) -> Message]
      /\ flags \in [0 .. (size - 1) -> BOOLEAN]
      /\ \A i \in 0 .. (size - 1) : table[i] = Empty
  BY EmptyMessage
<1>. HIDE DEF table, flags
<1>5. TypeOK'
  <2>1. ASSUME NEW d \in Cans
        PROVE /\ sizes'[d] \in Sizes \cup {0}
              /\ msgStates'[d] \in [0 .. (sizes'[d] - 1) -> Message]
              /\ copy'[d] \in [0 .. (sizes'[d] - 1) -> Message]
              /\ isNew'[d] \in [0 .. (sizes'[d] - 1) -> BOOLEAN]
              /\ Len(pending'[d]) <= Depth
    BY <1>1, <1>4 DEF Inv, TypeOK, Tables
  <2>2. fifoAssignment' \in [Fifos -> Cans] /\ fifo' \in [Cans -> Fifos]
    BY <1>1 DEF Inv, TypeOK
  <2>3. QED
    BY <1>1, <1>2, <1>3, <2>1, <2>2 DEF Inv, TypeOK
<1>6. Tables'
  BY <1>1 DEF Inv, Tables
<1>7. Assigned'
  BY <1>1, <1>2 DEF Inv, TypeOK, Tables, Assigned
<1>8. Copying'
  BY <1>1 DEF Inv, Copying
<1>9. EntriesInPlace'
  BY <1>1, <1>4 DEF Inv, Tables, EntriesInPlace
<1>10. NothingMissed'
  BY <1>1, <1>4 DEF Inv, Tables, NothingMissed
<1>11. QED
  BY <1>5, <1>6, <1>7, <1>8, <1>9, <1>10 DEF Inv

LEMMA InvArrive ==
  ASSUME Inv, NEW c \in Cans, NEW id \in Ids, Arrive(c, id)
  PROVE  Inv'
<1> DEFINE m == [id |-> id, size |-> arrivals + 1, data |-> arrivals + 1]
           p == IF Len(pending[c]) = Depth THEN pending[c]
                ELSE Append(pending[c], m)
<1>1. /\ started[c] /\ pending' = [pending EXCEPT ![c] = p]
      /\ UNCHANGED <<library, results, fifo, active, started, program>>
      /\ arrivals' \in 0 .. MaxArrivals
  <2>1. arrivals \in 0 .. MaxArrivals
    BY DEF Inv, TypeOK
  <2>2. arrivals < MaxArrivals /\ arrivals' = arrivals + 1
    BY DEF Arrive
  <2>3. arrivals' \in 0 .. MaxArrivals
    BY <2>1, <2>2
  <2>4. QED
    BY <2>3, Zenon DEF Arrive
<1>2. m \in Arrived
  <2>1. arrivals \in 0 .. MaxArrivals /\ arrivals < MaxArrivals
    BY DEF Inv, TypeOK, Arrive
  <2>2. arrivals + 1 \in 1 .. MaxArrivals
    BY <2>1
  <2>3. QED
    BY <2>2 DEF Arrived
<1>3. p \in Seq(Arrived) /\ Len(p) <= Depth
  <2>1. pending[c] \in Seq(Arrived) /\ Len(pending[c]) <= Depth
    BY DEF Inv, Tables, TypeOK
  <2>. HIDE DEF m
  <2>2. QED
    BY <1>2, <2>1, AppendProperties
<1>. HIDE DEF m, p
<1>4. TypeOK'
  BY <1>1, <1>3 DEF Inv, TypeOK, Tables, library, results, program
<1>5. Tables'
  BY <1>1, <1>3 DEF Inv, Tables, library, results, program
<1>8. Assigned'
  BY <1>1, <1>3 DEF Inv, Tables, Assigned, library, results, program
<1>9. Copying'
  BY <1>1 DEF Inv, Copying, library, results, program
<1>6. EntriesInPlace' /\ NothingMissed'
  BY <1>1 DEF Inv, EntriesInPlace, NothingMissed, library, results, program
<1>7. QED
  BY <1>4, <1>5, <1>6, <1>8, <1>9 DEF Inv

(* The handler of a peripheral stores into that peripheral's own table.    *)
LEMMA InvCallback ==
  ASSUME Inv, NEW c \in Cans, Callback(c)
  PROVE  Inv'
<1> DEFINE m == Head(pending[c])
           index == IndexOf[<<c, m.id>>]
           p == Tail(pending[c])
<1>1. fifoAssignment[fifo[c]] = c /\ started[c]
  BY DEF Inv, Assigned, Callback, None
<1>2. /\ pending' = [pending EXCEPT ![c] = p]
      /\ UNCHANGED <<count, fifoAssignment, sizes, halCode, answer,
                     fifo, active, started, arrivals, program>>
  BY DEF Callback
<1>3. m \in Arrived /\ p \in Seq(Arrived) /\ Len(p) <= Depth
  <2>1. /\ pending[c] \in Seq(Arrived) /\ Len(pending[c]) <= Depth
        /\ pending[c] # << >>
    BY DEF Inv, Tables, TypeOK, Callback
  <2>2. QED
    BY <2>1, HeadTailProperties
<1>4. \/ UNCHANGED <<isNew, msgStates>>
      \/ /\ index \in Entries(c)
         /\ isNew' = [isNew EXCEPT ![c][index] = TRUE]
         /\ msgStates' = [msgStates EXCEPT ![c][index] = m]
  BY <1>1 DEF Callback, Keep
<1>5. m \in Message
  BY <1>3, ArrivedMessage
<1>. HIDE DEF m, p, index
<1>13. /\ DOMAIN msgStates = Cans /\ DOMAIN isNew = Cans
       /\ msgStates[c] \in [Entries(c) -> Message]
       /\ isNew[c] \in [Entries(c) -> BOOLEAN]
  BY DEF Inv, TypeOK, Tables
<1>14. CASE UNCHANGED <<isNew, msgStates>>
  <2>1. TypeOK'
    BY <1>2, <1>3, <1>14 DEF Inv, TypeOK, Tables, program
  <2>2. Tables'
    BY <1>2, <1>3, <1>14 DEF Inv, Tables, program
  <2>3. Assigned'
    BY <1>1, <1>2 DEF Inv, Tables, Assigned
  <2>4. Copying' /\ EntriesInPlace' /\ NothingMissed'
    BY <1>2, <1>14 DEF Inv, Copying, EntriesInPlace, NothingMissed, program
  <2>5. QED
    BY <2>1, <2>2, <2>3, <2>4 DEF Inv
<1>15. CASE /\ index \in Entries(c)
            /\ isNew' = [isNew EXCEPT ![c][index] = TRUE]
            /\ msgStates' = [msgStates EXCEPT ![c][index] = m]
  <2>1. /\ DOMAIN msgStates' = Cans
        /\ \A d \in Cans : d # c => msgStates'[d] = msgStates[d]
        /\ msgStates'[c] = [msgStates[c] EXCEPT ![index] = m]
        /\ msgStates'[c][index] = m
        /\ \A j \in Entries(c) : j # index => msgStates'[c][j] = msgStates[c][j]
    BY <1>13, <1>15, TableUpdate
  <2>2. /\ DOMAIN isNew' = Cans
        /\ \A d \in Cans : d # c => isNew'[d] = isNew[d]
        /\ isNew'[c] = [isNew[c] EXCEPT ![index] = TRUE]
        /\ isNew'[c][index]
        /\ \A j \in Entries(c) : j # index => isNew'[c][j] = isNew[c][j]
    BY <1>13, <1>15, TableUpdate
  <2>. USE <1>15
  <2>3. TypeOK'
    <3>1. /\ msgStates'[c] \in [Entries(c) -> Message]
          /\ isNew'[c] \in [Entries(c) -> BOOLEAN]
      BY <1>5, <1>13, <2>1, <2>2
    <3>2. ASSUME NEW d \in Cans
          PROVE  /\ msgStates'[d] \in [Entries(d) -> Message]
                 /\ isNew'[d] \in [Entries(d) -> BOOLEAN]
                 /\ Len(pending'[d]) <= Depth
      <4>1. pending \in [Cans -> Seq(Arrived)] /\ Len(pending[d]) <= Depth
            /\ msgStates[d] \in [Entries(d) -> Message]
            /\ isNew[d] \in [Entries(d) -> BOOLEAN]
        BY DEF Inv, TypeOK, Tables
      <4>2. CASE d = c
        BY <1>2, <1>3, <3>1, <4>1, <4>2
      <4>3. CASE d # c
        BY <1>2, <2>1, <2>2, <4>1, <4>3
      <4>4. QED
        BY <4>2, <4>3
    <3>3. QED
      BY <1>2, <3>2 DEF Inv, TypeOK, program
  <2>4. Tables'
    BY <1>2, <1>3, <2>1, <2>2 DEF Inv, Tables, program
  <2>5. Assigned'
    BY <1>1, <1>2 DEF Inv, Tables, Assigned
  <2>6. Copying'
    BY <1>2, <2>1, <2>2 DEF Inv, Copying, program
  <2>7. EntriesInPlace'
    <3>1. ASSUME NEW d \in Cans, NEW j \in Entries(d)', msgStates'[d][j] # Empty
          PROVE  started'[d] /\ IndexOf[<<d, msgStates'[d][j].id>>] = j
      <4>1. CASE d = c /\ j = index
        BY <1>1, <1>2, <2>1, <4>1 DEF index
      <4>2. CASE ~(d = c /\ j = index)
        BY <1>2, <2>1, <3>1, <4>2 DEF Inv, EntriesInPlace
      <4>3. QED
        BY <4>1, <4>2
    <3>2. QED
      BY <3>1 DEF EntriesInPlace
  <2>8. NothingMissed'
    BY <1>2, <2>1, <2>2 DEF Inv, NothingMissed, program
  <2>9. QED
    BY <2>3, <2>4, <2>5, <2>6, <2>7, <2>8 DEF Inv
<1>16. QED
  BY <1>4, <1>14, <1>15

LEMMA InvLook ==
  ASSUME Inv, NEW c \in Cans, NEW i \in DOMAIN isNew[c], Look(c, i)
  PROVE  Inv'
<1>1. /\ i \in Entries(c) /\ pc' = "copyHead" /\ at' = <<c, i>> /\ at = None
      /\ isNew' = [isNew EXCEPT ![c][i] = FALSE]
      /\ UNCHANGED <<count, fifoAssignment, msgStates, sizes, results, hardware,
                     copy>>
  BY DEF Look, Inv, TypeOK, Copying
<1>2. TypeOK'
  <2>1. ASSUME NEW d \in Cans PROVE isNew'[d] \in [Entries(d) -> BOOLEAN]
    BY <1>1 DEF Inv, TypeOK, Tables
  <2>2. QED
    BY <1>1, <2>1 DEF Inv, TypeOK, Tables, results, hardware
<1>3. Tables'
  BY <1>1 DEF Inv, Tables, hardware
<1>4. Assigned'
  BY <1>1 DEF Inv, Assigned, hardware
<1>5. Copying'
  BY <1>1 DEF Copying
<1>6. EntriesInPlace'
  BY <1>1 DEF Inv, EntriesInPlace, hardware
<1>7. NothingMissed'
  BY <1>1 DEF Inv, TypeOK, Tables, NothingMissed, None
<1>8. QED
  BY <1>2, <1>3, <1>4, <1>5, <1>6, <1>7 DEF Inv

LEMMA InvCopyHead ==
  ASSUME Inv, CopyHead
  PROVE  Inv'
<1>1. PICK c \in Cans : \E i \in Entries(c) : at = <<c, i>>
  BY DEF Inv, Copying, CopyHead
<1>2. PICK i \in Entries(c) : at = <<c, i>>
  BY <1>1
<1> DEFINE old == copy[c][i]
           new == [old EXCEPT !.id = msgStates[c][i].id,
                              !.size = msgStates[c][i].size]
<1>3. /\ pc' = "copyData" /\ copy' = [copy EXCEPT ![c][i] = new]
      /\ UNCHANGED <<library, results, hardware, at>>
  BY <1>2 DEF CopyHead, Inv, Tables, TypeOK
<1>4. /\ new \in Message /\ new.id = msgStates[c][i].id
      /\ new.size = msgStates[c][i].size
  <2>1. old \in Message /\ msgStates[c][i] \in Message
    BY DEF Inv, TypeOK
  <2>2. QED
    BY <2>1 DEF Message
<1>. HIDE DEF old, new
<1>11. DOMAIN copy = Cans /\ DOMAIN copy[c] = Entries(c)
  BY DEF Inv, TypeOK, Tables
<1>12. /\ \A d \in Cans : d # c => copy'[d] = copy[d]
       /\ copy'[c][i] = new
       /\ \A k \in Entries(c) : k # i => copy'[c][k] = copy[c][k]
  BY <1>3, <1>11, TableUpdate
<1>5. TypeOK'
  <2>1. ASSUME NEW d \in Cans PROVE copy'[d] \in [Entries(d) -> Message]
    BY <1>3, <1>4 DEF Inv, TypeOK, Tables
  <2>2. QED
    BY <1>3, <2>1 DEF Inv, TypeOK, library, results, hardware
<1>6. Tables' /\ Assigned'
  BY <1>3 DEF Inv, Tables, Assigned, library, hardware
<1>7. Copying'
  BY <1>2, <1>3, <1>4, <1>12 DEF Inv, Copying, library
<1>8. EntriesInPlace'
  BY <1>3 DEF Inv, EntriesInPlace, library, hardware
<1>9. NothingMissed'
  BY <1>2, <1>3, <1>12 DEF Inv, NothingMissed, library
<1>10. QED
  BY <1>5, <1>6, <1>7, <1>8, <1>9 DEF Inv

(* While the flag is down the two halves come from the same message.       *)
LEMMA InvCopyData ==
  ASSUME Inv, CopyData
  PROVE  Inv'
<1>1. PICK c \in Cans : \E i \in Entries(c) :
        /\ at = <<c, i>>
        /\ ~isNew[c][i] => /\ copy[c][i].id = msgStates[c][i].id
                           /\ copy[c][i].size = msgStates[c][i].size
  BY DEF Inv, Copying, CopyData
<1>2. PICK i \in Entries(c) :
        /\ at = <<c, i>>
        /\ ~isNew[c][i] => /\ copy[c][i].id = msgStates[c][i].id
                           /\ copy[c][i].size = msgStates[c][i].size
  BY <1>1
<1> DEFINE old == copy[c][i]
           new == [old EXCEPT !.data = msgStates[c][i].data]
<1>3. /\ pc' = "idle" /\ at' = None /\ copy' = [copy EXCEPT ![c][i] = new]
      /\ UNCHANGED <<library, results, hardware>>
  BY <1>2 DEF CopyData, Inv, Tables, TypeOK
<1>4. new \in Message /\ (~isNew[c][i] => new = msgStates[c][i])
  <2>1. old \in Message /\ msgStates[c][i] \in Message
    BY DEF Inv, TypeOK
  <2>2. QED
    BY <1>2, <2>1 DEF Message
<1>. HIDE DEF old, new
<1>11. DOMAIN copy = Cans /\ DOMAIN copy[c] = Entries(c)
  BY DEF Inv, TypeOK, Tables
<1>12. /\ \A d \in Cans : d # c => copy'[d] = copy[d]
       /\ copy'[c][i] = new
       /\ \A k \in Entries(c) : k # i => copy'[c][k] = copy[c][k]
  BY <1>3, <1>11, TableUpdate
<1>5. TypeOK'
  <2>1. ASSUME NEW d \in Cans PROVE copy'[d] \in [Entries(d) -> Message]
    BY <1>3, <1>4 DEF Inv, TypeOK, Tables
  <2>2. QED
    BY <1>3, <2>1 DEF Inv, TypeOK, library, results, hardware
<1>6. Tables' /\ Assigned'
  BY <1>3 DEF Inv, Tables, Assigned, library, hardware
<1>7. Copying'
  BY <1>3 DEF Copying
<1>8. EntriesInPlace'
  BY <1>3 DEF Inv, EntriesInPlace, library, hardware
<1>9. NothingMissed'
  <2>1. ASSUME NEW d \in Cans, NEW k \in Entries(d), ~isNew[d][k]
        PROVE  copy'[d][k] = msgStates[d][k]
    <3>1. CASE d = c /\ k = i
      BY <1>4, <1>12, <2>1, <3>1
    <3>2. CASE ~(d = c /\ k = i)
      BY <1>2, <1>12, <2>1, <3>2 DEF Inv, NothingMissed
    <3>3. QED
      BY <3>1, <3>2
  <2>2. QED
    BY <1>3, <2>1 DEF NothingMissed, library
<1>10. QED
  BY <1>5, <1>6, <1>7, <1>8, <1>9 DEF Inv

-----------------------------------------------------------------------------
LEMMA InductiveStep == Inv /\ [Next]_vars => Inv'
<1> SUFFICES ASSUME Inv, [Next]_vars PROVE Inv'
  OBVIOUS
<1>1. CASE Setup
  <2>1. 0 \in Cans
    OBVIOUS
  <2>2. QED
    BY <1>1, <2>1, InvCalls, InvConfig DEF Setup
<1>2. ASSUME NEW c \in Cans, Callback(c) \/ \E id \in Ids : Arrive(c, id)
      PROVE  Inv'
  BY <1>2, InvCallback, InvArrive
<1>3. ASSUME NEW c \in Cans, NEW i \in DOMAIN isNew[c], Look(c, i)
      PROVE  Inv'
  BY <1>3, InvLook
<1>4. CASE CopyHead \/ CopyData
  BY <1>4, InvCopyHead, InvCopyData
<1>5. CASE UNCHANGED vars
  BY <1>5 DEF vars, library, results, hardware, program, Inv, TypeOK, Tables,
              Assigned, Copying, EntriesInPlace, NothingMissed
<1>6. QED
  BY <1>1, <1>2, <1>3, <1>4, <1>5 DEF Next

(* Messages lie where their identifiers belong, in the table of their own  *)
(* peripheral, and the tables have their types.                            *)
THEOREM Invariance == Spec => []Inv
  BY InitInv, InductiveStep, PTL DEF Spec

(* Whatever comes in while the main loop copies, field by field: an entry  *)
(* without a flag has been copied whole.                                   *)
THEOREM NoMessageMissed == Spec => []NothingMissed
<1>1. Inv => NothingMissed
  BY DEF Inv
<1>2. QED
  BY <1>1, Invariance, PTL
=============================================================================
