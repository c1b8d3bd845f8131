-------------------------- MODULE RingBufferProofs --------------------------
(***************************************************************************)
(* What holds of RingBuffer for every capacity, every set of items and any *)
(* number of interrupt levels.  The inductive invariant is IInv: one lemma *)
(* per action of the library says that the action preserves it, with one   *)
(* step per conjunct.  RInv adds what each level has in hand, from which   *)
(* follows that the ring buffer implements Deque.                          *)
(***************************************************************************)
EXTENDS RingBuffer, SequenceTheorems, TLAPS

USE RingBufferAssumption DEF Levels, Slots

-----------------------------------------------------------------------------
(* The records of the calls in progress.                                   *)

LEMMA FrameTyping ==
  /\ NoFrame \in Frames
  /\ \A f \in Frames :
       /\ \A c \in Codes : [f EXCEPT !.code = c] \in Frames
       /\ \A i \in 0 .. Capacity : [f EXCEPT !.cur = i] \in Frames
       /\ \A x \in Items \cup {NoItem} : [f EXCEPT !.out = x] \in Frames
  BY DEF Frames, NoFrame, FrameOf, Ops, Pushes, Pops, Reads, Peeks, Codes

LEMMA FrameUpdate ==
  ASSUME NEW fs \in [Levels -> Frames], NEW l \in Levels, NEW f \in Frames
  PROVE  [fs EXCEPT ![l] = f] \in [Levels -> Frames]
  OBVIOUS

(* An index a level computes lies inside the array.                        *)
LEMMA IndexInside ==
  ASSUME TypeOK, NEW l \in Levels, Flow(l), pc[l] = "index"
  PROVE  IndexFor(frame[l].op) \in Slots
<1>1. CASE frame[l].op = "push_back"
  <2>1. IndexFor(frame[l].op) = Wrap(start + size)
    BY <1>1 DEF IndexFor
  <2>2. QED
    BY <1>1, <2>1 DEF TypeOK, Flow, Wrap
<1>2. CASE frame[l].op = "peek_front"
  BY <1>2 DEF TypeOK, IndexFor
<1>3. CASE frame[l].op \in {"pop_back", "back", "peek_back"}
  <2>1. IndexFor(frame[l].op) = Wrap(start + size - 1)
    BY <1>3 DEF IndexFor
  <2>2. QED
    BY <1>3, <2>1 DEF TypeOK, Flow, Wrap
<1>4. QED
  BY <1>1, <1>2, <1>3 DEF Flow, Peeks

(* Nobody is inside a critical section while another level runs outside,   *)
(* except that level itself.                                               *)
LEMMA OnlyRunning ==
  ASSUME TypeOK, Excluded, NEW l \in Levels, NEW m \in Levels, Running(l),
         pc[l] # "idle" \/ l = 0, pc[m] \in Critical
  PROVE  m = l
<1>1. CASE m > l
  BY <1>1 DEF Running, Critical
<1>2. CASE m < l
  BY <1>2 DEF Excluded
<1>3. QED
  BY <1>1, <1>2

-----------------------------------------------------------------------------
LEMMA InitInv == Init => IInv
<1> SUFFICES ASSUME Init PROVE IInv
  OBVIOUS
<1>1. TypeOK
  <2>1. frame \in [Levels -> Frames]
    BY FrameTyping DEF Init
  <2>2. pc \in [Levels -> Labels] /\ data \in [Slots -> Items \cup {NoItem}]
    BY DEF Init, Labels
  <2>3. start \in Slots /\ size \in 0 .. Capacity
    BY DEF Init
  <2>4. masked \in BOOLEAN /\ primask \in BOOLEAN /\ appMasked \in BOOLEAN
    BY Zenon DEF Init
  <2>5. QED
    BY <2>1, <2>2, <2>3, <2>4, Zenon DEF TypeOK
<1>2. Excluded /\ Saved /\ MaskRestored
  BY DEF Init, Excluded, Saved, MaskRestored, Critical
<1>3. \A l \in Levels : Flow(l)
  BY DEF Init, Flow, NoFrame, FrameOf
<1>4. QED
  BY <1>1, <1>2, <1>3 DEF IInv

LEMMA InvAppMask ==
  ASSUME IInv, AppMask
  PROVE  IInv'
<1> USE DEF IInv, AppMask, At, Running, buffer
<1>1. \A k \in Levels : pc[k] = "idle"
  BY DEF TypeOK
<1>2. TypeOK'
  BY DEF TypeOK
<1>3. Excluded' /\ Saved' /\ MaskRestored'
  BY <1>1 DEF TypeOK, Excluded, Saved, MaskRestored, Critical
<1>4. ASSUME NEW m \in Levels PROVE Flow(m)'
  BY DEF Flow
<1>5. QED
  BY <1>2, <1>3, <1>4

LEMMA InvCall ==
  ASSUME IInv, NEW l \in Levels, NEW op \in Ops, NEW arg \in Items \cup {NoItem},
         Call(l, op, arg)
  PROVE  IInv'
<1> DEFINE f == FrameOf(op, arg)
           p == Entry(op)
<1> USE DEF IInv, At, Goto, Running, buffer, irq
<1>1. /\ pc[l] = "idle" /\ \A k \in Levels : k > l => pc[k] = "idle"
      /\ pc' = [pc EXCEPT ![l] = p]
      /\ frame' = [frame EXCEPT ![l] = f]
      /\ l > 0 => ~masked
      /\ UNCHANGED <<buffer, irq>>
  BY DEF Call
<1>2. p \in {"query", "enter", "check"} /\ (op = "size" <=> p = "query")
      /\ (~Protected => p # "enter") /\ (Protected => p # "check")
  BY DEF Entry
<1>3. f \in Frames /\ f.op = op
  BY DEF FrameOf, Frames, Codes
<1>. HIDE DEF f, p
<1>4. TypeOK'
  <2>1. frame' \in [Levels -> Frames]
    BY <1>1, <1>3, FrameUpdate DEF TypeOK
  <2>2. QED
    BY <1>1, <1>2, <2>1 DEF TypeOK, Labels, Critical
<1>5. Excluded'
  BY <1>1, <1>2 DEF TypeOK, Excluded, Critical
<1>6. Saved'
  BY <1>1, <1>2 DEF TypeOK, Excluded, Saved, Critical
<1>7. MaskRestored'
  BY <1>1, <1>2 DEF TypeOK, Saved, MaskRestored, Critical
<1>8. ASSUME NEW m \in Levels PROVE Flow(m)'
  <2>1. CASE m = l
    BY <2>1, <1>1, <1>2, <1>3 DEF TypeOK, Flow
  <2>2. CASE m # l
    BY <2>2, <1>1 DEF TypeOK, Flow
  <2>3. QED
    BY <2>1, <2>2
<1>9. QED
  BY <1>4, <1>5, <1>6, <1>7, <1>8

LEMMA InvSavePrimask ==
  ASSUME IInv, NEW l \in Levels, SavePrimask(l)
  PROVE  IInv'
<1> USE DEF IInv, SavePrimask, At, Goto, Running, buffer, irq
<1>1. TypeOK'
  BY DEF TypeOK, Labels, Critical
<1>2. Excluded'
  BY DEF TypeOK, Excluded, Critical
<1>3. \A m \in Levels : pc[m] \notin Critical
  BY OnlyRunning DEF Critical
<1>4. Saved'
  BY <1>3 DEF TypeOK, Saved, MaskRestored, Critical
<1>5. MaskRestored'
  BY <1>3 DEF TypeOK, MaskRestored
<1>6. ASSUME NEW m \in Levels PROVE Flow(m)'
  <2>1. CASE m = l
    BY <2>1 DEF TypeOK, Flow, Frames
  <2>2. CASE m # l
    BY <2>2, OnlyRunning DEF TypeOK, Flow, Critical
  <2>3. QED
    BY <2>1, <2>2
<1>7. QED
  BY <1>1, <1>2, <1>4, <1>5, <1>6

LEMMA InvDisableIrq ==
  ASSUME IInv, NEW l \in Levels, DisableIrq(l)
  PROVE  IInv'
<1> USE DEF IInv, DisableIrq, At, Goto, Running, buffer, irq
<1>1. TypeOK'
  BY DEF TypeOK, Labels, Critical
<1>2. Excluded'
  BY DEF TypeOK, Excluded, Critical
<1>4. Saved'
  BY DEF TypeOK, Excluded, Saved, MaskRestored, Critical
<1>5. MaskRestored'
  BY DEF TypeOK, Excluded, Saved, MaskRestored, Critical
<1>6. ASSUME NEW m \in Levels PROVE Flow(m)'
  <2>1. CASE m = l
    BY <2>1 DEF TypeOK, Flow, Frames
  <2>2. CASE m # l
    BY <2>2, OnlyRunning DEF TypeOK, Flow, Critical
  <2>3. QED
    BY <2>1, <2>2
<1>7. QED
  BY <1>1, <1>2, <1>4, <1>5, <1>6

LEMMA InvCheck ==
  ASSUME IInv, NEW l \in Levels, Check(l)
  PROVE  IInv'
<1> USE DEF IInv, Check, At, Goto, Running, buffer, irq
<1>1. TypeOK'
  <2>1. frame[l] \in Frames
    BY DEF TypeOK
  <2>2. CheckCode(frame[l].op) \in Codes
    BY DEF CheckCode, Codes
  <2>3. [frame[l] EXCEPT !.code = CheckCode(frame[l].op)] \in Frames
    BY <2>1, <2>2, FrameTyping
  <2>8. frame' \in [Levels -> Frames]
    BY <2>1, <2>3, FrameUpdate DEF TypeOK
  <2>9. QED
    BY <2>8 DEF TypeOK, Labels, Critical, FirstStatement
<1>2. Excluded'
  BY DEF TypeOK, Excluded, Critical
<1>3. /\ pc'[l] \in Critical /\ pc[l] \in Critical
      /\ \A m \in Levels : m # l => pc'[m] = pc[m]
  BY DEF TypeOK, FirstStatement, Critical
<1>4. Saved'
  BY <1>3 DEF Saved, Critical
<1>5. MaskRestored'
  BY <1>3 DEF MaskRestored
<1>6. ASSUME NEW m \in Levels PROVE Flow(m)'
  <2>1. CASE m = l
    <3>1. frame'[l].op = frame[l].op /\ frame[l].op \in Ops
      BY DEF TypeOK, Frames
    <3>2. CASE CheckCode(frame[l].op) # "OK"
      BY <2>1, <3>1, <3>2 DEF TypeOK, Flow
    <3>3. CASE CheckCode(frame[l].op) = "OK"
      <4>1. /\ frame[l].op \in Pushes => size < Capacity
            /\ frame[l].op \in Pops \cup Reads \cup Peeks => size > 0
        BY <3>3 DEF TypeOK, CheckCode, IsFull, IsEmpty
      <4>2. pc'[l] = FirstStatement(frame[l].op, frame[l].arg)
        BY <3>3 DEF TypeOK
      <4>3. frame[l].op # "size"
        BY DEF Flow
      <4>4. CASE frame[l].op \in Pushes
        BY <2>1, <3>1, <4>1, <4>2, <4>4 DEF Flow, FirstStatement, Pushes
      <4>5. CASE frame[l].op \in Pops
        BY <2>1, <3>1, <4>1, <4>2, <4>5 DEF Flow, FirstStatement, Pops, FrontOps
      <4>6. CASE frame[l].op \in Reads
        BY <2>1, <3>1, <4>1, <4>2, <4>6
           DEF Flow, FirstStatement, Reads, FrontOps
      <4>7. CASE frame[l].op \in Peeks \cup {"clear"}
        BY <2>1, <3>1, <4>1, <4>2, <4>7 DEF Flow, FirstStatement, Peeks
      <4>8. QED
        BY <3>1, <4>3, <4>4, <4>5, <4>6, <4>7 DEF Ops
    <3>4. QED
      BY <3>2, <3>3
  <2>2. CASE m # l
    BY <2>2, OnlyRunning DEF TypeOK, Flow, Critical
  <2>3. QED
    BY <2>1, <2>2
<1>7. QED
  BY <1>1, <1>2, <1>4, <1>5, <1>6

LEMMA InvPushFrontMove ==
  ASSUME IInv, NEW l \in Levels, PushFrontMove(l)
  PROVE  IInv'
<1> USE DEF IInv, PushFrontMove, At, Goto, Running, buffer, irq
<1>1. TypeOK'
  BY DEF TypeOK, Labels, Critical
<1>2. Excluded'
  BY DEF TypeOK, Excluded, Critical
<1>4. Saved'
  BY DEF TypeOK, Excluded, Saved, MaskRestored, Critical
<1>5. MaskRestored'
  BY DEF TypeOK, Excluded, Saved, MaskRestored, Critical
<1>6. ASSUME NEW m \in Levels PROVE Flow(m)'
  <2>1. CASE m = l
    BY <2>1 DEF TypeOK, Flow, Frames, Pushes
  <2>2. CASE m # l
    BY <2>2, OnlyRunning DEF TypeOK, Flow, Critical
  <2>3. QED
    BY <2>1, <2>2
<1>7. QED
  BY <1>1, <1>2, <1>4, <1>5, <1>6

LEMMA InvPopFrontMove ==
  ASSUME IInv, NEW l \in Levels, PopFrontMove(l)
  PROVE  IInv'
<1> USE DEF IInv, PopFrontMove, At, Goto, Running, buffer, irq
<1>1. TypeOK'
  BY DEF TypeOK, Labels, Critical
<1>2. Excluded'
  BY DEF TypeOK, Excluded, Critical
<1>4. Saved'
  BY DEF TypeOK, Excluded, Saved, MaskRestored, Critical
<1>5. MaskRestored'
  BY DEF TypeOK, Excluded, Saved, MaskRestored, Critical
<1>6. ASSUME NEW m \in Levels PROVE Flow(m)'
  <2>1. CASE m = l
    BY <2>1 DEF TypeOK, Flow, Frames, Pops
  <2>2. CASE m # l
    BY <2>2, OnlyRunning DEF TypeOK, Flow, Critical
  <2>3. QED
    BY <2>1, <2>2
<1>7. QED
  BY <1>1, <1>2, <1>4, <1>5, <1>6

LEMMA InvIndex ==
  ASSUME IInv, NEW l \in Levels, Index(l)
  PROVE  IInv'
<1> USE DEF IInv, Index, At, Goto, Running, buffer, irq
<1>1. TypeOK'
  <2>1. frame[l] \in Frames
    BY DEF TypeOK
  <2>2. IndexFor(frame[l].op) \in 0 .. Capacity
    BY IndexInside
  <2>3. [frame[l] EXCEPT !.cur = IndexFor(frame[l].op)] \in Frames
    BY <2>1, <2>2, FrameTyping
  <2>8. frame' \in [Levels -> Frames]
    BY <2>1, <2>3, FrameUpdate DEF TypeOK
  <2>9. QED
    BY <2>8 DEF TypeOK, Labels, Critical
<1>2. Excluded'
  BY DEF TypeOK, Excluded, Critical
<1>4. Saved'
  BY DEF TypeOK, Excluded, Saved, MaskRestored, Critical
<1>5. MaskRestored'
  BY DEF TypeOK, Excluded, Saved, MaskRestored, Critical
<1>6. ASSUME NEW m \in Levels PROVE Flow(m)'
  <2>1. CASE m = l
    <3>1. frame'[l].op = frame[l].op /\ frame'[l].cur = IndexFor(frame[l].op)
      BY DEF TypeOK, Frames
    <3>2. frame'[l].cur \in Slots
      BY <3>1, IndexInside
    <3>3. QED
      BY <2>1, <3>1, <3>2 DEF TypeOK, Flow, Pushes, Pops, Reads, Peeks, FrontOps
  <2>2. CASE m # l
    BY <2>2, OnlyRunning DEF TypeOK, Flow, Critical
  <2>3. QED
    BY <2>1, <2>2
<1>7. QED
  BY <1>1, <1>2, <1>4, <1>5, <1>6

LEMMA InvWrite ==
  ASSUME IInv, NEW l \in Levels, Write(l)
  PROVE  IInv'
<1> USE DEF IInv, Write, At, Goto, Running, buffer, irq
<1>1. TypeOK'
  <2>1. frame[l] \in Frames
    BY DEF TypeOK
  <2>2. frame[l].arg \in Items \cup {NoItem}
    BY <2>1 DEF Frames
  <2>3. data' \in [Slots -> Items \cup {NoItem}]
    BY <2>2 DEF TypeOK
  <2>4. QED
    BY <2>3 DEF TypeOK, Labels, Critical
<1>2. Excluded'
  BY DEF TypeOK, Excluded, Critical
<1>4. Saved'
  BY DEF TypeOK, Excluded, Saved, MaskRestored, Critical
<1>5. MaskRestored'
  BY DEF TypeOK, Excluded, Saved, MaskRestored, Critical
<1>6. ASSUME NEW m \in Levels PROVE Flow(m)'
  <2>1. CASE m = l
    BY <2>1 DEF TypeOK, Flow, Frames, Pushes, SlotOf
  <2>2. CASE m # l
    BY <2>2, OnlyRunning DEF TypeOK, Flow, Critical
  <2>3. QED
    BY <2>1, <2>2
<1>7. QED
  BY <1>1, <1>2, <1>4, <1>5, <1>6

LEMMA InvGrow ==
  ASSUME IInv, NEW l \in Levels, Grow(l)
  PROVE  IInv'
<1> USE DEF IInv, Grow, At, Goto, Running, buffer, irq
<1>1. TypeOK'
  BY DEF TypeOK, Labels, Critical, Flow
<1>2. Excluded'
  BY DEF TypeOK, Excluded, Critical
<1>4. Saved'
  BY DEF TypeOK, Excluded, Saved, MaskRestored, Critical
<1>5. MaskRestored'
  BY DEF TypeOK, Excluded, Saved, MaskRestored, Critical
<1>6. ASSUME NEW m \in Levels PROVE Flow(m)'
  <2>1. CASE m = l
    BY <2>1 DEF TypeOK, Flow, Frames, Pushes
  <2>2. CASE m # l
    BY <2>2, OnlyRunning DEF TypeOK, Flow, Critical
  <2>3. QED
    BY <2>1, <2>2
<1>7. QED
  BY <1>1, <1>2, <1>4, <1>5, <1>6

LEMMA InvRead ==
  ASSUME IInv, NEW l \in Levels, Read(l)
  PROVE  IInv'
<1> USE DEF IInv, Read, At, Goto, Running, buffer, irq
<1>1. TypeOK'
  <2>1. frame[l] \in Frames
    BY DEF TypeOK
  <2>2. SlotOf(frame[l]) \in Slots
    BY DEF TypeOK, Flow, SlotOf
  <2>3. [frame[l] EXCEPT !.out = data[SlotOf(frame[l])]] \in Frames
    BY <2>1, <2>2, FrameTyping DEF TypeOK
  <2>8. frame' \in [Levels -> Frames]
    BY <2>1, <2>3, FrameUpdate DEF TypeOK
  <2>9. QED
    BY <2>8 DEF TypeOK, Labels, Critical
<1>2. Excluded'
  BY DEF TypeOK, Excluded, Critical
<1>4. Saved'
  BY DEF TypeOK, Excluded, Saved, MaskRestored, Critical
<1>5. MaskRestored'
  BY DEF TypeOK, Excluded, Saved, MaskRestored, Critical
<1>6. ASSUME NEW m \in Levels PROVE Flow(m)'
  <2>1. CASE m = l
    <3>1. frame'[l].op = frame[l].op /\ frame'[l].cur = frame[l].cur
      BY DEF TypeOK, Frames
    <3>2. QED
      BY <2>1, <3>1 DEF TypeOK, Flow, Pops, Reads, FrontOps
  <2>2. CASE m # l
    BY <2>2, OnlyRunning DEF TypeOK, Flow, Critical
  <2>3. QED
    BY <2>1, <2>2
<1>7. QED
  BY <1>1, <1>2, <1>4, <1>5, <1>6

LEMMA InvShrink ==
  ASSUME IInv, NEW l \in Levels, Shrink(l)
  PROVE  IInv'
<1> USE DEF IInv, Shrink, At, Goto, Running, buffer, irq
<1>1. TypeOK'
  BY DEF TypeOK, Labels, Critical, Flow
<1>2. Excluded'
  BY DEF TypeOK, Excluded, Critical
<1>4. Saved'
  BY DEF TypeOK, Excluded, Saved, MaskRestored, Critical
<1>5. MaskRestored'
  BY DEF TypeOK, Excluded, Saved, MaskRestored, Critical
<1>6. ASSUME NEW m \in Levels PROVE Flow(m)'
  <2>1. CASE m = l
    BY <2>1 DEF TypeOK, Flow, Frames
  <2>2. CASE m # l
    BY <2>2, OnlyRunning DEF TypeOK, Flow, Critical
  <2>3. QED
    BY <2>1, <2>2
<1>7. QED
  BY <1>1, <1>2, <1>4, <1>5, <1>6

LEMMA InvClearStart ==
  ASSUME IInv, NEW l \in Levels, ClearStart(l)
  PROVE  IInv'
<1> USE DEF IInv, ClearStart, At, Goto, Running, buffer, irq
<1>1. TypeOK'
  BY DEF TypeOK, Labels, Critical
<1>2. Excluded'
  BY DEF TypeOK, Excluded, Critical
<1>4. Saved'
  BY DEF TypeOK, Excluded, Saved, MaskRestored, Critical
<1>5. MaskRestored'
  BY DEF TypeOK, Excluded, Saved, MaskRestored, Critical
<1>6. ASSUME NEW m \in Levels PROVE Flow(m)'
  <2>1. CASE m = l
    BY <2>1 DEF TypeOK, Flow, Frames
  <2>2. CASE m # l
    BY <2>2, OnlyRunning DEF TypeOK, Flow, Critical
  <2>3. QED
    BY <2>1, <2>2
<1>7. QED
  BY <1>1, <1>2, <1>4, <1>5, <1>6

LEMMA InvClearSize ==
  ASSUME IInv, NEW l \in Levels, ClearSize(l)
  PROVE  IInv'
<1> USE DEF IInv, ClearSize, At, Goto, Running, buffer, irq
<1>1. TypeOK'
  BY DEF TypeOK, Labels, Critical
<1>2. Excluded'
  BY DEF TypeOK, Excluded, Critical
<1>4. Saved'
  BY DEF TypeOK, Excluded, Saved, MaskRestored, Critical
<1>5. MaskRestored'
  BY DEF TypeOK, Excluded, Saved, MaskRestored, Critical
<1>6. ASSUME NEW m \in Levels PROVE Flow(m)'
  <2>1. CASE m = l
    BY <2>1 DEF TypeOK, Flow, Frames
  <2>2. CASE m # l
    BY <2>2, OnlyRunning DEF TypeOK, Flow, Critical
  <2>3. QED
    BY <2>1, <2>2
<1>7. QED
  BY <1>1, <1>2, <1>4, <1>5, <1>6

LEMMA InvExit ==
  ASSUME IInv, NEW l \in Levels, Exit(l)
  PROVE  IInv'
<1> USE DEF IInv, Exit, At, Goto, Running, buffer, irq
<1>1. TypeOK'
  <2>1. frame[l] \in Frames
    BY DEF TypeOK
  <2>8. frame' \in [Levels -> Frames]
    BY <2>1, FrameTyping, FrameUpdate DEF TypeOK
  <2>9. QED
    BY <2>8 DEF TypeOK, Labels, Critical
<1>2. Excluded'
  BY DEF TypeOK, Excluded, Critical
<1>4. Saved'
  BY DEF TypeOK, Excluded, Saved, MaskRestored, Critical
<1>5. MaskRestored'
  BY DEF TypeOK, Excluded, Saved, MaskRestored, Critical
<1>6. ASSUME NEW m \in Levels PROVE Flow(m)'
  <2>1. CASE m = l
    BY <2>1 DEF TypeOK, Flow, Frames
  <2>2. CASE m # l
    BY <2>2, OnlyRunning DEF TypeOK, Flow, Critical
  <2>3. QED
    BY <2>1, <2>2
<1>7. QED
  BY <1>1, <1>2, <1>4, <1>5, <1>6

LEMMA InvQuery ==
  ASSUME IInv, NEW l \in Levels, Query(l)
  PROVE  IInv'
<1> USE DEF IInv, Query, At, Goto, Running, buffer, irq
<1>1. TypeOK'
  <2>1. frame[l] \in Frames
    BY DEF TypeOK
  <2>3. [frame[l] EXCEPT !.cur = size] \in Frames
    BY <2>1, FrameTyping DEF TypeOK
  <2>8. frame' \in [Levels -> Frames]
    BY <2>1, <2>3, FrameUpdate DEF TypeOK
  <2>9. QED
    BY <2>8 DEF TypeOK, Labels, Critical
<1>2. Excluded'
  BY DEF TypeOK, Excluded, Critical
<1>4. Saved'
  BY DEF TypeOK, Excluded, Saved, MaskRestored, Critical
<1>5. MaskRestored'
  BY DEF TypeOK, Excluded, Saved, MaskRestored, Critical
<1>6. ASSUME NEW m \in Levels PROVE Flow(m)'
  <2>1. CASE m = l
    BY <2>1 DEF TypeOK, Flow, Frames
  <2>2. CASE m # l
    BY <2>2, OnlyRunning DEF TypeOK, Flow, Critical
  <2>3. QED
    BY <2>1, <2>2
<1>7. QED
  BY <1>1, <1>2, <1>4, <1>5, <1>6

LEMMA InvQueryReturn ==
  ASSUME IInv, NEW l \in Levels, QueryReturn(l)
  PROVE  IInv'
<1> USE DEF IInv, QueryReturn, At, Goto, Running, buffer, irq
<1>1. TypeOK'
  <2>1. frame[l] \in Frames
    BY DEF TypeOK
  <2>8. frame' \in [Levels -> Frames]
    BY <2>1, FrameTyping, FrameUpdate DEF TypeOK
  <2>9. QED
    BY <2>8 DEF TypeOK, Labels, Critical
<1>2. Excluded'
  BY DEF TypeOK, Excluded, Critical
<1>4. Saved'
  BY DEF TypeOK, Excluded, Saved, MaskRestored, Critical
<1>5. MaskRestored'
  BY DEF TypeOK, Excluded, Saved, MaskRestored, Critical
<1>6. ASSUME NEW m \in Levels PROVE Flow(m)'
  <2>1. CASE m = l
    BY <2>1 DEF TypeOK, Flow, Frames
  <2>2. CASE m # l
    BY <2>2, OnlyRunning DEF TypeOK, Flow, Critical
  <2>3. QED
    BY <2>1, <2>2
<1>7. QED
  BY <1>1, <1>2, <1>4, <1>5, <1>6

-----------------------------------------------------------------------------
LEMMA InductiveStep == IInv /\ [Next]_vars => IInv'
<1> SUFFICES ASSUME IInv, [Next]_vars PROVE IInv'
  OBVIOUS
<1>1. CASE AppMask
  BY <1>1, InvAppMask
<1>2. ASSUME NEW l \in Levels, NEW op \in Ops, NEW arg \in Items \cup {NoItem},
             Call(l, op, arg)
      PROVE  IInv'
  BY <1>2, InvCall
<1>3. ASSUME NEW l \in Levels, Step(l) PROVE IInv'
  BY <1>3, InvSavePrimask, InvDisableIrq, InvCheck, InvPushFrontMove,
     InvPopFrontMove, InvIndex, InvWrite, InvGrow, InvRead, InvShrink,
     InvClearStart, InvClearSize, InvExit, InvQuery, InvQueryReturn DEF Step
<1>4. CASE UNCHANGED vars
  BY <1>4
     DEF vars, buffer, irq, IInv, TypeOK, Excluded, Saved, MaskRestored, Flow
<1>5. QED
  BY <1>1, <1>2, <1>3, <1>4 DEF Next

(* IInv holds of every reachable state.                                    *)
THEOREM Invariance == Spec => []IInv
  BY InitInv, InductiveStep, PTL DEF Spec

(* The fields stay in range: no statement of any operation reads or writes *)
(* outside the array, whatever the handlers do in between.                 *)
THEOREM TypeCorrect == Spec => []TypeOK
<1>1. IInv => TypeOK
  BY DEF IInv
<1>2. QED
  BY <1>1, Invariance, PTL

(* Two levels are never both between cs_enter and cs_exit.                 *)
THEOREM Exclusion == Spec => []MutualExclusion
<1>1. IInv => MutualExclusion
  BY DEF IInv, Excluded, MutualExclusion, Critical
<1>2. QED
  BY <1>1, Invariance, PTL

(* Interrupts are masked outside the critical sections only if the program *)
(* masked them: one global suffices to save PRIMASK for all levels.        *)
THEOREM MasksRestored == Spec => []MaskRestored
<1>1. IInv => MaskRestored
  BY DEF IInv
<1>2. QED
  BY <1>1, Invariance, PTL

-----------------------------------------------------------------------------
(* What a level has in hand while it is inside an operation.  Only the     *)
(* running level can disturb it: the others are outside their critical     *)
(* sections.                                                               *)

LEMMA InitHand == Init => RInv
  BY InitInv DEF Init, RInv, InHand, NoFrame, FrameOf, Pushes, Reads

(* A level outside its critical section has nothing of the buffer in hand. *)
LEMMA HandOutside ==
  ASSUME RInv, NEW m \in Levels, pc[m] \notin Critical,
         pc'[m] = pc[m], frame'[m] = frame[m]
  PROVE  InHand(m)'
  BY DEF RInv, InHand, Critical

LEMMA HandAppMask ==
  ASSUME RInv, AppMask
  PROVE  \A m \in Levels : InHand(m)'
  BY DEF RInv, AppMask, InHand, buffer

LEMMA HandStep ==
  ASSUME RInv, NEW l \in Levels,
         \/ SavePrimask(l) \/ DisableIrq(l) \/ Query(l) \/ QueryReturn(l) \/ Exit(l)
  PROVE  \A m \in Levels : InHand(m)'
<1> USE DEF RInv, IInv, At, Goto, Running, buffer, irq
<1>1. ASSUME NEW m \in Levels, m # l PROVE InHand(m)'
  <2>1. pc'[m] = pc[m] /\ frame'[m] = frame[m]
    BY <1>1 DEF TypeOK, SavePrimask, DisableIrq, Query, QueryReturn, Exit
  <2>2. pc[m] \notin Critical
    BY <1>1, OnlyRunning DEF SavePrimask, DisableIrq, Query, QueryReturn, Exit
  <2>3. QED
    BY <2>1, <2>2, HandOutside
<1>2. InHand(l)'
  <2>1. frame[l] \in Frames /\ InHand(l)
    BY DEF TypeOK
  <2>2. CASE SavePrimask(l)
    BY <2>1, <2>2 DEF TypeOK, SavePrimask, InHand
  <2>3. CASE DisableIrq(l)
    BY <2>1, <2>3 DEF TypeOK, DisableIrq, InHand
  <2>4. CASE Query(l)
    BY <2>1, <2>4 DEF TypeOK, Query, InHand, Frames
  <2>5. CASE QueryReturn(l) \/ Exit(l)
    BY <2>1, <2>5
       DEF TypeOK, QueryReturn, Exit, InHand, NoFrame, FrameOf, Pushes, Reads
  <2>6. QED
    BY <2>2, <2>3, <2>4, <2>5
<1>3. QED
  BY <1>1, <1>2

LEMMA HandCritical ==
  ASSUME RInv, NEW l \in Levels,
         \/ Check(l) \/ PushFrontMove(l) \/ PopFrontMove(l) \/ Index(l) \/ Write(l)
         \/ Grow(l) \/ Read(l) \/ Shrink(l) \/ ClearStart(l) \/ ClearSize(l)
  PROVE  \A m \in Levels : InHand(m)'
<1> USE DEF RInv, IInv, At, Goto, Running, buffer, irq
<1>1. ASSUME NEW m \in Levels, m # l PROVE InHand(m)'
  <2>1. pc'[m] = pc[m] /\ frame'[m] = frame[m]
    BY <1>1 DEF TypeOK, Check, PushFrontMove, PopFrontMove, Index, Write, Grow,
                Read, Shrink, ClearStart, ClearSize
  <2>2. pc[m] \notin Critical
    BY <1>1, OnlyRunning
       DEF Check, PushFrontMove, PopFrontMove, Index, Write, Grow, Read,
           Shrink, ClearStart, ClearSize
  <2>3. QED
    BY <2>1, <2>2, HandOutside
<1>2. InHand(l)'
  <2>1. frame[l] \in Frames /\ InHand(l) /\ Flow(l)
    BY DEF TypeOK
  <2>2. CASE Check(l)
    BY <2>1, <2>2 DEF TypeOK, Check, InHand, Frames, CheckCode, FirstStatement,
       Pushes, Pops, Reads, Peeks, Ops, FrontOps
  <2>3. CASE PushFrontMove(l)
    BY <2>1, <2>3 DEF TypeOK, PushFrontMove, InHand
  <2>4. CASE PopFrontMove(l)
    BY <2>1, <2>4 DEF TypeOK, PopFrontMove, InHand
  <2>5. CASE Index(l)
    BY <2>1, <2>5
       DEF TypeOK, Index, InHand, Frames, IndexFor, Flow, Pops, FrontOps,
           Peeks
  <2>6. CASE Write(l)
    BY <2>1, <2>6 DEF TypeOK, Write, InHand, Flow, SlotOf, FrontOps
  <2>7. CASE Grow(l)
    BY <2>1, <2>7 DEF TypeOK, Grow, InHand, Flow, Pushes
  <2>8. CASE Read(l)
    BY <2>1, <2>8
       DEF TypeOK, Read, InHand, Flow, Frames, SlotOf, FrontOps, Pops, Reads
  <2>9. CASE Shrink(l)
    BY <2>1, <2>9 DEF TypeOK, Shrink, InHand, Flow, Pops
  <2>10. CASE ClearStart(l) \/ ClearSize(l)
    BY <2>1, <2>10 DEF TypeOK, ClearStart, ClearSize, InHand
  <2>11. QED
    BY <2>2, <2>3, <2>4, <2>5, <2>6, <2>7, <2>8, <2>9, <2>10
<1>3. QED
  BY <1>1, <1>2

LEMMA HandCall ==
  ASSUME RInv, NEW l \in Levels, NEW op \in Ops, NEW arg \in Items \cup {NoItem},
         Call(l, op, arg)
  PROVE  \A m \in Levels : InHand(m)'
<1> USE DEF RInv, IInv, At, Goto, Running, buffer, irq
<1>1. ASSUME NEW m \in Levels, m # l PROVE InHand(m)'
  <2>1. pc'[m] = pc[m] /\ frame'[m] = frame[m]
    BY <1>1 DEF TypeOK, Call
  <2>2. pc[m] \notin Critical
    BY <1>1 DEF TypeOK, Call, Excluded, Critical
  <2>3. QED
    BY <2>1, <2>2, HandOutside
<1>2. InHand(l)'
  BY DEF TypeOK, Call, InHand, FrameOf, Entry, Pushes, Reads
<1>3. QED
  BY <1>1, <1>2

LEMMA RInvStep == RInv /\ [Next]_vars => RInv'
<1> SUFFICES ASSUME RInv, [Next]_vars PROVE RInv'
  OBVIOUS
<1>1. IInv'
  BY InductiveStep DEF RInv
<1>2. CASE AppMask
  BY <1>1, <1>2, HandAppMask DEF RInv
<1>3. ASSUME NEW l \in Levels, NEW op \in Ops, NEW arg \in Items \cup {NoItem},
             Call(l, op, arg)
      PROVE  RInv'
  BY <1>1, <1>3, HandCall DEF RInv
<1>4. ASSUME NEW l \in Levels, Step(l) PROVE RInv'
  BY <1>1, <1>4, HandStep, HandCritical DEF RInv, Step
<1>5. CASE UNCHANGED vars
  BY <1>1, <1>5 DEF vars, buffer, RInv, InHand
<1>6. QED
  BY <1>2, <1>3, <1>4, <1>5 DEF Next

(* RInv holds of every reachable state: an index computed before a memcpy  *)
(* is still the one of the last item or of the next slot when it is used,  *)
(* and an item copied to *out is still the one that is then removed.       *)
THEOREM HandInvariance == Spec => []RInv
  BY InitHand, RInvStep, PTL DEF Spec

-----------------------------------------------------------------------------
(* The ring buffer implements Deque.  A step of one level leaves the calls *)
(* of all others as they are (OthersKept); what the callers see before and *)
(* after it is a window of the array (ViewBefore, ViewAfter); and what the *)
(* step does to that window is what Deque does to a sequence (the lemmas   *)
(* on Window).                                                             *)
HIDE RingBufferAssumption DEF Levels, Slots

Held == Items \cup {NoItem}

(* A run of n slots from slot s on, as a sequence.                         *)
Window(d, s, n) == [i \in 1 .. n |-> d[Wrap(s + i - 1)]]

LEMMA WindowType ==
  ASSUME NEW d \in [Slots -> Held], NEW s \in Slots, NEW n \in 0 .. Capacity
  PROVE  /\ Window(d, s, n) \in Seq(Held)
         /\ Len(Window(d, s, n)) = n
         /\ \A i \in 1 .. n : /\ Wrap(s + i - 1) \in Slots
                              /\ Window(d, s, n)[i] = d[Wrap(s + i - 1)]
<1>1. n \in Nat /\ \A i \in 1 .. n : Wrap(s + i - 1) \in Slots
  BY RingBufferAssumption DEF Slots, Wrap
<1>2. /\ Window(d, s, n) \in [1 .. n -> Held]
      /\ \A i \in 1 .. n : Window(d, s, n)[i] = d[Wrap(s + i - 1)]
  BY <1>1 DEF Window
<1>3. Window(d, s, n) \in Seq(Held)
  BY <1>1, <1>2, SeqDef, SMT
<1>4. Len(Window(d, s, n)) = n
  BY <1>2, <1>3, LenProperties
<1>5. QED
  BY <1>1, <1>2, <1>3, <1>4

LEMMA WindowTail ==
  ASSUME NEW d \in [Slots -> Held], NEW s \in Slots, NEW n \in 1 .. Capacity
  PROVE  Tail(Window(d, s, n)) = Window(d, Wrap(s + 1), n - 1)
<1> DEFINE w == Window(d, s, n)
           v == Window(d, Wrap(s + 1), n - 1)
<1>1. Wrap(s + 1) \in Slots /\ n - 1 \in 0 .. Capacity
  BY RingBufferAssumption DEF Slots, Wrap
<1>2. /\ w \in Seq(Held) /\ Len(w) = n /\ w # << >>
      /\ \A i \in 1 .. n : w[i] = d[Wrap(s + i - 1)]
  BY RingBufferAssumption, WindowType, EmptySeq
<1>3. /\ v \in Seq(Held) /\ Len(v) = n - 1
      /\ \A i \in 1 .. n - 1 : v[i] = d[Wrap(Wrap(s + 1) + i - 1)]
  BY <1>1, RingBufferAssumption, WindowType
<1>. HIDE DEF w, v
<1>4. /\ Tail(w) \in Seq(Held) /\ Len(Tail(w)) = n - 1
      /\ \A i \in 1 .. n - 1 : Tail(w)[i] = w[i + 1]
  BY <1>2, HeadTailProperties
<1>5. \A i \in 1 .. n - 1 : Wrap(Wrap(s + 1) + i - 1) = Wrap(s + (i + 1) - 1)
  BY RingBufferAssumption DEF Slots, Wrap
<1>6. \A i \in 1 .. Len(Tail(w)) : Tail(w)[i] = v[i]
  BY <1>2, <1>3, <1>4, <1>5, RingBufferAssumption
<1>7. Tail(w) = v
  BY <1>3, <1>4, <1>6, SeqEqual
<1>8. QED
  BY <1>7 DEF w, v

LEMMA WindowFront ==
  ASSUME NEW d \in [Slots -> Held], NEW s \in Slots, NEW n \in 1 .. Capacity
  PROVE  SubSeq(Window(d, s, n), 1, n - 1) = Window(d, s, n - 1)
<1> DEFINE w == Window(d, s, n)
           v == Window(d, s, n - 1)
<1>1. /\ w \in Seq(Held) /\ Len(w) = n
      /\ \A i \in 1 .. n : w[i] = d[Wrap(s + i - 1)] /\ w[i] \in Held
  BY RingBufferAssumption, WindowType, ElementOfSeq
<1>2. /\ v \in Seq(Held) /\ Len(v) = n - 1
      /\ \A i \in 1 .. n - 1 : v[i] = d[Wrap(s + i - 1)]
  BY RingBufferAssumption, WindowType
<1>. HIDE DEF w, v
<1>3. /\ SubSeq(w, 1, n - 1) \in Seq(Held) /\ Len(SubSeq(w, 1, n - 1)) = n - 1
      /\ \A i \in 1 .. n - 1 : SubSeq(w, 1, n - 1)[i] = w[i]
  BY <1>1, SubSeqProperties
<1>4. \A i \in 1 .. n - 1 : i \in 1 .. n
  BY RingBufferAssumption
<1>5. \A i \in 1 .. n - 1 : SubSeq(w, 1, n - 1)[i] = v[i]
  BY <1>1, <1>2, <1>3, <1>4
<1>9. SubSeq(w, 1, n - 1) = v
  BY <1>2, <1>3, <1>5, SeqEqual
<1>10. QED
  BY <1>9 DEF w, v

LEMMA WindowAppend ==
  ASSUME NEW d \in [Slots -> Held], NEW s \in Slots,
         NEW n \in 0 .. (Capacity - 1)
  PROVE  Append(Window(d, s, n), d[Wrap(s + n)]) = Window(d, s, n + 1)
<1> DEFINE w == Window(d, s, n)
           v == Window(d, s, n + 1)
           x == d[Wrap(s + n)]
<1>1. Wrap(s + n) \in Slots /\ x \in Held
  BY RingBufferAssumption DEF Slots, Wrap
<1>2. /\ w \in Seq(Held) /\ Len(w) = n
      /\ \A i \in 1 .. n : w[i] = d[Wrap(s + i - 1)]
  BY RingBufferAssumption, WindowType
<1>3. /\ v \in Seq(Held) /\ Len(v) = n + 1
      /\ \A i \in 1 .. n + 1 : v[i] = d[Wrap(s + i - 1)]
  <2>1. n + 1 \in 0 .. Capacity
    BY RingBufferAssumption
  <2>2. QED
    BY <2>1, WindowType
<1>4. v[n + 1] = x
  BY <1>3
<1>. HIDE DEF w, v, x
<1>5. /\ Append(w, x) \in Seq(Held) /\ Len(Append(w, x)) = n + 1
      /\ \A i \in 1 .. n : Append(w, x)[i] = w[i]
      /\ Append(w, x)[n + 1] = x
  BY <1>1, <1>2, AppendProperties
<1>6. Append(w, x) = v
  BY <1>2, <1>3, <1>4, <1>5, SeqEqual
<1>7. QED
  BY <1>6 DEF w, v, x

LEMMA WindowCons ==
  ASSUME NEW d \in [Slots -> Held], NEW s \in Slots, NEW n \in 1 .. Capacity,
         NEW x \in Held
  PROVE  <<x>> \o Window(d, Wrap(s + 1), n - 1) = Window([d EXCEPT ![s] = x], s, n)
<1> DEFINE w == Window(d, Wrap(s + 1), n - 1)
           e == [d EXCEPT ![s] = x]
           v == Window(e, s, n)
<1>1. Wrap(s + 1) \in Slots /\ n - 1 \in 0 .. Capacity /\ e \in [Slots -> Held]
  BY RingBufferAssumption DEF Slots, Wrap
<1>2. /\ w \in Seq(Held) /\ Len(w) = n - 1
      /\ \A i \in 1 .. n - 1 : w[i] = d[Wrap(Wrap(s + 1) + i - 1)]
  BY <1>1, RingBufferAssumption, WindowType
<1>3. /\ v \in Seq(Held) /\ Len(v) = n
      /\ \A i \in 1 .. n : v[i] = e[Wrap(s + i - 1)]
  <2>1. n \in 0 .. Capacity
    BY RingBufferAssumption
  <2>. HIDE DEF e
  <2>2. QED
    BY <1>1, <2>1, WindowType
<1>4. /\ Wrap(s + 1 - 1) = s /\ s \in Slots
      /\ \A i \in 2 .. n : /\ Wrap(s + i - 1) \in Slots \ {s}
                           /\ Wrap(s + i - 1) = Wrap(Wrap(s + 1) + (i - 1) - 1)
  BY RingBufferAssumption DEF Slots, Wrap
<1>5. e[s] = x /\ \A i \in Slots \ {s} : e[i] = d[i]
  OBVIOUS
<1>. HIDE DEF w, v, e
<1>6. /\ <<x>> \in Seq(Held) /\ Len(<<x>>) = 1 /\ <<x>>[1] = x
  OBVIOUS
<1>7. /\ <<x>> \o w \in Seq(Held) /\ Len(<<x>> \o w) = n
      /\ \A i \in 1 .. n : (<<x>> \o w)[i] = IF i <= 1 THEN x ELSE w[i - 1]
  BY <1>2, <1>6, ConcatProperties
<1>8. ASSUME NEW i \in 1 .. n PROVE (<<x>> \o w)[i] = v[i]
  <2>1. CASE i = 1
    BY <2>1, <1>3, <1>4, <1>5, <1>7, RingBufferAssumption
  <2>2. CASE i # 1
    <3>1. i \in 2 .. n /\ i - 1 \in 1 .. n - 1 /\ ~(i <= 1)
      BY <2>2, RingBufferAssumption
    <3>2. (<<x>> \o w)[i] = d[Wrap(Wrap(s + 1) + (i - 1) - 1)]
      BY <3>1, <1>2, <1>7
    <3>3. v[i] = d[Wrap(s + i - 1)]
      BY <3>1, <1>3, <1>4, <1>5
    <3>4. QED
      BY <3>1, <3>2, <3>3, <1>4
  <2>3. QED
    BY <2>1, <2>2
<1>9. <<x>> \o w = v
  BY <1>3, <1>7, <1>8, SeqEqual
<1>10. QED
  BY <1>9 DEF w, v, e

-----------------------------------------------------------------------------
USE RingBufferAssumption DEF Levels, Slots

(* A step of level l.                                                      *)
Acts(l) ==
  Step(l) \/ \E op \in Ops, arg \in Items \cup {NoItem} : Call(l, op, arg)

LEMMA Alone ==
  ASSUME RInv, NEW l \in Levels, Acts(l)
  PROVE  /\ pc' = [pc EXCEPT ![l] = pc'[l]]
         /\ frame' = [frame EXCEPT ![l] = frame'[l]]
         /\ \A m \in Levels : m # l => pc[m] \notin Critical
<1> USE DEF RInv, IInv, At, Goto, Running, buffer, irq
<1>1. CASE Step(l)
  <2>1. Running(l) /\ pc[l] # "idle"
    BY <1>1
       DEF Step, SavePrimask, DisableIrq, Check, PushFrontMove, PopFrontMove,
           Index, Write, Grow, Read, Shrink, ClearStart, ClearSize, Exit,
           Query, QueryReturn
  <2>2. \A m \in Levels : m # l => pc[m] \notin Critical
    BY <2>1, OnlyRunning
  <2>3. pc' = [pc EXCEPT ![l] = pc'[l]] /\ frame' = [frame EXCEPT ![l] = frame'[l]]
    BY <1>1
       DEF TypeOK, Step, SavePrimask, DisableIrq, Check, PushFrontMove,
           PopFrontMove, Index, Write, Grow, Read, Shrink, ClearStart,
           ClearSize, Exit, Query, QueryReturn
  <2>4. QED
    BY <2>2, <2>3
<1>2. CASE \E op \in Ops, arg \in Items \cup {NoItem} : Call(l, op, arg)
  BY <1>2 DEF TypeOK, Call, Excluded, Critical
<1>3. QED
  BY <1>1, <1>2 DEF Acts

LEMMA OthersKept ==
  ASSUME RInv, NEW l \in Levels, Acts(l)
  PROVE  Calls' = [Calls EXCEPT ![l] = Calls'[l]]
<1>1. ASSUME NEW m \in Levels, m # l PROVE Calls'[m] = Calls[m]
  <2>1. pc'[m] = pc[m] /\ frame'[m] = frame[m] /\ pc[m] \notin Critical
    BY <1>1, Alone DEF RInv, IInv, TypeOK
  <2>2. pc[m] = "queried" => frame[m].op = "size"
    BY DEF RInv, InHand
  <2>3. "size" \notin Peeks
    BY DEF Peeks
  <2>4. QED
    BY <2>1, <2>2, <2>3 DEF Calls, InEffect, Critical
<1>2. /\ Calls = [m \in Levels |-> Calls[m]]
      /\ Calls' = [m \in Levels |-> Calls'[m]]
  BY DEF Calls
<1>. HIDE DEF Levels
<1>3. QED
  BY <1>1, <1>2

(* What the callers see of the buffer when no other level is in a critical *)
(* section: before and after a step of level l.                            *)
LEMMA ViewBefore ==
  ASSUME RInv, NEW l \in Levels, Acts(l)
  PROVE  /\ First = IF pc[l] \in {"grow", "write"} /\ frame[l].op = "push_front"
                    THEN Wrap(start + 1) ELSE start
         /\ Count = IF pc[l] = "empty" THEN 0
                    ELSE IF \/ pc[l] = "write" /\ frame[l].op = "push_front"
                            \/ pc[l] = "shrink" /\ frame[l].op = "pop_front"
                         THEN size - 1 ELSE size
         /\ Contents = Window(data, First, Count)
<1>1. \A m \in Levels : m # l => pc[m] \notin Critical
  BY Alone
<1>2. QED
  BY <1>1
     DEF First, Count, HalfPushed, HalfPopped, HalfCleared, Critical,
         Contents, Window

LEMMA ViewAfter ==
  ASSUME RInv, NEW l \in Levels, Acts(l)
  PROVE  /\ First' = IF pc'[l] \in {"grow", "write"} /\ frame'[l].op = "push_front"
                     THEN Wrap(start' + 1) ELSE start'
         /\ Count' = IF pc'[l] = "empty" THEN 0
                     ELSE IF \/ pc'[l] = "write" /\ frame'[l].op = "push_front"
                             \/ pc'[l] = "shrink" /\ frame'[l].op = "pop_front"
                          THEN size' - 1 ELSE size'
         /\ Contents' = Window(data', First', Count')
<1>1. \A m \in Levels : m # l => pc'[m] \notin Critical
  BY Alone DEF RInv, IInv, TypeOK
<1>2. QED
  BY <1>1
     DEF First, Count, HalfPushed, HalfPopped, HalfCleared, Critical,
         Contents, Window, Wrap

LEMMA StepOfDeque ==
  ASSUME RInv, NEW l \in Levels, Acts(l)
  PROVE  /\ Calls'[l] = Calls[l] /\ Contents' = Contents => UNCHANGED D!dvars
         /\ (/\ Calls[l] = D!Idle
             /\ \E op \in Ops, arg \in Items \cup {NoItem} :
                  Calls'[l] = D!Pending(op, arg)
             /\ Contents' = Contents) => D!Invoke(l)
         /\ (/\ Calls[l].phase = "done" /\ Calls'[l] = D!Idle
             /\ Contents' = Contents) => D!Return(l)
<1>1. /\ Calls' = [Calls EXCEPT ![l] = Calls'[l]]
      /\ Calls = [m \in Levels |-> Calls[m]]
  BY OthersKept DEF Calls
<1>. HIDE DEF Levels
<1>2. Calls'[l] = Calls[l] => Calls' = Calls
  BY <1>1
<1>3. Calls'[l] = Calls[l] /\ Contents' = Contents => UNCHANGED D!dvars
  BY <1>2 DEF D!dvars
<1>4. D!Ops = Ops
  BY DEF Ops, Pushes, Pops, Reads, Peeks, D!Ops, D!Pushes, D!Pops, D!Reads,
         D!Peeks
<1>5. ASSUME Calls[l] = D!Idle, Contents' = Contents,
             NEW op \in Ops, NEW arg \in Items \cup {NoItem},
             Calls'[l] = D!Pending(op, arg)
      PROVE  D!Invoke(l)
  BY <1>1, <1>4, <1>5 DEF D!Invoke
<1>6. ASSUME Calls[l].phase = "done", Calls'[l] = D!Idle, Contents' = Contents
      PROVE  D!Return(l)
  BY <1>1, <1>6 DEF D!Return
<1>7. QED
  BY <1>3, <1>5, <1>6

LEMMA Vocabulary ==
  /\ D!Pushes = Pushes /\ D!Pops = Pops /\ D!Reads = Reads
  /\ D!Peeks = Peeks /\ D!FrontOps = FrontOps
  BY DEF Pushes, Pops, Reads, Peeks, FrontOps,
         D!Pushes, D!Pops, D!Reads, D!Peeks, D!FrontOps

(* The window the callers see is a sequence of Count items.                *)
LEMMA SeenItems ==
  ASSUME RInv, NEW l \in Levels, Acts(l)
  PROVE  /\ First \in Slots /\ Count \in 0 .. Capacity
         /\ Contents \in Seq(Held) /\ Len(Contents) = Count
         /\ \A i \in 1 .. Count : Contents[i] = data[Wrap(First + i - 1)]
<1>1. First \in Slots /\ Count \in 0 .. Capacity
  <2>1. start \in Slots /\ size \in 0 .. Capacity /\ Flow(l) /\ InHand(l)
    BY DEF RInv, IInv, TypeOK
  <2>2. QED
    BY <2>1, ViewBefore DEF Flow, InHand, Wrap
<1>2. data \in [Slots -> Held] /\ Contents = Window(data, First, Count)
  BY ViewBefore DEF RInv, IInv, TypeOK, Held
<1>. HIDE DEF Slots
<1>3. QED
  BY <1>1, <1>2, WindowType

(* A call takes effect when its record is the one of the deque's operation *)
(* and the items are what that operation leaves of them.                   *)
LEMMA EffectOfDeque ==
  ASSUME RInv, NEW l \in Levels, Acts(l), Calls[l].phase = "pending",
         NEW code, code = D!CodeOf(frame[l].op, Count),
         Contents' = IF code = "OK"
                     THEN D!Result(frame[l].op, frame[l].arg, Contents)
                     ELSE Contents,
         Calls'[l] = D!Done(frame[l].op, frame[l].arg, code,
                            IF code = "OK"
                            THEN D!OutOf(frame[l].op, frame[l].arg, Contents)
                            ELSE NoItem,
                            IF frame[l].op = "size" THEN Count ELSE 0)
  PROVE  D!Effect(l)
<1>1. Calls' = [Calls EXCEPT ![l] = Calls'[l]]
  BY OthersKept
<1>2. Calls[l].op = frame[l].op /\ Calls[l].arg = frame[l].arg
  BY DEF Calls
<1>3. Len(Contents) = Count
  BY SeenItems
<1>4. QED
  BY <1>1, <1>2, <1>3 DEF D!Effect

LEMMA PendingRecord ==
  ASSUME NEW op, NEW arg
  PROVE  D!Pending(op, arg) = [phase |-> "pending", op |-> op, arg |-> arg,
                               code |-> "OK", out |-> NoItem, count |-> 0]
<1> DEFINE p == D!Pending(op, arg)
<1>1. DOMAIN p = {"phase", "op", "arg", "code", "out", "count"}
  BY DEF D!Pending, D!Idle
<1>2. /\ p.phase = "pending" /\ p.op = op /\ p.arg = arg
      /\ p.code = "OK" /\ p.out = NoItem /\ p.count = 0
  BY DEF D!Pending, D!Idle
<1>3. p = [x \in DOMAIN p |-> p[x]]
  BY DEF D!Pending, D!Idle
<1>. HIDE DEF p
<1>4. p = [phase |-> "pending", op |-> op, arg |-> arg,
           code |-> "OK", out |-> NoItem, count |-> 0]
  BY <1>1, <1>2, <1>3
<1>5. QED
  BY <1>4 DEF p

-----------------------------------------------------------------------------
LEMMA CallRefines ==
  ASSUME RInv, RInv', NEW l \in Levels, NEW op \in Ops,
         NEW arg \in Items \cup {NoItem}, Call(l, op, arg)
  PROVE  D!Invoke(l)
<1> USE DEF Call, At, Goto, buffer, irq
<1>1. Acts(l)
  BY DEF Acts
<1>2. Contents' = Contents
  <2>1. pc'[l] \in {"query", "enter", "check"} /\ pc[l] = "idle"
    BY DEF RInv, IInv, TypeOK, Entry
  <2>2. QED
    BY <1>1, <2>1, ViewBefore, ViewAfter
<1>3. Calls[l] = D!Idle
  <2>1. pc[l] = "idle" /\ frame[l] = NoFrame
    BY DEF RInv, InHand
  <2>2. QED
    BY <2>1 DEF Calls, D!Idle, NoFrame, FrameOf, InEffect
<1>4. Calls'[l] = D!Pending(op, arg)
  <2>1. pc'[l] \in {"query", "enter", "check"} /\ frame'[l] = FrameOf(op, arg)
    BY DEF RInv, IInv, TypeOK, Entry
  <2>2. D!Pending(op, arg) = [phase |-> "pending", op |-> op, arg |-> arg,
                              code |-> "OK", out |-> NoItem, count |-> 0]
    BY PendingRecord
  <2>3. QED
    BY <2>1, <2>2 DEF Calls, FrameOf, InEffect
<1>5. QED
  BY <1>1, <1>2, <1>3, <1>4, StepOfDeque

LEMMA ReturnRefines ==
  ASSUME RInv, RInv', NEW l \in Levels, Exit(l) \/ QueryReturn(l)
  PROVE  D!Return(l)
<1> USE DEF Exit, QueryReturn, At, Goto, buffer, irq
<1>1. Acts(l)
  BY DEF Acts, Step
<1>2. pc[l] \in {"exit", "queried"} /\ pc'[l] = "idle" /\ frame'[l] = NoFrame
  BY DEF RInv, IInv, TypeOK
<1>3. Contents' = Contents
  BY <1>1, <1>2, ViewBefore, ViewAfter
<1>4. Calls[l].phase = "done" /\ Calls'[l] = D!Idle
  BY <1>2 DEF Calls, InEffect, D!Idle, NoFrame, FrameOf
<1>5. QED
  BY <1>1, <1>3, <1>4, StepOfDeque

(* The statements at which nothing changes for the callers.                *)
LEMMA StutterRefines ==
  ASSUME RInv, RInv', NEW l \in Levels,
         \/ SavePrimask(l) \/ DisableIrq(l)
         \/ Check(l) /\ CheckCode(frame[l].op) = "OK"
         \/ PushFrontMove(l)
         \/ Index(l) /\ frame[l].op \notin Peeks
         \/ Write(l) /\ frame[l].op # "push_front"
         \/ Grow(l) /\ frame[l].op = "push_front"
         \/ Read(l) /\ frame[l].op \notin Reads
         \/ Shrink(l) /\ frame[l].op = "pop_front"
         \/ ClearSize(l)
  PROVE  UNCHANGED D!dvars
<1> USE DEF At, Goto, buffer, irq
<1>1. Acts(l)
  BY DEF Acts, Step
<1>2. /\ TypeOK /\ TypeOK' /\ frame[l] \in Frames /\ Flow(l) /\ InHand(l)
      /\ pc' = [pc EXCEPT ![l] = pc'[l]] /\ frame' = [frame EXCEPT ![l] = frame'[l]]
  BY <1>1, Alone DEF RInv, IInv, TypeOK
<1>3. Calls'[l] = Calls[l]
  BY <1>2
     DEF SavePrimask, DisableIrq, Check, PushFrontMove, Index, Write, Grow,
         Read, Shrink, ClearSize, Calls, InEffect, TypeOK, Frames,
         FirstStatement, InHand, Flow, Pushes, Pops, Reads, Peeks, FrontOps,
         Ops
<1>4. CASE ~ Write(l)
  <2>1. data' = data
    BY <1>4
       DEF SavePrimask, DisableIrq, Check, PushFrontMove, Index, Write, Grow,
           Read, Shrink, ClearSize
  <2>2. First' = First /\ Count' = Count
    BY <1>1, <1>2, <1>4, ViewBefore, ViewAfter
       DEF SavePrimask, DisableIrq, Check, PushFrontMove, Index, Grow, Read,
           Shrink, ClearSize, TypeOK, Frames, FirstStatement, InHand, Flow,
           Wrap, Pushes, Pops, Reads, Peeks, FrontOps, Ops
  <2>3. QED
    BY <1>1, <1>3, <2>1, <2>2, ViewBefore, ViewAfter, StepOfDeque
<1>5. CASE Write(l) /\ frame[l].op # "push_front"
  <2>1. /\ start' = start /\ size' = size /\ size < Capacity
        /\ data' = [data EXCEPT ![Wrap(start + size)] = frame[l].arg]
        /\ pc[l] = "write" /\ pc'[l] = "grow" /\ frame'[l] = frame[l]
    BY <1>2, <1>5 DEF Write, SlotOf, FrontOps, Flow, InHand, TypeOK
  <2>2. First = start /\ First' = start /\ Count = size /\ Count' = size
    BY <1>1, <1>5, <2>1, ViewBefore, ViewAfter
  <2>3. \A i \in 1 .. size : Wrap(start + i - 1) # Wrap(start + size)
    BY <1>2, <2>1 DEF TypeOK, Wrap
  <2>4. Window(data', start, size) = Window(data, start, size)
    BY <1>2, <2>1, <2>3 DEF Window, TypeOK, Wrap
  <2>5. QED
    BY <1>1, <1>3, <2>2, <2>4, ViewBefore, ViewAfter, StepOfDeque
<1>6. QED
  BY <1>4, <1>5
     DEF Write, SavePrimask, DisableIrq, Check, PushFrontMove, Index, Grow,
         Read, Shrink, ClearSize

(* The statements at which a call takes effect.                            *)
LEMMA CheckRefines ==
  ASSUME RInv, RInv', NEW l \in Levels, Check(l), CheckCode(frame[l].op) # "OK"
  PROVE  D!Effect(l)
<1> USE DEF At, Goto, buffer, irq
<1>1. Acts(l)
  BY DEF Acts, Step
<1>2. /\ TypeOK /\ frame[l] \in Frames /\ InHand(l)
      /\ pc[l] = "check" /\ pc'[l] = "exit"
      /\ frame'[l] = [frame[l] EXCEPT !.code = CheckCode(frame[l].op)]
      /\ UNCHANGED <<start, size, data>>
  BY DEF RInv, IInv, TypeOK, Check
<1>3. Contents' = Contents /\ Count = size
  BY <1>1, <1>2, ViewBefore, ViewAfter
<1>4. D!CodeOf(frame[l].op, Count) = CheckCode(frame[l].op)
  BY <1>2, <1>3, Vocabulary DEF CheckCode, D!CodeOf, IsFull, IsEmpty, TypeOK
<1>5. Calls'[l] = D!Done(frame[l].op, frame[l].arg, CheckCode(frame[l].op), NoItem, 0)
  BY <1>2 DEF Calls, InEffect, D!Done, Frames, InHand
<1>6. Calls[l].phase = "pending" /\ frame[l].op # "size"
  BY <1>2 DEF Calls, InEffect, InHand
<1>7. QED
  BY <1>1, <1>3, <1>4, <1>5, <1>6, EffectOfDeque

LEMMA QueryRefines ==
  ASSUME RInv, RInv', NEW l \in Levels, Query(l)
  PROVE  D!Effect(l)
<1> USE DEF At, Goto, buffer, irq
<1>1. Acts(l)
  BY DEF Acts, Step
<1>2. /\ TypeOK /\ frame[l] \in Frames /\ InHand(l)
      /\ pc[l] = "query" /\ pc'[l] = "queried" /\ frame[l].op = "size"
      /\ frame'[l] = [frame[l] EXCEPT !.cur = size]
      /\ UNCHANGED <<start, size, data>>
  BY DEF RInv, IInv, TypeOK, Query, InHand
<1>3. Contents' = Contents /\ Count = size
  BY <1>1, <1>2, ViewBefore, ViewAfter
<1>4. /\ D!CodeOf("size", Count) = "OK"
      /\ D!Result("size", frame[l].arg, Contents) = Contents
      /\ D!OutOf("size", frame[l].arg, Contents) = NoItem
  BY Vocabulary DEF D!CodeOf, D!Result, D!OutOf, Pushes, Pops, Reads, Peeks
<1>5. Calls'[l] = D!Done("size", frame[l].arg, "OK", NoItem, Count)
  BY <1>2, <1>3 DEF Calls, InEffect, D!Done, Frames, InHand, Peeks
<1>6. Calls[l].phase = "pending"
  BY <1>2 DEF Calls, InEffect
<1>7. QED
  BY <1>1, <1>2, <1>3, <1>4, <1>5, <1>6, EffectOfDeque

LEMMA IndexRefines ==
  ASSUME RInv, RInv', NEW l \in Levels, Index(l), frame[l].op \in Peeks
  PROVE  D!Effect(l)
<1> USE DEF At, Goto, buffer, irq
<1> DEFINE op == frame[l].op
<1>1. Acts(l)
  BY DEF Acts, Step
<1>2. /\ TypeOK /\ frame[l] \in Frames /\ InHand(l) /\ Flow(l)
      /\ pc[l] = "index" /\ pc'[l] = "exit" /\ op \in {"peek_front", "peek_back"}
      /\ frame'[l] = [frame[l] EXCEPT !.cur = IndexFor(op)]
      /\ UNCHANGED <<start, size, data>> /\ size > 0
  BY DEF RInv, IInv, TypeOK, Index, Peeks, Flow
<1>3. Contents' = Contents /\ Count = size /\ First = start
  BY <1>1, <1>2, ViewBefore, ViewAfter
<1>4. /\ D!CodeOf(op, Count) = "OK"
      /\ D!Result(op, frame[l].arg, Contents) = Contents
  BY <1>2, <1>3, Vocabulary
     DEF D!CodeOf, D!Result, Pushes, Pops, Reads, Peeks, TypeOK
<1>5. D!OutOf(op, frame[l].arg, Contents) = data[IndexFor(op)]
  <2>1. 1 \in 1 .. size /\ size \in 1 .. size /\ Wrap(start + 1 - 1) = start
    BY <1>2 DEF TypeOK, Wrap
  <2>2. /\ Len(Contents) = size
        /\ Contents[1] = data[Wrap(start + 1 - 1)]
        /\ Contents[size] = data[Wrap(start + size - 1)]
    BY <1>1, <1>3, <2>1, SeenItems
  <2>3. QED
    BY <1>2, <2>1, <2>2, Vocabulary DEF D!OutOf, IndexFor, Peeks, FrontOps
<1>6. Calls'[l] = D!Done(op, frame[l].arg, "OK", data[IndexFor(op)], 0)
  BY <1>2 DEF Calls, InEffect, D!Done, Frames, InHand, Peeks
<1>7. Calls[l].phase = "pending"
  BY <1>2 DEF Calls, InEffect
<1>8. QED
  BY <1>1, <1>2, <1>3, <1>4, <1>5, <1>6, <1>7, EffectOfDeque

LEMMA ReadRefines ==
  ASSUME RInv, RInv', NEW l \in Levels, Read(l), frame[l].op \in Reads
  PROVE  D!Effect(l)
<1> USE DEF At, Goto, buffer, irq
<1> DEFINE op == frame[l].op
           slot == SlotOf(frame[l])
<1>1. Acts(l)
  BY DEF Acts, Step
<1>2. /\ TypeOK /\ frame[l] \in Frames /\ InHand(l) /\ Flow(l)
      /\ pc[l] = "read" /\ op \in {"front", "back"} /\ size > 0
      /\ UNCHANGED <<start, size, data>>
  BY DEF RInv, IInv, TypeOK, Read, Reads, Flow
<1>3. /\ pc'[l] = "exit" /\ frame[l].arg # NoItem
      /\ frame'[l] = [frame[l] EXCEPT !.out = data[slot]]
      /\ slot = IF op = "front" THEN start ELSE Wrap(start + size - 1)
  BY <1>2 DEF TypeOK, Read, InHand, SlotOf, FrontOps, Reads
<1>4. Contents' = Contents /\ Count = size /\ First = start
  BY <1>1, <1>2, <1>3, ViewBefore, ViewAfter
<1>5. /\ D!CodeOf(op, Count) = "OK"
      /\ D!Result(op, frame[l].arg, Contents) = Contents
  BY <1>2, <1>4, Vocabulary
     DEF D!CodeOf, D!Result, Pushes, Pops, Reads, Peeks, TypeOK
<1>6. D!OutOf(op, frame[l].arg, Contents) = data[slot]
  <2>1. 1 \in 1 .. size /\ size \in 1 .. size /\ Wrap(start + 1 - 1) = start
    BY <1>2 DEF TypeOK, Wrap
  <2>2. /\ Len(Contents) = size
        /\ Contents[1] = data[Wrap(start + 1 - 1)]
        /\ Contents[size] = data[Wrap(start + size - 1)]
    BY <1>1, <1>4, <2>1, SeenItems
  <2>3. QED
    BY <1>2, <1>3, <2>1, <2>2, Vocabulary
       DEF D!OutOf, Reads, Peeks, Pops, FrontOps
<1>7. Calls'[l] = D!Done(op, frame[l].arg, "OK", data[slot], 0)
  BY <1>2, <1>3 DEF Calls, InEffect, D!Done, Frames, InHand, Peeks
<1>8. Calls[l].phase = "pending"
  BY <1>2 DEF Calls, InEffect
<1>9. QED
  BY <1>1, <1>2, <1>4, <1>5, <1>6, <1>7, <1>8, EffectOfDeque

LEMMA ClearRefines ==
  ASSUME RInv, RInv', NEW l \in Levels, ClearStart(l)
  PROVE  D!Effect(l)
<1> USE DEF At, Goto, buffer, irq
<1>1. Acts(l)
  BY DEF Acts, Step
<1>2. /\ TypeOK /\ TypeOK' /\ frame[l] \in Frames /\ InHand(l)
      /\ pc[l] = "reset" /\ pc'[l] = "empty" /\ frame[l].op = "clear"
      /\ frame'[l] = frame[l]
  BY DEF RInv, IInv, TypeOK, ClearStart, InHand
<1>3. Contents' = << >>
  <2>1. Count' = 0 /\ Contents' = Window(data', First', Count')
    BY <1>1, <1>2, ViewAfter
  <2>2. QED
    BY <2>1 DEF Window
<1>4. /\ D!CodeOf("clear", Count) = "OK"
      /\ D!Result("clear", frame[l].arg, Contents) = << >>
      /\ D!OutOf("clear", frame[l].arg, Contents) = NoItem
  BY Vocabulary DEF D!CodeOf, D!Result, D!OutOf, Pushes, Pops, Reads, Peeks
<1>5. Calls'[l] = D!Done("clear", frame[l].arg, "OK", NoItem, 0)
  BY <1>2, <1>3 DEF Calls, InEffect, D!Done, Frames, InHand, Peeks
<1>6. Calls[l].phase = "pending"
  BY <1>2 DEF Calls, InEffect
<1>7. QED
  BY <1>1, <1>2, <1>3, <1>4, <1>5, <1>6, EffectOfDeque

LEMMA PushFrontRefines ==
  ASSUME RInv, RInv', NEW l \in Levels, Write(l), frame[l].op = "push_front"
  PROVE  D!Effect(l)
<1> USE DEF At, Goto, buffer, irq
<1> DEFINE arg == frame[l].arg
<1>1. Acts(l)
  BY DEF Acts, Step
<1>2. /\ TypeOK /\ frame[l] \in Frames /\ InHand(l)
      /\ pc[l] = "write" /\ pc'[l] = "exit" /\ frame'[l] = frame[l]
      /\ start' = start /\ size' = size /\ size \in 1 .. Capacity
      /\ data' = [data EXCEPT ![start] = arg] /\ arg \in Held
      /\ data \in [Slots -> Held] /\ start \in Slots
  <2>1. TypeOK /\ InHand(l) /\ frame[l] \in Frames
    BY DEF RInv, IInv, TypeOK
  <2>2. pc[l] = "write" /\ size > 0
    BY <2>1 DEF Write, InHand
  <2>3. QED
    BY <2>1, <2>2 DEF TypeOK, Write, SlotOf, FrontOps, Frames, Held
<1>3. /\ First = Wrap(start + 1) /\ Count = size - 1
      /\ First' = start /\ Count' = size
  BY <1>1, <1>2, ViewBefore, ViewAfter
<1>4. Contents' = <<arg>> \o Contents
  <2>1. /\ Contents' = Window([data EXCEPT ![start] = arg], start, size)
        /\ Contents = Window(data, Wrap(start + 1), size - 1)
    BY <1>1, <1>2, <1>3, ViewBefore, ViewAfter
  <2>. HIDE DEF Slots, arg
  <2>2. QED
    BY <1>2, <2>1, WindowCons
<1>5. /\ D!CodeOf("push_front", Count) = "OK"
      /\ D!Result("push_front", arg, Contents) = <<arg>> \o Contents
      /\ D!OutOf("push_front", arg, Contents) = NoItem
  BY <1>2, <1>3, Vocabulary
     DEF D!CodeOf, D!Result, D!OutOf, Pushes, Pops, Reads, Peeks
<1>6. Calls'[l] = D!Done("push_front", arg, "OK", NoItem, 0)
  BY <1>2 DEF Calls, InEffect, D!Done, Frames, InHand, Peeks
<1>7. Calls[l].phase = "pending"
  BY <1>2 DEF Calls, InEffect
<1>8. QED
  BY <1>1, <1>2, <1>4, <1>5, <1>6, <1>7, EffectOfDeque

LEMMA PushBackRefines ==
  ASSUME RInv, RInv', NEW l \in Levels, Grow(l), frame[l].op # "push_front"
  PROVE  D!Effect(l)
<1> USE DEF At, Goto, buffer, irq
<1> DEFINE arg == frame[l].arg
<1>1. Acts(l)
  BY DEF Acts, Step
<1>2. /\ TypeOK /\ frame[l] \in Frames /\ InHand(l) /\ frame[l].op = "push_back"
      /\ pc[l] = "grow" /\ pc'[l] = "exit" /\ frame'[l] = frame[l]
      /\ start' = start /\ size' = size + 1 /\ size \in 0 .. (Capacity - 1)
      /\ data' = data /\ data[Wrap(start + size)] = arg
      /\ data \in [Slots -> Held] /\ start \in Slots
  BY DEF RInv, IInv, TypeOK, Grow, InHand, Flow, Pushes, Held
<1>3. /\ First = start /\ Count = size
      /\ First' = start /\ Count' = size + 1
  BY <1>1, <1>2, ViewBefore, ViewAfter
<1>4. Contents' = Append(Contents, arg)
  <2>. HIDE DEF Slots, arg
  <2>1. QED
    BY <1>1, <1>2, <1>3, ViewBefore, ViewAfter, WindowAppend
<1>5. /\ D!CodeOf("push_back", Count) = "OK"
      /\ D!Result("push_back", arg, Contents) = Append(Contents, arg)
      /\ D!OutOf("push_back", arg, Contents) = NoItem
  BY <1>2, <1>3, Vocabulary
     DEF D!CodeOf, D!Result, D!OutOf, Pushes, Pops, Reads, Peeks
<1>6. Calls'[l] = D!Done("push_back", arg, "OK", NoItem, 0)
  BY <1>2 DEF Calls, InEffect, D!Done, Frames, InHand, Peeks
<1>7. Calls[l].phase = "pending"
  BY <1>2 DEF Calls, InEffect
<1>8. QED
  BY <1>1, <1>2, <1>4, <1>5, <1>6, <1>7, EffectOfDeque

LEMMA PopFrontRefines ==
  ASSUME RInv, RInv', NEW l \in Levels, PopFrontMove(l)
  PROVE  D!Effect(l)
<1> USE DEF At, Goto, buffer, irq
<1> DEFINE arg == frame[l].arg
<1>1. Acts(l)
  BY DEF Acts, Step
<1>2. /\ TypeOK /\ frame[l] \in Frames /\ InHand(l) /\ frame[l].op = "pop_front"
      /\ pc[l] = "move" /\ pc'[l] = "shrink" /\ frame'[l] = frame[l]
      /\ start' = Wrap(start + 1) /\ size' = size /\ size \in 1 .. Capacity
      /\ data' = data /\ data \in [Slots -> Held] /\ start \in Slots
  <2>1. TypeOK /\ InHand(l) /\ frame[l] \in Frames /\ Flow(l)
    BY DEF RInv, IInv, TypeOK
  <2>2. start' = Wrap(start + 1)
    BY <2>1 DEF PopFrontMove, Wrap, TypeOK
  <2>3. QED
    BY <2>1, <2>2 DEF TypeOK, PopFrontMove, Flow, Held
<1>3. /\ First = start /\ Count = size
      /\ First' = Wrap(start + 1) /\ Count' = size - 1
  BY <1>1, <1>2, ViewBefore, ViewAfter
<1>4. Contents' = Tail(Contents)
  <2>1. /\ Contents' = Window(data, Wrap(start + 1), size - 1)
        /\ Contents = Window(data, start, size)
    BY <1>1, <1>2, <1>3, ViewBefore, ViewAfter
  <2>. HIDE DEF Slots
  <2>2. QED
    BY <1>2, <2>1, WindowTail
<1>5. Len(Contents) = size /\ Contents[1] = data[start]
  <2>1. 1 \in 1 .. size /\ Wrap(start + 1 - 1) = start
    BY <1>2 DEF Wrap
  <2>2. QED
    BY <1>1, <1>3, <2>1, SeenItems
<1>6. /\ D!CodeOf("pop_front", Count) = "OK"
      /\ D!Result("pop_front", arg, Contents) = Tail(Contents)
      /\ D!OutOf("pop_front", arg, Contents) =
           IF arg = NoItem THEN NoItem ELSE data[start]
  BY <1>2, <1>3, <1>5, Vocabulary
     DEF D!CodeOf, D!Result, D!OutOf, Pushes, Pops, Reads, Peeks, FrontOps
<1>7. Calls'[l] = D!Done("pop_front", arg, "OK",
                         IF arg = NoItem THEN NoItem ELSE data[start], 0)
  BY <1>2 DEF Calls, InEffect, D!Done, Frames, InHand, Peeks
<1>8. Calls[l].phase = "pending"
  BY <1>2 DEF Calls, InEffect
<1>9. QED
  BY <1>1, <1>2, <1>4, <1>6, <1>7, <1>8, EffectOfDeque

LEMMA PopBackRefines ==
  ASSUME RInv, RInv', NEW l \in Levels, Shrink(l), frame[l].op # "pop_front"
  PROVE  D!Effect(l)
<1> USE DEF At, Goto, buffer, irq
<1> DEFINE arg == frame[l].arg
           last == data[Wrap(start + size - 1)]
<1>1. Acts(l)
  BY DEF Acts, Step
<1>2. /\ TypeOK /\ frame[l] \in Frames /\ InHand(l) /\ frame[l].op = "pop_back"
      /\ pc[l] = "shrink" /\ pc'[l] = "exit" /\ frame'[l] = frame[l]
      /\ start' = start /\ size' = size - 1 /\ size \in 1 .. Capacity
      /\ data' = data /\ data \in [Slots -> Held] /\ start \in Slots
  <2>1. TypeOK /\ InHand(l) /\ frame[l] \in Frames /\ Flow(l)
    BY DEF RInv, IInv, TypeOK
  <2>2. QED
    BY <2>1 DEF TypeOK, Shrink, Flow, Held, Pops
<1>3. /\ First = start /\ Count = size
      /\ First' = start /\ Count' = size - 1
  BY <1>1, <1>2, ViewBefore, ViewAfter
<1>4. Contents' = SubSeq(Contents, 1, size - 1)
  <2>1. /\ Contents' = Window(data, start, size - 1)
        /\ Contents = Window(data, start, size)
    BY <1>1, <1>2, <1>3, ViewBefore, ViewAfter
  <2>. HIDE DEF Slots
  <2>2. QED
    BY <1>2, <2>1, WindowFront
<1>5. Len(Contents) = size /\ Contents[size] = last
  <2>1. size \in 1 .. size
    BY <1>2
  <2>2. QED
    BY <1>1, <1>3, <2>1, SeenItems
<1>6. /\ D!CodeOf("pop_back", Count) = "OK"
      /\ D!Result("pop_back", arg, Contents) = SubSeq(Contents, 1, size - 1)
      /\ D!OutOf("pop_back", arg, Contents) =
           IF arg = NoItem THEN NoItem ELSE last
  BY <1>2, <1>3, <1>5, Vocabulary
     DEF D!CodeOf, D!Result, D!OutOf, Pushes, Pops, Reads, Peeks, FrontOps
<1>7. Calls'[l] = D!Done("pop_back", arg, "OK",
                         IF arg = NoItem THEN NoItem ELSE last, 0)
  BY <1>2 DEF Calls, InEffect, D!Done, Frames, InHand, Peeks
<1>8. Calls[l].phase = "pending"
  BY <1>2 DEF Calls, InEffect
<1>9. QED
  BY <1>1, <1>2, <1>4, <1>6, <1>7, <1>8, EffectOfDeque

LEMMA MaskStutters ==
  ASSUME RInv, AppMask
  PROVE  UNCHANGED D!dvars
<1>1. UNCHANGED <<start, size, data, pc, frame>>
  BY DEF AppMask, buffer
<1>2. Calls' = Calls /\ Contents' = Contents
  BY <1>1
     DEF Calls, InEffect, Contents, First, Count, HalfPushed, HalfPopped,
         HalfCleared
<1>3. QED
  BY <1>2 DEF D!dvars

-----------------------------------------------------------------------------
LEMMA InitRefines == Init => D!Init
<1> SUFFICES ASSUME Init PROVE D!Init
  OBVIOUS
<1>1. Contents = << >>
  BY DEF Init, Contents, Count, HalfPushed, HalfPopped, HalfCleared
<1>2. Calls = [c \in Levels |-> D!Idle]
  BY DEF Init, Calls, D!Idle, NoFrame, FrameOf, InEffect
<1>3. QED
  BY <1>1, <1>2 DEF D!Init

LEMMA StepRefines ==
  ASSUME RInv, RInv', NEW l \in Levels, Step(l)
  PROVE  D!Invoke(l) \/ D!Effect(l) \/ D!Return(l) \/ UNCHANGED D!dvars
<1>1. CASE Check(l)
  BY <1>1, StutterRefines, CheckRefines
<1>2. CASE Index(l)
  BY <1>2, StutterRefines, IndexRefines
<1>3. CASE Write(l)
  BY <1>3, StutterRefines, PushFrontRefines
<1>4. CASE Grow(l)
  BY <1>4, StutterRefines, PushBackRefines
<1>5. CASE Read(l)
  BY <1>5, StutterRefines, ReadRefines
<1>6. CASE Shrink(l)
  BY <1>6, StutterRefines, PopBackRefines
<1>7. CASE ClearStart(l)
  BY <1>7, ClearRefines
<1>8. CASE PopFrontMove(l)
  BY <1>8, PopFrontRefines
<1>9. CASE Query(l)
  BY <1>9, QueryRefines
<1>10. CASE Exit(l) \/ QueryReturn(l)
  BY <1>10, ReturnRefines
<1>11. CASE SavePrimask(l) \/ DisableIrq(l) \/ PushFrontMove(l) \/ ClearSize(l)
  BY <1>11, StutterRefines
<1>12. QED
  BY <1>1, <1>2, <1>3, <1>4, <1>5, <1>6, <1>7, <1>8, <1>9, <1>10, <1>11 DEF Step

LEMMA NextRefines == RInv /\ RInv' /\ [Next]_vars => [D!Next]_(D!dvars)
<1> SUFFICES ASSUME RInv, RInv', [Next]_vars PROVE [D!Next]_(D!dvars)
  OBVIOUS
<1>1. CASE AppMask
  BY <1>1, MaskStutters
<1>2. ASSUME NEW l \in Levels, NEW op \in Ops, NEW arg \in Items \cup {NoItem},
             Call(l, op, arg)
      PROVE  D!Next
  BY <1>2, CallRefines DEF D!Next
<1>3. ASSUME NEW l \in Levels, Step(l) PROVE [D!Next]_(D!dvars)
  BY <1>3, StepRefines DEF D!Next
<1>4. CASE UNCHANGED vars
  <2>1. UNCHANGED <<start, size, data, pc, frame>>
    BY <1>4 DEF vars, buffer
  <2>2. Calls' = Calls /\ Contents' = Contents
    BY <2>1
       DEF Calls, InEffect, Contents, First, Count, HalfPushed, HalfPopped,
           HalfCleared
  <2>3. QED
    BY <2>2 DEF D!dvars
<1>5. QED
  BY <1>1, <1>2, <1>3, <1>4 DEF Next

(* Every operation takes effect at one instant, on the whole queue, with   *)
(* the code and the item of that instant, whatever the interrupt handlers  *)
(* do between two of its statements.                                       *)
THEOREM Linearizable == Spec => ImplementsDeque
<1>1. Spec => D!Init /\ [][D!Next]_(D!dvars)
  BY InitRefines, NextRefines, HandInvariance, PTL DEF Spec
<1>2. QED
  BY <1>1 DEF ImplementsDeque, D!Spec

(* A memcpy into the array writes a slot that holds no item.               *)
LEMMA WriteKeeps ==
  ASSUME RInv, NEW l \in Levels, Write(l), NEW i \in Stored(First, Count)
  PROVE  data'[i] = data[i]
<1>1. Acts(l)
  BY DEF Acts, Step
<1>2. TypeOK /\ frame[l] \in Frames /\ InHand(l) /\ Flow(l) /\ pc[l] = "write"
  BY DEF RInv, IInv, TypeOK, Write, At
<1>3. data' = [data EXCEPT ![SlotOf(frame[l])] = frame[l].arg]
  BY DEF Write
<1>4. CASE frame[l].op = "push_front"
  <2>1. First = Wrap(start + 1) /\ Count = size - 1 /\ SlotOf(frame[l]) = start
    BY <1>1, <1>2, <1>4, ViewBefore DEF SlotOf, FrontOps
  <2>2. PICK k \in 0 .. (size - 2) : i = Wrap(Wrap(start + 1) + k)
    BY <1>2, <2>1 DEF Stored, TypeOK
  <2>3. i \in Slots /\ i # start
    BY <1>2, <2>2 DEF TypeOK, Wrap
  <2>4. QED
    BY <1>2, <1>3, <2>1, <2>3 DEF TypeOK
<1>5. CASE frame[l].op # "push_front"
  <2>1. First = start /\ Count = size /\ SlotOf(frame[l]) = Wrap(start + size)
        /\ size < Capacity
    BY <1>1, <1>2, <1>5, ViewBefore DEF SlotOf, FrontOps, InHand, Flow
  <2>2. PICK k \in 0 .. (size - 1) : i = Wrap(start + k)
    BY <2>1 DEF Stored
  <2>3. i \in Slots /\ i # Wrap(start + size)
    BY <1>2, <2>1, <2>2 DEF TypeOK, Wrap
  <2>4. QED
    BY <1>2, <1>3, <2>1, <2>3 DEF TypeOK
<1>6. QED
  BY <1>4, <1>5

(* No step writes a slot that holds a stored item before and after it: a   *)
(* pointer handed out by a peek stays good until its item is popped.       *)
THEOREM ItemsStay == Spec => StoredItemsStay
<1> DEFINE Keeps == \A i \in Stored(First, Count) \cap Stored(First', Count') :
                       data'[i] = data[i]
<1>1. ASSUME RInv, [Next]_vars PROVE [Keeps]_vars
  <2>1. CASE data' = data
    BY <2>1
  <2>2. CASE data' # data
    <3>1. PICK l \in Levels : Write(l)
      BY <1>1, <2>2
         DEF Next, vars, AppMask, Call, Step, SavePrimask, DisableIrq, Check,
             PushFrontMove, PopFrontMove, Index, Grow, Read, Shrink,
             ClearStart, ClearSize, Exit, Query, QueryReturn, buffer
    <3>2. QED
      BY <1>1, <3>1, WriteKeeps
  <2>3. QED
    BY <2>1, <2>2
<1>2. QED
  BY <1>1, HandInvariance, PTL DEF Spec, StoredItemsStay
=============================================================================
