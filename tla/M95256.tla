------------------------------- MODULE M95256 -------------------------------
(***************************************************************************)
(* The EEPROM driver of m95256/m95256.c on the chip it talks to, one step  *)
(* for each transaction between chip select low and high.  The driver is   *)
(* called by one context, which waits; while it does, pc is the            *)
(* transaction to come.                                                    *)
(*                                                                         *)
(* The chip: WRITE needs the write enable latch and makes the chip program *)
(* the bytes it was sent, rolling over at the end of its page; until that  *)
(* is done it ignores every instruction but RDSR.  An instruction sent     *)
(* while the last one is still selected is taken for more of its data.     *)
(***************************************************************************)
EXTENDS Integers, Sequences

CONSTANTS PageSize,    \* EEPROM_PAGESIZE
          DevicePage,  \* the page of the chip
          MemSize,
          Bytes        \* the values of a byte

ASSUME M95256Assumption ==
  /\ PageSize \in Nat \ {0} /\ DevicePage \in Nat \ {0}
  /\ DevicePage % PageSize = 0
  /\ MemSize \in Nat \ {0} /\ MemSize % DevicePage = 0
  /\ 0 \in Bytes

VARIABLES reliable,       \* transfers succeed, and polling ends in time
          mem, latch,     \* the chip: its cells; the write enable latch
          burst,          \* the bytes it is programming, by cell
          open,           \* chip select is still low
          pc,             \* the driver's next transaction, or "free"
          chunks, bytes,  \* page writes still to do; the first and all bytes
          status, buffer  \* what the driver returns; what it has read

chip   == <<reliable, mem, latch, burst, open>>
driver == <<pc, chunks, bytes, status, buffer>>

Cells == 0 .. (MemSize - 1)
Busy  == DOMAIN burst # {}
Idle  == << >>

(* No call in progress, and so none of its locals.                         *)
DriverInit ==
  /\ pc = "free" /\ chunks = << >>
  /\ bytes = [at |-> 0, source |-> << >>]
  /\ status = "PENDING" /\ buffer = << >>

DriverReset ==
  /\ pc' = "free" /\ chunks' = << >>
  /\ bytes' = [at |-> 0, source |-> << >>]
  /\ status' = "PENDING" /\ buffer' = << >>

-----------------------------------------------------------------------------
(* m95256_WriteBuffer: the page writes <<address, length>> for n bytes at  *)
(* an address.  Whole pages from an aligned address, and what is left of   *)
(* n; when the address is aligned and nothing is left, a write of no byte. *)
WholePages(addr, n) ==
  [i \in 1 .. (n \div PageSize) |-> <<addr + (i - 1) * PageSize, PageSize>>]
Rest(addr, n) == << addr + (n \div PageSize) * PageSize, n % PageSize >>

(* Bug the runs have to notice: the first page write is a whole page.      *)
ChunksUnaligned(addr, n) == WholePages(addr, n) \o << Rest(addr, n) >>

Chunks(addr, n) ==
  LET count == PageSize - (addr % PageSize)
      left  == n - count
  IN CASE addr % PageSize = 0 ->
            WholePages(addr, n) \o << Rest(addr, n) >>
       [] addr % PageSize # 0 /\ n < PageSize /\ n <= count ->
            << <<addr, n>> >>
       [] OTHER ->
            << <<addr, count>> >> \o WholePages(addr + count, left)
              \o (IF left % PageSize = 0 THEN << >>
                  ELSE << Rest(addr + count, left) >>)

-----------------------------------------------------------------------------
(* A page write: sEE_WriteEnable, WRITE with its address and bytes,        *)
(* m95256_WaitStandbyState, sEE_WriteDisable.                              *)
StartWrite(addr, source) ==
  /\ pc = "free" /\ pc' = "wren"
  /\ chunks' = Chunks(addr, Len(source))
  /\ bytes' = [at |-> addr, source |-> source]
  /\ UNCHANGED <<chip, status, buffer>>

(* Error_Handler, when an instruction cannot be sent, does not return.     *)
Halt ==
  /\ ~reliable /\ pc \in {"wren", "write", "wait", "wrdi", "read"}
  /\ pc' = "halted"
  /\ UNCHANGED <<chip, chunks, bytes, status, buffer>>

(* Sets or resets the latch, unless the chip does not listen.              *)
Latch(value) ==
  /\ latch' = IF open \/ Busy THEN latch ELSE value
  /\ open' = FALSE
  /\ UNCHANGED <<reliable, mem, burst>>

WriteEnable ==
  /\ pc = "wren" /\ pc' = "write"
  /\ Latch(TRUE)
  /\ UNCHANGED <<chunks, bytes, status, buffer>>

(* What HAL_SPI_Transmit returns, and how many bytes have arrived.         *)
TransmitOutcomes(n) ==
  IF n = 0 THEN {<<"ERROR", 0>>}
  ELSE IF reliable THEN {<<"OK", n>>}
  ELSE {<<"OK", n>>, <<"BUSY", 0>>} \cup ({"TIMEOUT", "ERROR"} \X (0 .. n))

(* The chip starts to program the first k bytes of the chunk.              *)
Cell(addr, i) ==
  DevicePage * (addr \div DevicePage) + ((addr + i) % DevicePage)

Program(addr, k) ==
  IF k = 0 \/ ~latch \/ Busy THEN burst
  ELSE [c \in { Cell(addr, i) : i \in 0 .. (k - 1) } |->
          LET i == CHOOSE j \in 0 .. (k - 1) : Cell(addr, j) = c
          IN  bytes.source[addr - bytes.at + i + 1]]

WriteData ==
  /\ pc = "write" /\ pc' = "wait"
  /\ \E o \in TransmitOutcomes(chunks[1][2]) :
       /\ status' = IF o[1] = "ERROR" THEN "ERROR" ELSE "COMPLETE"
       /\ burst' = Program(chunks[1][1], o[2])
  /\ UNCHANGED <<reliable, mem, latch, open, chunks, bytes, buffer>>

(* The chip has programmed its bytes.                                      *)
Programmed(cells) ==
  [c \in Cells |-> IF c \in cells THEN burst[c] ELSE mem[c]]

Finish ==
  /\ Busy
  /\ mem' = Programmed(DOMAIN burst)
  /\ burst' = Idle /\ latch' = FALSE
  /\ UNCHANGED <<reliable, open, driver>>

(* m95256_WaitStandbyState returns when the chip is done, or gives up with *)
(* chip select still low; m95256_WritePage goes on in both cases.  Bug: it *)
(* does not wait.                                                          *)
WaitNot ==
  /\ pc = "wait" /\ pc' = "wrdi"
  /\ UNCHANGED <<chip, chunks, bytes, status, buffer>>

Wait ==
  /\ pc = "wait" /\ pc' = "wrdi"
  /\ \/ ~Busy /\ UNCHANGED open
     \/ ~reliable /\ open' = TRUE
  /\ UNCHANGED <<reliable, mem, latch, burst, chunks, bytes, status, buffer>>

(* The end of a page write, and the next one if there is one.  Bugs: the   *)
(* same one again; one more than there are.                                *)
WriteDisableAgain ==
  /\ pc = "wrdi"
  /\ Latch(FALSE)
  /\ pc' = IF status = "ERROR" \/ chunks = << >> THEN "free" ELSE "wren"
  /\ UNCHANGED <<chunks, bytes, status, buffer>>

WriteDisableMore ==
  /\ pc = "wrdi"
  /\ Latch(FALSE)
  /\ chunks' = Tail(chunks)
  /\ pc' = IF status = "ERROR" \/ chunks = << >> THEN "free" ELSE "wren"
  /\ UNCHANGED <<bytes, status, buffer>>

WriteDisable ==
  /\ pc = "wrdi"
  /\ Latch(FALSE)
  /\ chunks' = Tail(chunks)
  /\ pc' = IF status = "ERROR" \/ Len(chunks) = 1 THEN "free" ELSE "wren"
  /\ UNCHANGED <<bytes, status, buffer>>

-----------------------------------------------------------------------------
(* m95256_ReadBuffer of n bytes into a buffer of zeros.                    *)
StartRead(addr, n) ==
  /\ pc = "free" /\ pc' = "read"
  /\ chunks' = << <<addr, n>> >>
  /\ UNCHANGED <<chip, bytes, status, buffer>>

Prefix(addr, n, k) ==
  [i \in 1 .. n |-> IF i <= k THEN mem[addr + i - 1] ELSE 0]

(* Any answer of HAL_SPI_Receive but HAL_BUSY counts as COMPLETE.          *)
Receive(addr, n) ==
  /\ open' = FALSE
  /\ status' = "COMPLETE"
  /\ IF open \/ Busy
     THEN buffer' \in [1 .. n -> Bytes]
     ELSE \E k \in IF reliable THEN {n} ELSE 0 .. n :
            buffer' = Prefix(addr, n, k)

(* The driver gives up before it has selected the chip, or after.          *)
GiveUp ==
  /\ ~reliable
  /\ open' \in {open, TRUE}
  /\ status' = "TIMEOUT"
  /\ UNCHANGED buffer

Read ==
  /\ pc = "read" /\ pc' = "free"
  /\ chunks' = << >>
  /\ Receive(chunks[1][1], chunks[1][2]) \/ GiveUp
  /\ UNCHANGED <<reliable, mem, latch, burst, bytes>>

Driver == WriteEnable \/ WriteData \/ Wait \/ WriteDisable \/ Read

(* Power is lost: of the bytes being programmed any may have been stored.  *)
ChipOff ==
  /\ \E cells \in SUBSET DOMAIN burst : mem' = Programmed(cells)
  /\ latch' = FALSE /\ burst' = Idle /\ open' = FALSE
  /\ UNCHANGED reliable
=============================================================================
