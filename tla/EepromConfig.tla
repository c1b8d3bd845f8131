---------------------------- MODULE EepromConfig ----------------------------
(***************************************************************************)
(* eeprom-config/eeprom-config.c: one configuration, kept in RAM with a    *)
(* dirty flag and stored with its version by the driver of M95256.  Power  *)
(* may be lost at any time; the next firmware may be of another version.   *)
(***************************************************************************)
EXTENDS M95256

CONSTANTS Setups,       \* <<its address, its size>>, and if transfers succeed
          VersionSize,  \* CONFIG_VERSION_SIZE
          Versions,     \* the versions of firmware that may be started
          DefaultByte   \* the default configuration, byte by byte

(* The assertion of EEPROM_config_init bounds the sizes by the constant    *)
(* EEPROM_BUFFER_SIZE, which is set apart from the page; no size is taken  *)
(* here that the chip does not hold.                                       *)
ASSUME EepromConfigAssumption ==
  /\ VersionSize \in Nat \ {0}
  /\ Setups \subseteq (Nat \X (Nat \ {0})) \X BOOLEAN
  /\ \A s \in Setups : s[1][1] + VersionSize + s[1][2] <= MemSize
  /\ Versions \subseteq [1 .. VersionSize -> Bytes]
  /\ DefaultByte \in Bytes

VARIABLES step,    \* the call of this module in progress
          layout,  \* config->address and config->size
          version, data, dirty,
          answer   \* what the last call returned

config == <<layout, version, data, dirty, answer>>
vars   == <<chip, driver, step, config>>

Address == layout[1]
Size    == layout[2]
Length  == VersionSize + Size

Default == [i \in 1 .. Size |-> DefaultByte]

(* What the buffer holds, if the read was complete.                        *)
Matches == \A i \in 1 .. VersionSize : buffer[i] = version[i]
ReadData == [i \in 1 .. Size |-> buffer[VersionSize + i]]

-----------------------------------------------------------------------------
Init ==
  /\ \E s \in Setups : layout = s[1] /\ reliable = s[2]
  /\ \E b \in Bytes : mem = [c \in Cells |-> b]
  /\ latch = FALSE /\ burst = Idle /\ open = FALSE
  /\ DriverInit
  /\ step = "off"
  /\ version = << >> /\ data = << >> /\ dirty = FALSE /\ answer = "none"

(* EEPROM_config_init up to the read.                                      *)
Boot(v) ==
  /\ step = "off" /\ step' = "init"
  /\ version' = v /\ dirty' = FALSE
  /\ StartRead(Address, Length)
  /\ UNCHANGED <<layout, data, answer>>

Returned(s) ==
  /\ step = s /\ pc = "free"
  /\ step' = "idle"
  /\ DriverReset
  /\ UNCHANGED <<chip, layout, version>>

(* EEPROM_config_read.                                                     *)
Loaded == status = "COMPLETE" /\ Matches

Take == data' = ReadData /\ dirty' = FALSE /\ answer' = "true"

InitDone ==
  /\ Returned("init")
  /\ IF Loaded THEN Take
     ELSE data' = Default /\ dirty' = TRUE /\ answer' = "false"

CallRead ==
  /\ step = "idle" /\ step' = "read"
  /\ StartRead(Address, Length)
  /\ UNCHANGED config

ReadDone ==
  /\ Returned("read")
  /\ IF Loaded THEN Take
     ELSE answer' = "false" /\ UNCHANGED <<data, dirty>>

Set(d) ==
  /\ step = "idle"
  /\ data' = d /\ dirty' = TRUE /\ answer' = "none"
  /\ UNCHANGED <<chip, driver, step, layout, version>>

(* EEPROM_config_write: nothing to do, or a write and a read to verify it. *)
WriteClean ==
  /\ step = "idle" /\ ~dirty
  /\ answer' = "true"
  /\ UNCHANGED <<chip, driver, step, layout, version, data, dirty>>

CallWrite ==
  /\ step = "idle" /\ dirty /\ step' = "write"
  /\ StartWrite(Address, version \o data)
  /\ UNCHANGED config

Verify ==
  /\ step = "write" /\ pc = "free" /\ status = "COMPLETE"
  /\ step' = "verify"
  /\ StartRead(Address, Length)
  /\ UNCHANGED config

WriteFailed ==
  /\ Returned("write")
  /\ status # "COMPLETE"
  /\ answer' = "false"
  /\ UNCHANGED <<data, dirty>>

(* The comparison stops after the version; a read that fails leaves the    *)
(* configuration dirty, and the answer is true all the same.               *)
Verified ==
  /\ Returned("verify")
  /\ dirty' = (dirty /\ ~(status = "COMPLETE" /\ Matches))
  /\ answer' = IF status = "COMPLETE" /\ ~Matches THEN "false" ELSE "true"
  /\ UNCHANGED data

PowerLoss ==
  /\ step # "off" /\ step' = "off"
  /\ ChipOff /\ DriverReset
  /\ version' = << >> /\ data' = << >> /\ dirty' = FALSE /\ answer' = "none"
  /\ UNCHANGED layout

Main ==
  \/ InitDone \/ ReadDone \/ Verify \/ WriteFailed \/ Verified
  \/ Driver /\ UNCHANGED <<step, config>>

Next ==
  \/ \E v \in Versions : Boot(v)
  \/ \E d \in [1 .. Size -> Bytes] : Set(d)
  \/ CallRead \/ WriteClean \/ CallWrite
  \/ Main
  \/ (Halt \/ Finish) /\ UNCHANGED <<step, config>>
  \/ PowerLoss

(* The processor goes on with the call in progress, and the chip ends its  *)
(* programming.  Power may be lost for good.                               *)
Spec == Init /\ [][Next]_vars /\ WF_vars(Main)
             /\ WF_vars(Finish /\ UNCHANGED <<step, config>>)

-----------------------------------------------------------------------------
TypeOK ==
  /\ mem \in [Cells -> Bytes]
  /\ latch \in BOOLEAN /\ open \in BOOLEAN
  /\ DOMAIN burst \subseteq Cells /\ \A c \in DOMAIN burst : burst[c] \in Bytes
  /\ pc \in {"free", "wren", "write", "wait", "wrdi", "read", "halted"}
  /\ chunks \in Seq((0 .. MemSize) \X (0 .. MemSize))
  /\ pc # "free" => chunks # << >>
  /\ bytes.at \in Cells /\ bytes.source \in Seq(Bytes)
  /\ status \in {"PENDING", "COMPLETE", "TIMEOUT", "ERROR"}
  /\ buffer \in Seq(Bytes)
  /\ step \in {"off", "init", "idle", "read", "write", "verify"}
  /\ <<layout, reliable>> \in Setups
  /\ version \in Versions \cup {<< >>}
  /\ data \in Seq(Bytes) /\ dirty \in BOOLEAN
  /\ answer \in {"none", "true", "false"}

On == step \notin {"off", "init"}

C == INSTANCE ConfigStore WITH
       on      <- On,
       version <- IF On THEN version ELSE << >>,
       writing <- step \in {"write", "verify"}

(* While transfers succeed the two libraries keep what ConfigStore         *)
(* promises, whatever the address: a write that returns has stored every   *)
(* byte, although it says so only if there is a byte left for the last     *)
(* page write; power lost at any moment damages only the bytes being       *)
(* written, and what is read at the next start is what was stored.  Even   *)
(* when transfers fail, no byte outside the configuration is ever written, *)
(* and the dirty flag survives every call that answers false.              *)
ImplementsConfigStore == C!Spec

(* Between two calls the chip is not selected, not programming, and        *)
(* protected from writes.                                                  *)
ChipQuiet == reliable /\ pc = "free" => ~Busy /\ ~latch /\ ~open

Region  == Address .. (Address + Length - 1)
Content == version \o data

(* The page writes still to do follow each other up to the end of the      *)
(* configuration, none of them beyond a page, and only the last one, of a  *)
(* configuration that fills whole pages, is of no byte.                    *)
FillsPages == Address % PageSize = 0 /\ Length % PageSize = 0
Chunking(s) ==
  /\ Len(s) > 0
  /\ \A i \in 1 .. Len(s) :
       /\ Address <= s[i][1] /\ s[i][1] + s[i][2] <= Address + Length
       /\ (s[i][1] % PageSize) + s[i][2] <= PageSize
       /\ s[i][2] = 0 <=> FillsPages /\ i = Len(s)
       /\ s[i][1] + s[i][2] =
            IF i = Len(s) THEN Address + Length ELSE s[i + 1][1]

(* What the module and the driver hold of the call in progress.            *)
Call ==
  /\ version \in (IF step = "off" THEN {<< >>} ELSE Versions)
  /\ IF On THEN data \in [1 .. Size -> Bytes]
     ELSE data = << >> /\ ~dirty /\ answer = "none" /\ ~Busy
  /\ DOMAIN burst \subseteq Region
  /\ step \in {"off", "idle"} => pc = "free"
  /\ pc = "read" => /\ step \in {"init", "read", "verify"}
                    /\ chunks = << <<Address, Length>> >>
  /\ pc \in {"wren", "write", "wait", "wrdi"} =>
       /\ step = "write" /\ Chunking(chunks)
       /\ bytes = [at |-> Address, source |-> Content]
  /\ step \in {"init", "read", "verify"} /\ pc = "free" =>
       status # "COMPLETE" \/ buffer \in [1 .. Length -> Bytes]

(* While transfers succeed: how far a write has come, whatever is still    *)
(* being programmed, and what a read has found.                            *)
StoredBefore(cell) ==
  \A c \in Region : c < cell =>
    Programmed(DOMAIN burst)[c] = Content[c - Address + 1]
Progress ==
  reliable =>
    /\ ~open
    /\ Busy => pc = "wait"
    /\ pc = "write" => latch
    /\ pc = "read" => ~latch
    /\ \A c \in DOMAIN burst : burst[c] = Content[c - Address + 1]
    /\ pc \in {"wren", "write"} => StoredBefore(chunks[1][1])
    /\ pc \in {"wait", "wrdi"} =>
         /\ StoredBefore(chunks[1][1] + chunks[1][2])
         /\ status = IF chunks[1][2] = 0 THEN "ERROR" ELSE "COMPLETE"
    /\ step = "write" /\ pc = "free" =>
         /\ StoredBefore(Address + Length)
         /\ status = IF FillsPages THEN "ERROR" ELSE "COMPLETE"
    /\ step = "verify" => StoredBefore(Address + Length) /\ ~FillsPages
    /\ step \in {"init", "read", "verify"} /\ pc = "free" =>
         /\ status = "COMPLETE"
         /\ buffer = [i \in 1 .. Length |-> mem[Address + i - 1]]

(* What the driver holds lies in the memory of the chip, which rests       *)
(* between two calls; a write goes through the configuration from its      *)
(* beginning to its end, and a read finds what is stored.                  *)
Inv == TypeOK /\ ChipQuiet /\ Call /\ Progress

(* Every call returns, unless power is lost or Error_Handler was called.   *)
CallsReturn == step # "idle" ~> step \in {"idle", "off"} \/ pc = "halted"

(* eeprom-config.h says of EEPROM_config_write "true Write successfull":   *)
(* if the answer is true everything is stored, or being programmed.        *)
Ends == step \in {"write", "verify"} /\ step' = "idle"
Stored ==
  \A i \in 1 .. Length :
    Programmed(DOMAIN burst)[Address + i - 1] = (version \o data)[i]
TrueMeansStored == [][Ends /\ answer' = "true" => Stored]_vars
=============================================================================
