---------------------------- MODULE ConfigStore ----------------------------
(***************************************************************************)
(* What eeprom-config promises: a configuration kept in memory, and a copy *)
(* with its version in the EEPROM.  Nothing but the region of the copy is  *)
(* ever written.  While transfers succeed, only a write changes the copy,  *)
(* power lost during a write leaves any mixture of old and new bytes, and  *)
(* a write has stored everything when it returns; it returns true, unless  *)
(* the copy fills whole pages.  When transfers may fail, the copy and what *)
(* is read of it may be anything, but the configuration stays dirty unless *)
(* the answer is true.                                                     *)
(***************************************************************************)
EXTENDS Integers, Sequences

CONSTANTS Cells, Bytes,
          Setups,       \* <<its address, its size>>, and if transfers succeed
          VersionSize,  \* CONFIG_VERSION_SIZE
          PageSize,     \* what the driver writes at once
          Versions,     \* the versions of firmware that may be started
          DefaultByte   \* the default configuration, byte by byte

VARIABLES reliable,     \* transfers succeed
          mem,          \* the EEPROM
          layout,       \* the address and size of the configuration
          on,           \* the program is running, after EEPROM_config_init
          version, data, dirty,
          writing,      \* a call of EEPROM_config_write is in progress
          answer        \* what the last call returned

given == <<reliable, layout>>
cvars == <<given, mem, on, version, data, dirty, writing, answer>>

Address == layout[1]
Size    == layout[2]
Length  == VersionSize + Size

Default == [i \in 1 .. Size |-> DefaultByte]

CopyOf(i)  == mem[Address + i - 1]
Known(v)   == \A i \in 1 .. VersionSize : CopyOf(i) = v[i]
StoredData == [i \in 1 .. Size |-> CopyOf(VersionSize + i)]

Content == version \o data
Stored  == \A i \in 1 .. Length : CopyOf(i) = Content[i]

(* The copy begins and ends with a page: the driver cannot tell that it    *)
(* was stored.                                                             *)
FillsPages == Address % PageSize = 0 /\ Length % PageSize = 0

Region == Address .. (Address + Length - 1)
Mixture(new) ==
  \E S \in SUBSET Region :
    new = [c \in Cells |-> IF c \in S THEN Content[c - Address + 1] ELSE mem[c]]
Damaged(new) == \A c \in Cells \ Region : new[c] = mem[c]

(* What is read is what is stored, or anything at all.                     *)
Reads(v) ==
  IF ~reliable THEN [1 .. Size -> Bytes]
  ELSE IF Known(v) THEN {StoredData}
  ELSE {}
Fails(v) == reliable => ~Known(v)

Init ==
  /\ \E s \in Setups : layout = s[1] /\ reliable = s[2]
  /\ \E b \in Bytes : mem = [c \in Cells |-> b]
  /\ on = FALSE /\ version = << >> /\ data = << >> /\ dirty = FALSE
  /\ writing = FALSE /\ answer = "none"

Start(v) ==
  /\ ~on /\ on' = TRUE
  /\ version' = v
  /\ \/ data' \in Reads(v) /\ dirty' = FALSE /\ answer' = "true"
     \/ Fails(v) /\ data' = Default /\ dirty' = TRUE /\ answer' = "false"
  /\ UNCHANGED <<given, mem, writing>>

Ready == on /\ ~writing

Set(d) ==
  /\ Ready
  /\ data' = d /\ dirty' = TRUE /\ answer' = "none"
  /\ UNCHANGED <<given, mem, on, version, writing>>

Load ==
  /\ Ready
  /\ \/ data' \in Reads(version) /\ dirty' = FALSE /\ answer' = "true"
     \/ Fails(version) /\ answer' = "false" /\ UNCHANGED <<data, dirty>>
  /\ UNCHANGED <<given, mem, on, version, writing>>

WriteNothing ==
  /\ Ready /\ ~dirty
  /\ answer' = "true"
  /\ UNCHANGED <<given, mem, on, version, data, dirty, writing>>

BeginWrite ==
  /\ Ready /\ dirty
  /\ writing' = TRUE
  /\ UNCHANGED <<given, mem, on, version, data, dirty, answer>>

Store ==
  /\ \/ writing /\ Mixture(mem')
     \/ ~reliable /\ on /\ Damaged(mem')
  /\ UNCHANGED <<given, on, version, data, dirty, writing, answer>>

EndWrite ==
  /\ writing /\ writing' = FALSE
  /\ \/ /\ reliable => (Stored /\ ~FillsPages)
        /\ dirty' \in {FALSE, ~reliable} /\ answer' = "true"
     \/ /\ reliable => (Stored /\ FillsPages)
        /\ answer' = "false" /\ UNCHANGED dirty
  /\ UNCHANGED <<given, mem, on, version, data>>

PowerLoss ==
  /\ on' = FALSE /\ version' = << >> /\ data' = << >> /\ dirty' = FALSE
  /\ writing' = FALSE /\ answer' = "none"
  /\ CASE ~reliable /\ on    -> Damaged(mem')
       [] reliable /\ writing -> Mixture(mem')
       [] OTHER               -> mem' = mem
  /\ UNCHANGED given

Next ==
  \/ \E v \in Versions : Start(v)
  \/ \E d \in [1 .. Size -> Bytes] : Set(d)
  \/ Load \/ WriteNothing \/ BeginWrite \/ Store \/ EndWrite
  \/ PowerLoss

Spec == Init /\ [][Next]_cvars
=============================================================================
