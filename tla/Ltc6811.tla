------------------------------ MODULE Ltc6811 ------------------------------
(***************************************************************************)
(* bms-monitor/src/ltc6811.c: the frames a master exchanges with a chain   *)
(* of LTC6811 chips, byte by byte, on a model of the chain.  A behaviour   *)
(* is about one register group, where a frame is six bytes that either     *)
(* come through or not; about the PEC by which that is told; or about the  *)
(* commands.                                                               *)
(***************************************************************************)
EXTENDS Integers, Sequences, FiniteSets, TLC, Bitwise, SequencesExt

(* The packet error code: two bytes behind each frame, that the code takes *)
(* from a table, byte by byte, and the chips from a shift register, bit by *)
(* bit.                                                                    *)
crcTable ==
  <<
     \h0000, \hc599, \hceab, \h0b32, \hd8cf, \h1d56, \h1664, \hd3fd,
     \hf407, \h319e, \h3aac, \hff35, \h2cc8, \he951, \he263, \h27fa,
     \had97, \h680e, \h633c, \ha6a5, \h7558, \hb0c1, \hbbf3, \h7e6a,
     \h5990, \h9c09, \h973b, \h52a2, \h815f, \h44c6, \h4ff4, \h8a6d,
     \h5b2e, \h9eb7, \h9585, \h501c, \h83e1, \h4678, \h4d4a, \h88d3,
     \haf29, \h6ab0, \h6182, \ha41b, \h77e6, \hb27f, \hb94d, \h7cd4,
     \hf6b9, \h3320, \h3812, \hfd8b, \h2e76, \hebef, \he0dd, \h2544,
     \h02be, \hc727, \hcc15, \h098c, \hda71, \h1fe8, \h14da, \hd143,
     \hf3c5, \h365c, \h3d6e, \hf8f7, \h2b0a, \hee93, \he5a1, \h2038,
     \h07c2, \hc25b, \hc969, \h0cf0, \hdf0d, \h1a94, \h11a6, \hd43f,
     \h5e52, \h9bcb, \h90f9, \h5560, \h869d, \h4304, \h4836, \h8daf,
     \haa55, \h6fcc, \h64fe, \ha167, \h729a, \hb703, \hbc31, \h79a8,
     \ha8eb, \h6d72, \h6640, \ha3d9, \h7024, \hb5bd, \hbe8f, \h7b16,
     \h5cec, \h9975, \h9247, \h57de, \h8423, \h41ba, \h4a88, \h8f11,
     \h057c, \hc0e5, \hcbd7, \h0e4e, \hddb3, \h182a, \h1318, \hd681,
     \hf17b, \h34e2, \h3fd0, \hfa49, \h29b4, \hec2d, \he71f, \h2286,
     \ha213, \h678a, \h6cb8, \ha921, \h7adc, \hbf45, \hb477, \h71ee,
     \h5614, \h938d, \h98bf, \h5d26, \h8edb, \h4b42, \h4070, \h85e9,
     \h0f84, \hca1d, \hc12f, \h04b6, \hd74b, \h12d2, \h19e0, \hdc79,
     \hfb83, \h3e1a, \h3528, \hf0b1, \h234c, \he6d5, \hede7, \h287e,
     \hf93d, \h3ca4, \h3796, \hf20f, \h21f2, \he46b, \hef59, \h2ac0,
     \h0d3a, \hc8a3, \hc391, \h0608, \hd5f5, \h106c, \h1b5e, \hdec7,
     \h54aa, \h9133, \h9a01, \h5f98, \h8c65, \h49fc, \h42ce, \h8757,
     \ha0ad, \h6534, \h6e06, \hab9f, \h7862, \hbdfb, \hb6c9, \h7350,
     \h51d6, \h944f, \h9f7d, \h5ae4, \h8919, \h4c80, \h47b2, \h822b,
     \ha5d1, \h6048, \h6b7a, \haee3, \h7d1e, \hb887, \hb3b5, \h762c,
     \hfc41, \h39d8, \h32ea, \hf773, \h248e, \he117, \hea25, \h2fbc,
     \h0846, \hcddf, \hc6ed, \h0374, \hd089, \h1510, \h1e22, \hdbbb,
     \h0af8, \hcf61, \hc453, \h01ca, \hd237, \h17ae, \h1c9c, \hd905,
     \hfeff, \h3b66, \h3054, \hf5cd, \h2630, \he3a9, \he89b, \h2d02,
     \ha76f, \h62f6, \h69c4, \hac5d, \h7fa0, \hba39, \hb10b, \h7492,
     \h5368, \h96f1, \h9dc3, \h585a, \h8ba7, \h4e3e, \h450c, \h8095 >>

(* _ltc6811_pec15, on unsigned integers of 16 bits.  Bug the runs have to  *)
(* notice: the upper half of the remainder chooses the entry.              *)
TurnHigh(remainder, byte) ==
  ((remainder * 256) % 2^16) ^^ crcTable[(((remainder \div 256) ^^ byte) % 256) + 1]

Turn(remainder, byte) ==
  ((remainder * 256) % 2^16) ^^ crcTable[(((remainder \div 128) ^^ byte) % 256) + 1]

Pec(bytes) == (FoldLeft(Turn, 16, bytes) * 2) % 2^16

(* _ltc6811_pec_calc and _ltc6811_pec_check.                               *)
WithPec(bytes) == bytes \o << Pec(bytes) \div 256, Pec(bytes) % 256 >>

Length(frame) == Len(frame) - 2
PecCheck(frame) ==
  Pec(SubSeq(frame, 1, Length(frame)))
    = frame[Length(frame) + 1] * 256 + frame[Length(frame) + 2]

-----------------------------------------------------------------------------
(* The chip: the bits of a frame, highest first, pass a register of 15     *)
(* bits with the polynomial of the documentation; a zero is appended.      *)
Bits(bytes) ==
  [k \in 1 .. (8 * Len(bytes)) |->
     (bytes[((k - 1) \div 8) + 1] \div 2^(7 - ((k - 1) % 8))) % 2]

Shift(register, bit) ==
  LET shifted == (register * 2) % 2^15
  IN  IF bit # register \div 2^14 THEN shifted ^^ \h4599 ELSE shifted

ChipPec(bytes) == FoldLeft(Shift, 16, Bits(bytes)) * 2

ChipSends(bytes) == bytes \o << ChipPec(bytes) \div 256, ChipPec(bytes) % 256 >>

ChipAccepts(frame) == ChipSends(SubSeq(frame, 1, Length(frame))) = frame

(* A frame of which some bits have changed on the way.                     *)
Flipped(frame, places) ==
  [b \in DOMAIN frame |->
     frame[b] ^^ FoldLeft(LAMBDA sum, p : sum + (IF 8 * (b - 1) + p \in places
                                                 THEN 2^p ELSE 0),
                          0, <<0, 1, 2, 3, 4, 5, 6, 7>>)]

-----------------------------------------------------------------------------
CONSTANTS Setups,    \* the cases: a group, the chips, emptied before a read
          Patterns,  \* what chips may hold: tuples of six bytes
          Noise      \* sets of bits of a frame that may change on the way

ASSUME Ltc6811Assumption ==
  /\ Patterns \subseteq [1 .. 6 -> 0 .. 255]
  /\ \A s \in Setups : s.count \in Nat \ {0} /\ s.emptied \in BOOLEAN

VARIABLES setup,
          regs,      \* the chips: the bytes of the group
          given,     \* the array last passed to an encode function
          table,     \* the array passed to the decode function
          arrived,   \* the chips whose last frames came through
          answers,   \* what the decode function returned, in frames
          asked,     \* the command of the master, as a set
          doing,     \* the commands the chips may take it for
          frame      \* a frame a chip sent, and as the master received it

chain == <<regs, given, table, arrived, answers>>
vars  == <<setup, chain, asked, doing, frame>>

group == setup.group
Chips == 0 .. (setup.count - 1)

-----------------------------------------------------------------------------
(* The chip, by its documentation: which bits of the six bytes, lowest     *)
(* first, make a field.                                                    *)
Run(first, n)  == [k \in 1 .. n |-> first + k - 1]
Every(first)   == [k \in 1 .. 12 |-> first + 2 * (k - 1)]
Words          == [k \in 1 .. 3 |-> Run(16 * (k - 1), 16)]
Nibbles        == [k \in 1 .. 12 |-> Run(4 * (k - 1), 4)]

Layout ==
  [cfg   |-> [ADCOPT |-> <<0>>, DTEN |-> <<1>>, REFON |-> <<2>>,
              GPIO |-> Run(3, 5), VUV |-> Run(8, 12), VOV |-> Run(20, 12),
              DCC |-> Run(32, 12), DCTO |-> Run(44, 4)],
   cv    |-> Words,
   aux   |-> Words,
   sta   |-> [SC |-> Run(0, 16), ITMP |-> Run(16, 16), VA |-> Run(32, 16)],
   stb   |-> [VD |-> Run(0, 16), CUV |-> Every(16), COV |-> Every(17),
              THSD |-> <<40>>, MUXFAIL |-> <<41>>, RSVD |-> Run(42, 2),
              REV |-> Run(44, 4)],
   sctrl |-> Nibbles,
   pwm   |-> Nibbles,
   comm  |-> [icom0 |-> Run(4, 4),  data0 |-> Run(12, 4) \o Run(0, 4),
              fcom0 |-> Run(8, 4),  icom1 |-> Run(20, 4),
              data1 |-> Run(28, 4) \o Run(16, 4), fcom1 |-> Run(24, 4),
              icom2 |-> Run(36, 4), data2 |-> Run(44, 4) \o Run(32, 4),
              fcom2 |-> Run(40, 4)]]

Bit(bytes, p) == (bytes[(p \div 8) + 1] \div 2^(p % 8)) % 2

(* The entry that six bytes stand for, with a table for the usual ones.    *)
Fields(g, bytes) ==
  [f \in DOMAIN Layout[g] |->
     FoldRight(LAMBDA p, high : 2 * high + Bit(bytes, p), Layout[g][f], 0)]

Zeros == <<0, 0, 0, 0, 0, 0>>

FieldsOf ==
  [g \in DOMAIN Layout |-> [p \in Patterns \cup {Zeros} |-> Fields(g, p)]]

Meaning(bytes) ==
  IF bytes \in Patterns THEN FieldsOf[group][bytes] ELSE Fields(group, bytes)

Blank   == FieldsOf[group][Zeros]
Entries == { FieldsOf[group][p] : p \in Patterns }

Writable == {"cfg", "sctrl", "pwm", "comm"}

-----------------------------------------------------------------------------
(* The encodings.                                                          *)
Byte(x) == x % 256

EncodeCfg(c) ==
  << Byte((c.GPIO * 8) | (c.REFON * 4) | (c.DTEN * 2) | c.ADCOPT),
     Byte(c.VUV),
     Byte((c.VOV * 16) | (c.VUV \div 256)),
     Byte(c.VOV \div 16),
     Byte(c.DCC),
     Byte((c.DCTO * 16) | (c.DCC \div 256)) >>

EncodeNibbles(v) ==
  [b \in 1 .. 6 |-> (v[2 * b - 1] % 16) | ((v[2 * b] % 16) * 16)]

EncodeComm(c) ==
  << Byte((c.icom0 * 16) | (c.data0 \div 16)),
     Byte(((c.data0 % 16) * 16) | c.fcom0),
     Byte((c.icom1 * 16) | (c.data1 \div 16)),
     Byte(((c.data1 % 16) * 16) | c.fcom1),
     Byte((c.icom2 * 16) | (c.data2 \div 16)),
     Byte(((c.data2 % 16) * 16) | c.fcom2) >>

Encode(entry) == CASE group = "cfg"  -> EncodeCfg(entry)
                   [] group = "comm" -> EncodeComm(entry)
                   [] OTHER          -> EncodeNibbles(entry)

(* The entry the n-th frame carries, from 0.  Bug: the first one first.    *)
EntryOfFrameForward(n) == n
EntryOfFrame(n) ==
  IF group \in {"cfg", "comm"} THEN setup.count - n - 1 ELSE n

(* The decodings; old is what the entry holds.                             *)
DecodeCfg(b) ==
  [ADCOPT |-> b[1] % 2, DTEN |-> (b[1] \div 2) % 2,
   REFON |-> (b[1] \div 4) % 2, GPIO |-> b[1] \div 8,
   VUV |-> b[2] | ((b[3] % 16) * 256), VOV |-> (b[3] \div 16) | (b[4] * 16),
   DCC |-> b[5] | ((b[6] % 16) * 256), DCTO |-> b[6] \div 16]

Word(b, k)     == b[2 * k - 1] | (b[2 * k] * 256)
DecodeWords(b) == [k \in 1 .. 3 |-> Word(b, k)]
DecodeSta(b)   == [SC |-> Word(b, 1), ITMP |-> Word(b, 2), VA |-> Word(b, 3)]

(* Every second bit of bytes 3 to 5.                                       *)
Flags(b, odd) ==
  FoldLeft(LAMBDA sum, k :
             sum | (((b[3 + k \div 4] \div 2^(2 * (k % 4) + odd)) % 2) * 2^k),
           0, Run(0, 12))

DecodeStb(b, old) ==
  [VD |-> Word(b, 1), CUV |-> old.CUV | Flags(b, 0),
   COV |-> old.COV | Flags(b, 1), REV |-> b[6] \div 16,
   RSVD |-> (b[6] \div 4) % 4, MUXFAIL |-> (b[6] \div 2) % 2,
   THSD |-> b[6] % 2]

(* Bug: the high bits are left in the odd values.                          *)
DecodeNibblesWhole(b) ==
  [k \in 1 .. 12 |-> IF k % 2 = 1 THEN b[(k + 1) \div 2] ELSE b[k \div 2] \div 16]

DecodeNibbles(b) ==
  [k \in 1 .. 12 |->
     IF k % 2 = 1 THEN b[(k + 1) \div 2] % 16 ELSE b[k \div 2] \div 16]

DecodeComm(b) ==
  [icom0 |-> b[1] \div 16, icom1 |-> b[3] \div 16, icom2 |-> b[5] \div 16,
   fcom0 |-> b[2] % 16, fcom1 |-> b[4] % 16, fcom2 |-> b[6] % 16,
   data0 |-> ((b[1] % 16) * 16) | (b[2] \div 16),
   data1 |-> ((b[3] % 16) * 16) | (b[4] \div 16),
   data2 |-> ((b[5] % 16) * 16) | (b[6] \div 16)]

(* The entry of chip d from all that was received: the comm group is taken *)
(* from the first frame for every chip.                                    *)
Decode(received, d, old) ==
  CASE group = "cfg"             -> DecodeCfg(received[d])
    [] group \in {"cv", "aux"}   -> DecodeWords(received[d])
    [] group = "sta"             -> DecodeSta(received[d])
    [] group = "stb"             -> DecodeStb(received[d], old)
    [] group \in {"sctrl", "pwm"} -> DecodeNibbles(received[d])
    [] group = "comm"            -> DecodeComm(received[0])

-----------------------------------------------------------------------------
(* The commands without options, which name a register group or an action. *)
CellReads   == {"RDCVA", "RDCVB", "RDCVC", "RDCVD"}
InputReads  == {"RDAUXA", "RDAUXB"}
StatusReads == {"RDSTATA", "RDSTATB"}
Clears      == {"CLRCELL", "CLRAUX", "CLRSTAT"}
Polls       == {"PLADC", "DIAGN"}
OfConfig    == {"WRCFGA", "RDCFGA"}
OfSControl  == {"WRSCTRL", "RDSCTRL", "STSCTRL", "CLRSCTRL"}
OfPwm       == {"WRPWM", "RDPWM"}
OfComm      == {"WRCOMM", "RDCOMM", "STCOMM"}

Plain == CellReads \cup InputReads \cup StatusReads \cup Clears \cup Polls
           \cup OfConfig \cup OfSControl \cup OfPwm \cup OfComm

(* The conversion commands of cells, of GPIO inputs, of the status and of  *)
(* several: the options of each.                                           *)
OfCells ==
  [ADCV |-> {"md", "dcp", "ch"}, ADOW |-> {"md", "pup", "dcp", "ch"},
   CVST |-> {"md", "st"},        ADOL |-> {"md", "dcp"}]

OfInputs ==
  [ADAX |-> {"md", "chg"}, ADAXD |-> {"md", "chg"}, AXST |-> {"md", "st"}]

OfStatus ==
  [ADSTAT |-> {"md", "chst"}, ADSTATD |-> {"md", "chst"}, STATST |-> {"md", "st"}]

OfSeveral == [ADCVAX |-> {"md", "dcp"}, ADCVSC |-> {"md", "dcp"}]

Takes == OfCells @@ OfInputs @@ OfStatus @@ OfSeveral @@ [k \in Plain |-> {}]

Values == [md |-> 0 .. 3, pup |-> 0 .. 1, st |-> 1 .. 2, dcp |-> 0 .. 1,
           ch |-> 0 .. 6, chg |-> 0 .. 6, chst |-> 0 .. 4]

Requests ==
  UNION { { [kind |-> k, with |-> w] :
              w \in { v \in [Takes[k] -> 0 .. 6] :
                        \A o \in Takes[k] : v[o] \in Values[o] } } :
          k \in DOMAIN Takes }

(* The words of the header and the places of the options in them.          *)
Command ==
  [ADCV   |-> \b01001100000, ADOW    |-> \b01000101000,
   CVST   |-> \b01000000111, ADOL    |-> \b01000000001,
   ADAX   |-> \b10001100000, ADAXD   |-> \b10000000000,
   AXST   |-> \b10000000111, ADSTAT  |-> \b10001101000,
   STATST |-> \b10000001111, ADSTATD |-> \b10000001000,
   ADCVAX |-> \b10001101111, ADCVSC  |-> \b10001100111,
   WRCFGA  |-> \b00000000001, RDCFGA   |-> \b00000000010,
   RDCVA   |-> \b00000000100, RDCVB    |-> \b00000000110,
   RDCVC   |-> \b00000001000, RDCVD    |-> \b00000001010,
   RDAUXA  |-> \b00000001100, RDAUXB   |-> \b00000001110,
   RDSTATA |-> \b00000010000, RDSTATB  |-> \b00000010010,
   WRSCTRL |-> \b00000010100, RDSCTRL  |-> \b00000010110,
   STSCTRL |-> \b00000011001, CLRSCTRL |-> \b00000011000,
   WRPWM   |-> \b00000100000, RDPWM    |-> \b00000100010,
   CLRCELL |-> \b11100010001, CLRAUX   |-> \b11100010010,
   CLRSTAT |-> \b11100010011, PLADC    |-> \b11100010100,
   DIAGN   |-> \b11100010101, WRCOMM   |-> \b11100100001,
   RDCOMM  |-> \b11100100010, STCOMM   |-> \b11100100011]

Place == [md |-> 7, pup |-> 6, st |-> 5, dcp |-> 4, ch |-> 0, chg |-> 0, chst |-> 0]

(* ADOW passes its mode where the pull-up belongs.  Bug: the mode is one   *)
(* place too low.                                                          *)
OptionLow(r, o) == r.with[o] * 2^(IF o = "md" THEN 6 ELSE Place[o])
Option(r, o) ==
  r.with[IF r.kind = "ADOW" /\ o = "pup" THEN "md" ELSE o] * 2^Place[o]

Encoded(r) ==
  LET cmd == FoldLeft(LAMBDA c, o : c | Option(r, o), Command[r.kind],
                      SetToSeq(Takes[r.kind]))
  IN  WithPec(<< (cmd \div 256) % 8, Byte(cmd) >>)

(* The chip: the bits of each command, highest first.                      *)
Template ==
  [ADCV    |-> <<"0", "1", "md", "md", "1", "1", "dcp", "0", "ch", "ch", "ch">>,
   ADOW    |-> <<"0", "1", "md", "md", "pup", "1", "dcp", "1", "ch", "ch", "ch">>,
   CVST    |-> <<"0", "1", "md", "md", "st", "st", "0", "0", "1", "1", "1">>,
   ADOL    |-> <<"0", "1", "md", "md", "0", "0", "dcp", "0", "0", "0", "1">>,
   ADAX    |-> <<"1", "0", "md", "md", "1", "1", "0", "0", "chg", "chg", "chg">>,
   ADAXD   |-> <<"1", "0", "md", "md", "0", "0", "0", "0", "chg", "chg", "chg">>,
   AXST    |-> <<"1", "0", "md", "md", "st", "st", "0", "0", "1", "1", "1">>,
   ADSTAT  |-> <<"1", "0", "md", "md", "1", "1", "0", "1", "chst", "chst", "chst">>,
   ADSTATD |-> <<"1", "0", "md", "md", "0", "0", "0", "1", "chst", "chst", "chst">>,
   STATST  |-> <<"1", "0", "md", "md", "st", "st", "0", "1", "1", "1", "1">>,
   ADCVAX  |-> <<"1", "0", "md", "md", "1", "1", "dcp", "1", "1", "1", "1">>,
   ADCVSC  |-> <<"1", "0", "md", "md", "1", "1", "dcp", "0", "1", "1", "1">>]

(* The number the chip's documentation gives a command without options.    *)
Number ==
  [WRCFGA  |-> 1,  RDCFGA  |-> 2,  RDCVA   |-> 4,    RDCVB    |-> 6,
   RDCVC   |-> 8,  RDCVD   |-> 10, RDAUXA  |-> 12,   RDAUXB   |-> 14,
   RDSTATA |-> 16, RDSTATB |-> 18, WRSCTRL |-> 20,   RDSCTRL  |-> 22,
   STSCTRL |-> 25, CLRSCTRL |-> 24, WRPWM  |-> 32,   RDPWM    |-> 34,
   CLRCELL |-> 1809, CLRAUX |-> 1810, CLRSTAT |-> 1811, PLADC |-> 1812,
   DIAGN   |-> 1813, WRCOMM |-> 1825, RDCOMM  |-> 1826, STCOMM |-> 1827]

Fits(r, bytes) ==
  IF r.kind \in Plain THEN bytes[1] * 256 + bytes[2] = Number[r.kind]
  ELSE
  LET template == Template[r.kind]
      sent(k)  == ((bytes[1] * 256 + bytes[2]) \div 2^(11 - k)) % 2
      below(k) == Cardinality({ j \in (k + 1) .. 11 : template[j] = template[k] })
  IN  \A k \in 1 .. 11 :
        sent(k) = CASE template[k] = "0" -> 0
                    [] template[k] = "1" -> 1
                    [] OTHER -> (r.with[template[k]] \div 2^below(k)) % 2

-----------------------------------------------------------------------------
Init ==
  /\ setup \in Setups
  /\ IF group \in {"conv", "pec"} THEN regs = <<>> /\ given = <<>> /\ table = <<>>
     ELSE /\ regs \in [Chips -> Patterns]
          /\ table = [d \in Chips |-> Blank] /\ given = table
  /\ arrived = {} /\ answers = 0
  /\ asked = {} /\ doing = {} /\ frame = << >>

(* Each frame is pushed on by the ones behind it: the first one ends in    *)
(* the last chip.  A chip ignores a frame that does not fit its PEC.       *)
Write(entries) ==
  /\ group \in Writable
  /\ given' = entries
  /\ arrived' \in SUBSET Chips
  /\ regs' = [d \in Chips |->
                IF d \in arrived'
                THEN Encode(entries[EntryOfFrame(setup.count - d - 1)])
                ELSE regs[d]]
  /\ UNCHANGED <<setup, table, answers, asked, doing, frame>>

(* CLRSCTRL.                                                               *)
Clear ==
  /\ group = "sctrl"
  /\ arrived' \in SUBSET Chips
  /\ regs' = [d \in Chips |-> IF d \in arrived' THEN Zeros ELSE regs[d]]
  /\ UNCHANGED <<setup, given, table, answers, asked, doing, frame>>

(* A conversion ends, or CLRCELL, CLRAUX or CLRSTAT comes through.         *)
Measure ==
  /\ group \notin Writable \cup {"conv", "pec"}
  /\ regs' \in [Chips -> Patterns]
  /\ UNCHANGED <<setup, given, table, arrived, answers, asked, doing, frame>>

(* A read, chip by chip from the first.  What does not come through is     *)
(* anything; its PEC shows that.                                           *)
Read ==
  /\ group \notin {"conv", "pec"}
  /\ setup.emptied => \A d \in Chips : table[d] = Blank
  /\ \E received \in [Chips -> Patterns] :
       /\ arrived' \in SUBSET { d \in Chips : received[d] = regs[d] }
       /\ table' = [d \in Chips |-> IF d \in arrived'
                                    THEN Decode(received, d, table[d])
                                    ELSE table[d]]
  /\ answers' = Cardinality(arrived')
  /\ UNCHANGED <<setup, regs, given, asked, doing, frame>>

(* The master empties its array.                                           *)
Empty ==
  /\ group \notin {"conv", "pec"}
  /\ table' = [d \in Chips |-> Blank]
  /\ UNCHANGED <<setup, regs, given, arrived, answers, asked, doing, frame>>

(* One command: they do not depend on each other.                          *)
Convert(r) ==
  /\ group = "conv" /\ asked = {}
  /\ asked' = {r}
  /\ LET sent == Encoded(r)
     IN  doing' = IF ChipAccepts(sent) THEN { q \in Requests : Fits(q, sent) } ELSE {}
  /\ UNCHANGED <<setup, chain, frame>>

(* The master receives one frame, with some bits changed on the way.       *)
Receive(bytes, flips) ==
  /\ group = "pec" /\ frame = << >>
  /\ LET sent == ChipSends(bytes)
         got  == Flipped(sent, flips)
     IN  frame' = [sent |-> sent, got |-> got, accepted |-> PecCheck(got)]
  /\ UNCHANGED <<setup, chain, asked, doing>>

Next ==
  \/ group \in Writable /\ \E entries \in [Chips -> Entries] : Write(entries)
  \/ Clear \/ Measure \/ Read \/ Empty
  \/ \E r \in Requests : Convert(r)
  \/ group = "pec" /\ \/ \E p \in Patterns, f \in Noise : Receive(p, f)
                      \/ \E b \in 0 .. 255 : Receive([Zeros EXCEPT ![1] = b], {})

Spec == Init /\ [][Next]_vars

-----------------------------------------------------------------------------
Fitting(entry) ==
  \A f \in DOMAIN entry : entry[f] \in 0 .. (2^Len(Layout[group][f]) - 1)

TypeOK ==
  /\ setup \in Setups
  /\ group \notin {"conv", "pec"} =>
       /\ \A d \in Chips :
            /\ \A k \in 1 .. 6 : regs[d][k] \in 0 .. 255
            /\ Fitting(table[d]) /\ Fitting(given[d])
       /\ arrived \subseteq Chips /\ answers \in 0 .. setup.count
  /\ asked \subseteq Requests /\ doing \subseteq Requests

(* S control and PWM entries are written in the reverse order of the chips. *)
Sent(d) == IF group \in {"sctrl", "pwm"} THEN setup.count - d - 1 ELSE d

Bank == INSTANCE RegisterBank WITH
          held    <- [d \in DOMAIN regs |-> Meaning(regs[d])],
          entries <- table,
          given   <- [d \in DOMAIN given |-> given[Sent(d)]],
          writable <- group \in Writable,
          blank   <- IF group \in {"conv", "pec"} THEN <<>> ELSE Blank

(* Over reads and writes of which any frames are lost, the arrays of the   *)
(* program and the registers of the chips agree as the register bank has   *)
(* it: every bit is in the place the chip's documentation gives it, entry  *)
(* d belongs to chip d but for what Sent says, a lost frame leaves its     *)
(* entry and shifts no other, and the count returned is that of the        *)
(* entries renewed.  Chains for the comm group have one chip only.         *)
ImplementsBank == Bank!Spec

(* The chip accepts every command by its PEC, and takes it for exactly the *)
(* one asked for, with all options; of an open-wire conversion only the    *)
(* cells and the discharge setting are promised.                           *)
ConvertsAsAsked ==
  \A r \in asked :
    IF r.kind = "ADOW"
    THEN /\ doing # {}
         /\ \A q \in doing : /\ q.kind = "ADOW"
                             /\ \A o \in {"dcp", "ch"} : q.with[o] = r.with[o]
    ELSE doing = asked

(* The master accepts what a chip sent, every byte the table has an entry  *)
(* for included, and notices any change of the bits that Noise has.        *)
NoiseNoticed ==
  frame # << >> => (frame.accepted <=> frame.got = frame.sent)
=============================================================================
