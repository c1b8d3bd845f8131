--------------------------- MODULE MCEepromConfig ---------------------------
(* Pages of three bytes, six on the chip, and a version of one byte.        *)
EXTENDS EepromConfig

MCVersions == { <<0>>, <<1>> }

(* Every way m95256_WriteBuffer cuts a buffer into pages, inside a page of *)
(* the chip and across two, with and without a rest; two ways with         *)
(* transfers that fail.                                                    *)
MCSetups ==
  { <<0, 1>>, <<3, 2>>, <<3, 3>>, <<1, 1>>, <<5, 1>>, <<4, 3>>, <<4, 2>>, <<5, 4>> }
    \X {TRUE}
  \cup { <<5, 1>>, <<1, 1>> } \X {FALSE}

MCFaults == { <<0, 1>> } \X {FALSE}
=============================================================================
