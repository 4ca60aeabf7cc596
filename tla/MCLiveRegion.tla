---------------------------- MODULE MCLiveRegion ----------------------------
(* Two executors and the command: on a terminal that shows the warnings of *)
(* the log too, and verbose without a terminal and without a logs          *)
(* directory.                                                              *)
EXTENDS LiveRegion

CONSTANTS e1, e2

Executors == {e1, e2}
SomeModes == {<<TRUE, TRUE, "warnings">>, <<FALSE, FALSE, "all">>}
=============================================================================
