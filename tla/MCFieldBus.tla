----------------------------- MODULE MCFieldBus -----------------------------
(* Two BMSs, the first of which is the master, and an ATS; a tick is half  *)
(* the turnaround of 50 ms, the pauses are those of the code, rounded down,*)
(* and the timeouts and the backoff are scaled down.                       *)
EXTENDS FieldBus

Req(d, r, n, opt) == [dev |-> d, reg |-> r, frames |-> n, optional |-> opt]

MCProgram ==
    [daly |-> <<Req("bms1", "soc", 1, FALSE),
                Req("bms2", "soc", 1, FALSE), Req("bms2", "cells", 2, TRUE)>>,
     ats  |-> <<Req("ats", "v1a", 1, FALSE), Req("ats", "switch", 1, TRUE)>>]
MCGap == [daly |-> 0, ats |-> 3]
=============================================================================
