------------------------------ MODULE MCEosSpi ------------------------------
(* Small instances of EosSpi for TLC. *)
EXTENDS EosSpi, TLC

CONSTANTS t1, t2, none, epcs, mx, fm, mr, zl, v1, v2, v3, v4,
          blank, garbage, busyByte, readyByte, idByte

MCThreads == {t1, t2}
MCPart == [c \in Chips |->
    CASE c = epcs -> "EPCS64"
      [] c = mx   -> "MX25U1635"
      [] c = fm   -> "FM25V02"
      [] c = mr   -> "MR25H10"
      [] OTHER    -> "ZL30169"]
MCValues == {v1, v2, v3, v4}

\* Neighbouring cells differ, so that a wrong address shows.
MCInitMem == [c \in Chips |-> [a \in Cells |-> IF a = 1 THEN v1 ELSE IF a = 2 THEN v2 ELSE blank]]

Symmetric == Permutations(Threads)

Payload == [k \in Cells |-> IF k % 2 = 0 THEN v3 ELSE v4]

Read(c, a, n)  == [kind |-> "read", chip |-> c, addr |-> a, len |-> n, data |-> NoData]
Write(c, a, n) == [kind |-> "write", chip |-> c, addr |-> a, len |-> n, data |-> Payload]
Other(k, c)    == [kind |-> k, chip |-> c, addr |-> 0, len |-> 0, data |-> NoData]

FlashRequests ==
    { Read(epcs, 0, 3), Write(epcs, 0, 3), Other("erase", epcs),
      Other("read_id", epcs), Write(mx, 2, 2), Other("erase", mx) }
RamRequests ==
    { Read(fm, 0, 3), Write(fm, 0, 3), Other("read_id", fm),
      Read(mr, 1, 2), Write(mr, 1, 1), Read(zl, 0, 0), Write(zl, 0, 2) }

\* For the runs of one class on one chip.
LiveRequests   == { Read(epcs, 0, 2), Write(epcs, 1, 1), Other("write_status", epcs),
                    Other("read_status", epcs) }
LengthRequests == { Read(mr, 0, 3), Read(mr, 1, 2) }
StatusRequests == { Read(epcs, 0, 3), Other("read_status", epcs) }
============================================================================
