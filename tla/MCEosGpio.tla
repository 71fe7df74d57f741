----------------------------- MODULE MCEosGpio -----------------------------
(* Small instances of EosGpio for TLC. *)
EXTENDS EosGpio

CONSTANTS t1, t2, p1, p2, bad

MCGroupOf == [p \in Pins |-> IF p = p1 THEN 1 ELSE 3]

Ask(o, p, v) == [op |-> o, pin |-> p, val |-> v]
Feeding      == Ask("feed", p1, 0)
Setting(o)   == {Ask(o, p, v) : p \in Pins \cup {bad}, v \in {0, 1, 2}}
Getting      == {Ask(o, p, 0) : o \in {"get_direction", "get_status"}, p \in {p2, bad}}

\* One thread sets all pins and feeds, another one reads.
OneWriter == [t \in Threads |->
    IF t = t1 THEN Setting("set_direction") \cup Setting("set_status") \cup {Feeding}
              ELSE Getting]

\* Each thread has a pin of its own.
TwoWriters == [t \in Threads |-> {Ask("set_status", IF t = t1 THEN p1 ELSE p2, v) : v \in {0, 1}}]
============================================================================
