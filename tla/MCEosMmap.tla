----------------------------- MODULE MCEosMmap -----------------------------
(* Small instances of EosMmap for TLC. *)
EXTENDS EosMmap, FiniteSetsExt, TLC

CONSTANTS t1, t2, t3, none, cpu, cpld, u1, u2, u3, null, v0, v1, v2, blank

MCInitRegs == [g \in Regions |-> [a \in Words |-> v0]]
Symmetric  == Permutations(Threads)

NoData == [k \in Places |-> v0]
Fill(v) == [k \in Places |-> v]

Access(o, g, a, n, d) ==
    [op |-> o, region |-> g, off |-> a, len |-> n, data |-> d, null |-> FALSE, list |-> <<g>>]
Read(g, a, n)     == Access("read", g, a, n, NoData)
Write(g, a, n, v) == Access("write", g, a, n, Fill(v))
NullRead(g)       == [Read(g, 0, 1) EXCEPT !.null = TRUE]
LibInit           == [Read(cpu, 0, 0) EXCEPT !.op = "init", !.list = <<cpu, cpld>>]
CpuInit           == [Read(cpu, 0, 0) EXCEPT !.op = "init"]
Exit(g)           == [Read(g, 0, 0) EXCEPT !.op = "exit"]

\* Blocks of one register, of several, that overlap, and refused calls.
SharedRequests ==
    { Read(cpu, 0, 3), Read(cpu, 3, 1), Write(cpu, 0, 2, v1), Write(cpu, 1, 3, v2),
      Write(cpu, 0, 0, v1), Read(cpu, Size + 1, 1), NullRead(cpu), Read(cpld, 0, 2),
      Write(cpld, 0, 2, v2) }

\* Whole sessions, and first accesses to regions that nobody has mapped.
SessionRequests ==
    { LibInit, CpuInit, Exit(cpu), Exit(cpld), Read(cpu, 0, 2), Write(cpld, 1, 2, v1) }

MCPrograms ==
    {[threads |-> Threads, mapped |-> TRUE, failing |-> {}, calls |-> SharedRequests]} \cup
    {[threads |-> p, mapped |-> FALSE, failing |-> {"malloc", "open", "mmap", "munmap"},
      calls |-> SessionRequests] : p \in kSubset(2, Threads)}
============================================================================
