---------------------------- MODULE MCEosSpiRegs ----------------------------
(* Small instances of EosSpiRegs for TLC. *)
EXTENDS EosSpiRegs, TLC

CONSTANTS t1, t2, none, c1, c2, v0, v1, v2, v3, v4, v5, blank, garbage

\* Registers at most two apart, as those of one chunk and the next, differ, and
\* so do pages.
MCInitRegs == [p \in Pages |-> [a \in Cells |-> CASE (a + p) % 3 = 0 -> v0
                                                  [] (a + p) % 3 = 1 -> v1
                                                  [] OTHER           -> v2]]
Symmetric == Permutations(Threads)

Payload == [k \in Cells |-> CASE k = 0 -> v3 [] k = 1 -> v4 [] OTHER -> v5]

Read(c, p, a, n)  == [NoRequest EXCEPT !.chip = c, !.page = p, !.addr = a, !.len = n]
Write(c, p, a, n) == [Read(c, p, a, n) EXCEPT !.kind = "write", !.data = Payload]
CsInitOf(c, f)    == [NoRequest EXCEPT !.kind = "cs_init", !.chip = c, !.cs = f]
SetPara(c, o, ph, pol) ==
    [NoRequest EXCEPT !.kind = "set_para", !.chip = c,
        !.para = ("bit_order" :> o) @@ ("clock_phase" :> ph) @@ ("clock_polarity" :> pol)]

Program(a, b, rs) == [part |-> (c1 :> a) @@ (c2 :> b), calls |-> rs]

\* Accesses of one chunk, of several and of none; callbacks of both kinds.
OneSided == [enable |-> TRUE, disable |-> FALSE]
MCPrograms ==
    { Program("ZL30155", "BCM5389", { Read(c1, 1, 0, 2), Read(c2, 1, 1, 3) }),
      Program("ZL30155", "BCM5389", { Read(c2, 1, 1, 3), Write(c2, 0, 1, 1) }),
      Program("ZL30155", "ZL30143", { Read(c1, 1, 0, 3), Write(c1, 1, 1, 3), Read(c2, 1, 1, 2),
                                      CsInitOf(c2, Both) }),
      Program("ZL30143", "K10",     { Read(c1, 0, 0, 0), Write(c1, 1, 0, 1), Read(c2, 0, 0, 3) }),
      Program("K10", "ZL30143",     { Read(c1, 0, 0, 2), Write(c1, 0, 0, 3) }),
      Program("ACS9520T", "BCM5389", { Read(c1, 0, 1, 3), Write(c1, 0, 0, 3), Read(c2, 0, 0, 0),
                                       Write(c2, 0, 1, 2), CsInitOf(c2, OneSided) }),
      Program("ACS9520T", "BCM5389", { Read(c1, 0, 1, 3), CsInitOf(c2, OneSided),
                                       SetPara(c1, 1, 1, 1), SetPara(c1, 0, 1, 2) }) }
============================================================================
