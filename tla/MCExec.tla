------------------------------- MODULE MCExec --------------------------------
(* Programs of one and two segments, one that starts inside a page, one    *)
(* whose segment is larger than the memory, one with a file size that does *)
(* not fit into its segment, and headers that are not loaded.              *)
EXTENDS Exec

Load(a, off, fsz, msz, f) ==
  [load |-> TRUE, vaddr |-> a, offset |-> off, filesz |-> fsz, memsz |-> msz, flags |-> f]
Note(a, msz) ==
  [load |-> FALSE, vaddr |-> a, offset |-> 0, filesz |-> msz, memsz |-> msz, flags |-> {"r"}]
Elf(ph) == [ok |-> TRUE, ph |-> ph]

MCPrograms ==
  { Elf(<<Load(PG, 0, 3, 4, {"r", "x"})>>),
    Elf(<<Load(PG + 5, 0, 5, 6, {"r", "x"}), Note(0, 0)>>),
    Elf(<<Note(PG + 1, 1), Load(PG, 0, 4, 4, {"r", "x"}), Load(2 * PG, 4, 2, 4, {"r", "w"})>>),
    Elf(<<Load(PG, 0, 2, 4, {"r", "x"}), Load(2 * PG, 0, 5, 4, {"r", "w"}), Note(2 * PG, 1)>>),
    Elf(<<Load(PG, 0, 2, 4, {"r", "x"}), Load(2 * PG, 0, 2, 5 * PG, {"r", "w"}), Note(0, 0)>>),
    Elf(<<Load(PG, 0, 2, 4 * PG, {"r", "w"})>>),
    Elf(<<Load(1, 0, 2, 3, {"r", "w"})>>),
    Elf(<<Load(PG, 0, 0, 0, {"r", "x"}), Load(PG + 1, 0, 1, 2, {"r", "x"})>>),
    [ok |-> FALSE, ph |-> <<Load(PG, 0, 3, 4, {"r", "x"})>>] }

ASSUME MCFilesFit == FilesFit

MCArgvs == { <<>>, <<2>>, <<1, 1>>, <<2, 2>> }
=============================================================================
