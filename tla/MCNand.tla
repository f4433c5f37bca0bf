------------------------------- MODULE MCNand -------------------------------
(* Model checking of Nand: chips from g_nand_chip_desc, sizes in KB.  The    *)
(* table has no duplicates of an ID, so a chip stands for its entry.         *)
EXTENDS Nand

MB == 1024

Small(mb)      == [known |-> TRUE, size |-> mb * MB, write_size |-> 512, ext |-> 0,
                   slow |-> FALSE]
Large(mb, ext) == [known |-> TRUE, size |-> mb * MB, write_size |-> 0, ext |-> ext,
                   slow |-> FALSE]
Unknown        == [Large(64, 1) EXCEPT !.known = FALSE]

\* Chips whose number of row bytes the code gets right, of each kind.
GoodChips ==
  {Small(16), Small(32), Small(256), Unknown}
    \cup {Large(mb, 1) : mb \in {64, 128, 256, 1024, 2048}}
    \cup {Large(2048, 2), [Large(128, 1) EXCEPT !.slow = TRUE]}

\* 0x76 and 0x79 of the table.
SmallChips == {Small(64), Small(128)}
=============================================================================
