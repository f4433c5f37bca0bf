------------------------------- MODULE MCBoot -------------------------------
(***************************************************************************)
(* The boards of build/configs, each with its init calls and loaders.      *)
(* Boards that differ in nothing that Boot looks at are listed once.       *)
(***************************************************************************)
EXTENDS Boot

Call(l, w) == [level |-> l, word |-> w]

\* mcu: clocks at level 1; UART at 2; banner at 3; SDRAM at 4 with the end of
\* the SDRAM as its result.
ArmCalls(sdramEnd) == {Call(1, 0), Call(2, 0), Call(3, 0), Call(4, sdramEnd)}

\* s3c24x and at91 end at 0x34000000 and 0x24000000, s3c64x at 0x54000000.
S3C2440 == [menu |-> TRUE, default |-> "n", loaders |-> {"n", "y"},
            pl011 |-> FALSE, calls |-> ArmCalls(832)]
AT91 == [menu |-> TRUE, default |-> "n", loaders |-> {"n", "k", "y"},
         pl011 |-> FALSE, calls |-> {Call(2, 0), Call(3, 0), Call(4, 576)}]
S3C6410 == [menu |-> TRUE, default |-> "n", loaders |-> {"n", "k", "y"},
            pl011 |-> FALSE, calls |-> ArmCalls(1344)]
ArmVirt == [menu |-> TRUE, default |-> NoKey, loaders |-> {"k", "y"},
            pl011 |-> TRUE, calls |-> {Call(1, 0), Call(2, 0), Call(3, 0)}]
\* A configuration without CONFIG_LOADER_MENU, as e310_defconfig, but with
\* loaders.
NoMenu == [menu |-> FALSE, default |-> "n", loaders |-> {"n", "k"},
           pl011 |-> FALSE, calls |-> {Call(0, 0), Call(2, 0), Call(3, 0)}]
\* omap3 and omap4 end at 0x84000000.
OMAP == [menu |-> TRUE, default |-> "n", loaders |-> {"n", "k", "y"},
         pl011 |-> FALSE, calls |-> ArmCalls(2112)]

BoardsThatStart == {S3C2440, AT91, S3C6410, ArmVirt, NoMenu}
BoardsAll       == BoardsThatStart \cup {OMAP}
=============================================================================
