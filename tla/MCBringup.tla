------------------------------ MODULE MCBringup ------------------------------
(* Model checking of Bringup: all boards; the cfg says whether at91 has a    *)
(* first stage before g-bios.                                                *)
EXTENDS Bringup

\* No clock, functional clocks alone, and units with one, the other or both.
SomeResetClocks ==
  {[fclk |-> {}, iclk |-> {}],
   [fclk |-> {"uart3", "gpio4"}, iclk |-> {}],
   [fclk |-> {"uart3", "gpio4"}, iclk |-> {"gpio4", "gpt2", "gpio5"}]}
=============================================================================
