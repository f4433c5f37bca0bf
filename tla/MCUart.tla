------------------------------- MODULE MCUart -------------------------------
(* Model checking of Uart: one call of printf() of each kind in the code.    *)
EXTENDS Uart

Call(fmt, args) == [fmt |-> fmt, args |-> args]

\* core/init.c:59 and :35, nand_core.c:186 with a %p before it, init.c:29,
\* ymodem_loader.c:113, and the largest number.
Calls ==
  { Call(<<"LF", "a", "LF">>, <<>>),
    Call(<<"a", "%s", "LF">>, <<<<"b", "LF">>>>),
    Call(<<"%p", "%x", "%x">>, <<0, 236, 4096>>),
    Call(<<"%c", "%x">>, <<"k", 2147483647>>),
    Call(<<"a", "%d", "b">>, <<3>>) }
=============================================================================
