------------------------------ MODULE MCConsole ------------------------------
(* Two rows of five columns, a line of three bytes, a prompt of two characters and
   commands of one and of two letters; the keys are a letter, one that is stored
   as NUL, Backspace and Enter.  The list of devices has the line breaks and the
   numbers of the real one. *)
EXTENDS Console

MCOffScreen == {<<-2, 3>>}
MCPrompt == <<">", ">">>
MCBootMessage == <<"t", "%n">>
MCTooLong == <<"t", "%n">>
MCPacketMessage == <<"t", "t", "%n">>
MCDeviceList == << <<"%n", "t", "%h">>, <<"%h", "%n">> >>
MCClear == <<"c">>
MCDevices == <<"c", "c">>
=============================================================================
