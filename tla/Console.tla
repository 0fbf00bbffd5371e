------------------------------- MODULE Console -------------------------------
(***************************************************************************)
(* The terminal and the line that is typed at it: kernelprint and console  *)
(* of Kernel/Terminal/Terminal.c, which kernel_main runs with interrupts   *)
(* on, and keyboardHandler of Kernel/keyboard/keyboardDriver.c, which      *)
(* interrupts it, prints through the same functions, and edits             *)
(* inputbuffer.  A handler is one step, since its gate keeps interrupts    *)
(* off.  kernel_main takes a step for each load and each store of what it  *)
(* shares: the compiler is given no optimisation, and cursor_col++ is a    *)
(* load, an addition and a store.                                          *)
(*                                                                         *)
(* A string is a sequence of what kernelprint tells apart: characters,     *)
(* "%n" and "%h".  "%d" is printed by an exception only, before the panic. *)
(***************************************************************************)
EXTENDS Integers, SequencesExt

CONSTANTS
  Cols, Rows,      \* of the VGA buffer (80 and 25)
  LineSize,        \* bytes of inputbuffer (65)
  Padding,         \* bytes between charcount and inputbuffer, for the alignment
                   \* of the latter (28): bound on keys taken back too many
  Letters,         \* keys with a character
  Prompt,          \* "twisted@MSI: " (13 characters)
  BootMessage,     \* a message of kernel_main after sti, and ...
  BootMessages,    \* ... how many of them there are (5)
  TooLong,         \* "MAX COMMAND REACHED%n"
  PacketMessage,   \* "ARP Packet recived%n"
  DeviceList,      \* the strings that enumeratedevices prints
  Clear, Devices,  \* the commands
  Keys,            \* subset of Letters \cup {NUL, "backspace", "enter"}
  MaxEvents,       \* bound on key presses and messages of the card's handler
  InitialCounts,   \* what memory may hold for charcount and ...
  InitialCursors   \* ... for cursor_col and cursor_row at the start

NUL == "nul"
Cells == 0 .. Cols * Rows - 1
Bytes == 0 .. LineSize - 1

(* A line that is as long as it may be, with the prompt, is shorter than a row,
   and the commands are words of letters, of which NUL is none. *)
ASSUME ConsoleAssumption ==
  /\ {Cols, Rows, LineSize} \subseteq Nat \ {0} /\ {Padding, MaxEvents} \subseteq Nat
  /\ Len(Prompt) + LineSize - 1 < Cols
  /\ {Clear, Devices} \subseteq Seq(Letters) /\ NUL \notin Letters
  /\ Len(Clear) <= LineSize /\ Len(Devices) <= LineSize
  /\ Keys \subseteq Letters \cup {NUL, "backspace", "enter"}
  /\ InitialCounts \subseteq 0 .. LineSize - 1 /\ InitialCursors \subseteq Int \X Nat

VARIABLES
  terminal,     \* vga, cursor_col, cursor_row
  main,         \* kernel_main: its next statement pc, messages of the boot to
                \* come, kernelprint's string, col, offset and count, the
                \* register reg between a load and a store
  inputbuffer, charcount,
  events,       \* key presses and messages of the card so far
  typed,        \* the keys of this line, as the user sees it
  astray,       \* charcount was not 0 when this line began, or negative since
  unseen,       \* since this line began a key that shows nothing was taken back
  raced         \* since this line began the card has printed, or a key was handled
                \* while kernel_main was printing or moving the cursor

line == <<inputbuffer, charcount, typed, astray, unseen, raced>>
vars == <<terminal, main, line, events>>

-----------------------------------------------------------------------------
(* kernelprint, as a handler runs it. *)

(* Past the 80 x 25 cells a character is in memory that is not shown. *)
Store(t, index, char) ==
  IF index \in Cells THEN [t EXCEPT !.vga[index] = char] ELSE t

(* printhex prints two digits, and moves the cursor, for the one place that
   kernelprint counts. *)
printhex(t) ==
  LET cell == t.cursor_col + Cols * t.cursor_row
  IN  [Store(Store(t, cell, "hex"), cell + 1, "hex") EXCEPT !.cursor_col = @ + 2]

(* A pass of kernelprint's loop, with its locals in p. *)
PrintNext(p, token) ==
  CASE token = "%n" ->
         [t |-> [p.t EXCEPT !.cursor_row = @ + 1, !.cursor_col = 0],
          col |-> 0, offset |-> p.offset + 1, count |-> 0]
    [] token = "%h" ->
         [p EXCEPT !.t = [printhex(@) EXCEPT !.cursor_col = @ + 1], !.count = @ + 1]
    [] OTHER ->
         [p EXCEPT !.t = [Store(@, p.col + p.count + Cols * p.offset, token)
                            EXCEPT !.cursor_col = @ + 1],
                   !.count = @ + 1]

kernelprint(t, string) ==
  FoldLeft(PrintNext,
           [t |-> t, col |-> t.cursor_col, offset |-> t.cursor_row, count |-> 0],
           string).t

clearscreen(t) ==
  [t EXCEPT !.vga = [cell \in Cells |-> " "], !.cursor_col = 0, !.cursor_row = 0]

(* charcount and the cursor are in .bss, which is not in the image, and which
   nobody clears.  In an emulator they are 0.  A count past the buffer would make
   the first key a store anywhere in memory, and a negative row would never be
   corrected: neither is among the initial values. *)
Init ==
  /\ \E cursor \in InitialCursors :
       terminal = [vga |-> [cell \in Cells |-> " "], cursor_col |-> cursor[1],
                   cursor_row |-> cursor[2]]
  /\ main = [pc |-> "boot", boots |-> BootMessages, string |-> << >>, col |-> 0,
             offset |-> 0, count |-> 0, reg |-> 0, after |-> "prompt?"]
  /\ inputbuffer = [b \in Bytes |-> NUL] /\ charcount \in InitialCounts
  /\ events = 0
  /\ typed = << >> /\ astray = (charcount # 0)
  /\ unseen = FALSE /\ raced = FALSE

-----------------------------------------------------------------------------
(* kernel_main.  Its strings have no "%h". *)

At(place) == main.pc = place
Goto(place) == main' = [main EXCEPT !.pc = place]
Load(value, place) == main' = [main EXCEPT !.reg = value, !.pc = place]
Branch(condition, then, else) == Goto(IF condition THEN then ELSE else)
ClearIf(condition, next) ==
  main' = [main EXCEPT !.pc = IF condition THEN "home" ELSE next, !.after = next]
SetCol(value) == terminal' = [terminal EXCEPT !.cursor_col = value]
SetRow(value) == terminal' = [terminal EXCEPT !.cursor_row = value]

(* From the messages of the boot to the loop. *)
boot ==
  /\ At("boot") /\ UNCHANGED terminal
  /\ IF main.boots = 0 THEN Goto("console")
     ELSE main' = [main EXCEPT !.boots = @ - 1, !.string = BootMessage, !.pc = "col"]

kernelprintCall ==
  /\ UNCHANGED terminal
  /\ \/ At("col") /\ main' = [main EXCEPT !.col = terminal.cursor_col, !.pc = "offset"]
     \/ At("offset") /\ main' = [main EXCEPT !.offset = terminal.cursor_row,
                                             !.count = 0, !.pc = "character"]
     \/ At("character") /\ main.string = << >>
        /\ Branch(main.boots = 0, "console", "boot")

kernelprintCharacter ==
  /\ At("character") /\ main.string # << >> /\ Head(main.string) # "%n"
  /\ terminal' = Store(terminal, main.col + main.count + Cols * main.offset,
                       Head(main.string))
  /\ Goto("cursor_col++")

kernelprintNewline ==
  \/ /\ At("character") /\ main.string # << >> /\ Head(main.string) = "%n"
     /\ main' = [main EXCEPT !.offset = @ + 1, !.reg = terminal.cursor_row,
                             !.pc = "store row"]
     /\ UNCHANGED terminal
  \/ At("store row") /\ SetRow(main.reg + 1) /\ Goto("minus one")
  \/ /\ At("minus one") /\ SetCol(-1)
     /\ main' = [main EXCEPT !.count = -1, !.col = 0, !.pc = "cursor_col++"]

kernelprintAdvance ==
  /\ \/ /\ At("cursor_col++") /\ UNCHANGED terminal
        /\ main' = [main EXCEPT !.count = @ + 1, !.reg = terminal.cursor_col,
                                !.pc = "store col"]
     \/ /\ At("store col") /\ SetCol(main.reg + 1)
        /\ main' = [main EXCEPT !.string = Tail(@), !.pc = "character"]

(* Mutant: cursor_col > 80. *)
WideAbove == terminal.cursor_col > Cols

Wide == terminal.cursor_col >= Cols

(* console reads the cursor for each of its conditions, ... *)
consoleChecks ==
  /\ UNCHANGED terminal
  /\ \/ At("console") /\ Branch(terminal.cursor_col = Cols, "last row?", "negative?")
     \/ At("last row?") /\ ClearIf(terminal.cursor_row = Rows - 1, "negative?")
     \/ At("negative?") /\ Branch(terminal.cursor_col < 0, "zero", "wide?")
     \/ At("wide?") /\ Branch(Wide, "wrap", "low?")
     \/ At("low?") /\ ClearIf(terminal.cursor_row >= Rows, "prompt?")
     \/ At("prompt?") /\ IF terminal.cursor_col = 0
                         THEN main' = [main EXCEPT !.string = Prompt, !.pc = "col"]
                         ELSE Goto("console")

(* ... and corrects it.  A screen that is full is cleared: the cursor goes
   home, once in console and once at the end of clearscreen. *)
consoleCorrects ==
  \/ At("zero") /\ SetCol(0) /\ Goto("wide?")
  \/ At("wrap") /\ SetCol(0) /\ Goto("load row")
  \/ At("load row") /\ Load(terminal.cursor_row, "next row") /\ UNCHANGED terminal
  \/ At("next row") /\ SetRow(main.reg + 1) /\ Goto("low?")
  \/ At("home") /\ SetRow(0) /\ Goto("home col")
  \/ At("home col") /\ SetCol(0) /\ Goto("clear")
  \/ /\ At("clear") /\ Goto("clear col")
     /\ terminal' = [terminal EXCEPT !.vga = [cell \in Cells |-> " "]]
  \/ At("clear col") /\ SetCol(0) /\ Goto("clear row")
  \/ At("clear row") /\ SetRow(0) /\ Goto(main.after)

kernel_main ==
  /\ \/ boot \/ kernelprintCall \/ kernelprintCharacter \/ kernelprintNewline
     \/ kernelprintAdvance \/ consoleChecks \/ consoleCorrects
  /\ UNCHANGED <<line, events>>

-----------------------------------------------------------------------------
(* The handlers. *)

(* kernel_main goes round the loop of console and finds nothing to do. *)
AtRest ==
  /\ main.pc \in {"console", "negative?", "wide?", "low?", "prompt?"}
  /\ terminal.cursor_col \in 1 .. Cols - 1 /\ terminal.cursor_row \in 0 .. Rows - 1

Interrupt == events < MaxEvents /\ events' = events + 1 /\ UNCHANGED main

Pressed(key) == key \in Keys /\ Interrupt

(* A store to the padding before inputbuffer has no effect. *)
Put(index, char) ==
  IF index \in Bytes THEN [inputbuffer EXCEPT ![index] = char] ELSE inputbuffer

ButLast(s) == IF s = << >> THEN s ELSE Front(s)

(* Backspace takes back the last byte that was stored, and blanks the last cell
   that was printed.  For a key that has no character these are not the same
   key's: what is still in inputbuffer is gone from the screen. *)
TakesBackUnseen == typed # << >> /\ Last(typed) = NUL

(* Mutant: the cursor stays behind the blank. *)
BackspaceStaysBehind ==
  /\ Pressed("backspace") /\ charcount > -Padding
  /\ terminal' = kernelprint([terminal EXCEPT !.cursor_col = @ - 1], <<" ">>)
  /\ charcount' = charcount - 1
  /\ inputbuffer' = Put(charcount', NUL)
  /\ typed' = ButLast(typed)
  /\ astray' = (astray \/ charcount' < 0) /\ unseen' = (unseen \/ TakesBackUnseen)
  /\ raced' = (raced \/ ~AtRest)

Backspace ==
  /\ Pressed("backspace") /\ charcount > -Padding
  /\ LET left == [terminal EXCEPT !.cursor_col = @ - 1]
     IN  terminal' = [kernelprint(left, <<" ">>) EXCEPT !.cursor_col = @ - 1]
  /\ charcount' = charcount - 1
  /\ inputbuffer' = Put(charcount', NUL)
  /\ typed' = ButLast(typed)
  /\ astray' = (astray \/ charcount' < 0) /\ unseen' = (unseen \/ TakesBackUnseen)
  /\ raced' = (raced \/ ~AtRest)

(* Mutant: the buffer is not cleared. *)
NewLineKeepsBuffer ==
  /\ charcount' = 0 /\ UNCHANGED inputbuffer
  /\ typed' = << >> /\ astray' = FALSE /\ unseen' = FALSE /\ raced' = ~AtRest

(* The line is done: an empty one begins. *)
NewLine ==
  /\ charcount' = 0 /\ inputbuffer' = [b \in Bytes |-> NUL]
  /\ typed' = << >> /\ astray' = FALSE /\ unseen' = FALSE /\ raced' = ~AtRest

stringcompare(s, buf) == \A i \in DOMAIN s : s[i] = buf[i - 1]

command(t) ==
  LET cleared == IF stringcompare(Clear, inputbuffer) THEN clearscreen(t) ELSE t
  IN  IF stringcompare(Devices, inputbuffer)
      THEN FoldLeft(kernelprint, cleared, DeviceList) ELSE cleared

Enter ==
  /\ Pressed("enter")
  /\ terminal' = command([terminal EXCEPT !.cursor_col = 0, !.cursor_row = @ + 1])
  /\ NewLine

(* A key without a letter prints nothing, but is stored. *)
Printed(char) == IF char = NUL THEN terminal ELSE kernelprint(terminal, <<char>>)

(* Mutant: charcount > 65. *)
FullAbove == charcount + 1 > LineSize

Full == charcount + 1 >= LineSize

Character(char) ==
  /\ Pressed(char) /\ ~Full
  /\ terminal' = Printed(char)
  /\ inputbuffer' = Put(charcount, char) /\ charcount' = charcount + 1
  /\ typed' = Append(typed, char)
  /\ raced' = (raced \/ ~AtRest) /\ UNCHANGED <<astray, unseen>>

(* The last byte of the buffer ends the line. *)
LastCharacter(char) ==
  /\ Pressed(char) /\ Full
  /\ terminal' = kernelprint([Printed(char) EXCEPT !.cursor_col = 0, !.cursor_row = @ + 1],
                             TooLong)
  /\ NewLine

keyboardHandler ==
  \/ Backspace \/ Enter
  \/ \E char \in Letters \cup {NUL} : Character(char) \/ LastCharacter(char)

(* The card's handler prints a line about each packet. *)
ethernethandlerecv ==
  /\ Interrupt
  /\ terminal' = kernelprint(terminal, PacketMessage)
  /\ raced' = TRUE /\ UNCHANGED <<inputbuffer, charcount, typed, astray, unseen>>

Next == kernel_main \/ keyboardHandler \/ ethernethandlerecv

Spec == Init /\ [][Next]_vars

(* A handler returns to kernel_main, which then goes on. *)
FairSpec == Spec /\ WF_vars(kernel_main)

-----------------------------------------------------------------------------
Characters == Letters \cup {NUL}

TypeOK ==
  /\ terminal.vga \in [Cells -> STRING]
  /\ {terminal.cursor_col, terminal.cursor_row, main.reg} \subseteq Int
  /\ main.boots \in 0 .. BootMessages /\ main.count \in Int
  /\ inputbuffer \in [Bytes -> Characters] /\ charcount \in -Padding .. LineSize - 1
  /\ events \in 0 .. MaxEvents
  /\ typed \in Seq(Characters) /\ {astray, unseen, raced} \subseteq BOOLEAN

(* inputbuffer is the line that has been typed, so that Enter would run the
   commands that it begins with and no others (README.md:34, "user is able to
   enter commands"), and nothing of an earlier one is behind it that a command
   could be taken from; of a line whose count has gone astray, at least the
   latter is true (keyboardHandler). *)
BufferIsLine ==
  /\ ~astray => /\ charcount = Len(typed)
                /\ \A i \in DOMAIN typed : inputbuffer[i - 1] = typed[i]
                /\ \A c \in {Clear, Devices} :
                     IsPrefix(c, typed) <=> stringcompare(c, inputbuffer)
  /\ \A b \in Bytes : b >= charcount => inputbuffer[b] = NUL

(* Wherever the handlers and lost updates have left it, console brings the
   cursor back onto the screen once they let it. *)
OnScreen == terminal.cursor_col \in 0 .. Cols - 1 /\ terminal.cursor_row \in 0 .. Rows - 1
CursorSettles == <>[]OnScreen

(* What a line of keys looks like: Shift, Tab, Ctrl and the arrows are stored as
   NUL, and show nothing. *)
Visible(char) == char # NUL

(* The row of the cursor shows the prompt and the line as it has been typed and
   edited, ready for the next key, when no handler has come while kernel_main
   was at work on the screen: kernelprint, the keyboard's handler and console
   agree about the cursor, past full screens, long lines, keys that show nothing
   and commands too.  After a backspace over such a key they do not: the case is
   excepted, and the buffer is then a letter ahead of the screen. *)
LineOnScreen ==
  (AtRest /\ ~raced /\ ~astray /\ ~unseen) =>
    LET shown == Prompt \o SelectSeq(typed, Visible)
        start == terminal.cursor_col + Cols * terminal.cursor_row - Len(shown)
    IN  /\ terminal.cursor_col = Len(shown)
        /\ \A i \in DOMAIN shown : terminal.vga[start + i - 1] = shown[i]
=============================================================================
