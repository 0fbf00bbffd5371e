---------------------------- MODULE ConsoleProofs ----------------------------
(***************************************************************************)
(* The line that is typed, for every screen, length of the line, set of    *)
(* letters and pair of commands, whatever is pressed and printed.          *)
(***************************************************************************)
EXTENDS Console, SequenceTheorems, TLAPS

LineTypes ==
  /\ inputbuffer \in [Bytes -> Characters] /\ typed \in Seq(Characters)
  /\ charcount \in Int /\ charcount < LineSize
  /\ astray \in BOOLEAN

(* Until the count goes astray the buffer holds what has been typed. *)
CountIsLength == ~astray => charcount = Len(typed)
BufferHoldsTyped == ~astray => \A i \in DOMAIN typed : inputbuffer[i - 1] = typed[i]

(* Whether it has or not, nothing is behind the line. *)
RestIsClear == \A b \in Bytes : b >= charcount => inputbuffer[b] = NUL

(* The inductive invariant: that the commands are recognised follows, because
   no command has a NUL in it. *)
IInv == LineTypes /\ CountIsLength /\ BufferHoldsTyped /\ RestIsClear

-----------------------------------------------------------------------------
(* What is put into the buffer. *)
LEMMA PutIs ==
  ASSUME LineTypes, NEW index \in Int, NEW char \in Characters
  PROVE  /\ Put(index, char) \in [Bytes -> Characters]
         /\ \A b \in Bytes : Put(index, char)[b] = IF b = index THEN char ELSE inputbuffer[b]
<1>1. CASE index \in Bytes
  BY <1>1 DEF Put, LineTypes
<1>2. CASE index \notin Bytes
  BY <1>2 DEF Put, LineTypes
<1> QED
  BY <1>1, <1>2

(* What is left of a line when its last key is taken back. *)
LEMMA ButLastIs ==
  ASSUME NEW s \in Seq(Characters), s # << >>
  PROVE  /\ ButLast(s) \in Seq(Characters) /\ Len(ButLast(s)) = Len(s) - 1
         /\ \A i \in 1 .. Len(s) - 1 : ButLast(s)[i] = s[i]
<1> DEFINE n == Len(s) - 1
           r == SubSeq(s, 1, n)
<1>1. ButLast(s) = r
  BY DEF ButLast, Front
<1>2. n \in Nat /\ \A i \in 1 .. n : s[i] \in Characters
  OBVIOUS
<1> HIDE DEF n
<1>3. r \in Seq(Characters) /\ Len(r) = IF 1 <= n THEN n - 1 + 1 ELSE 0
  BY <1>2, SubSeqProperties
<1>4. \A i \in 1 .. n : r[i] = s[i]
  BY <1>2, SubSeqProperties
<1>5. Len(r) = n
  BY <1>2, <1>3
<1> HIDE DEF r
<1> QED
  BY <1>1, <1>3, <1>4, <1>5 DEF n

LEMMA Empty ==
  ASSUME NewLine
  PROVE  IInv'
<1>1. /\ charcount' = 0 /\ inputbuffer' = [b \in Bytes |-> NUL]
      /\ typed' = << >> /\ astray' = FALSE
  BY DEF NewLine
<1>2. charcount' \in Int /\ charcount' < LineSize
  BY <1>1, ConsoleAssumption
<1>3. inputbuffer' \in [Bytes -> Characters] /\ typed' \in Seq(Characters)
  BY <1>1 DEF Characters
<1>4. LineTypes'
  <2>1. astray' \in BOOLEAN
    BY <1>1, Zenon
  <2> QED
    BY <1>2, <1>3, <2>1 DEF LineTypes
<1>5. CountIsLength' /\ BufferHoldsTyped' /\ RestIsClear'
  BY <1>1 DEF CountIsLength, BufferHoldsTyped, RestIsClear
<1> QED
  BY <1>4, <1>5 DEF IInv

LEMMA InitIInv == Init => IInv
<1> SUFFICES ASSUME Init PROVE IInv
  OBVIOUS
<1>1. /\ charcount \in InitialCounts /\ inputbuffer = [b \in Bytes |-> NUL]
      /\ typed = << >> /\ astray = (charcount # 0)
  BY DEF Init
<1>2. charcount \in Int /\ charcount < LineSize
  BY <1>1, ConsoleAssumption
<1>3. inputbuffer \in [Bytes -> Characters] /\ typed \in Seq(Characters)
  BY <1>1 DEF Characters
<1>4. LineTypes
  BY <1>1, <1>2, <1>3 DEF LineTypes
<1>5. CountIsLength
  <2>1. astray <=> charcount # 0
    BY <1>1, Zenon
  <2> QED
    BY <1>1, <2>1 DEF CountIsLength
<1>6. BufferHoldsTyped /\ RestIsClear
  BY <1>1 DEF BufferHoldsTyped, RestIsClear
<1> QED
  BY <1>4, <1>5, <1>6 DEF IInv

(* A key that is taken back leaves a NUL. *)
LEMMA BackspaceKeeps ==
  ASSUME IInv, Backspace
  PROVE  IInv'
<1>1. /\ charcount' = charcount - 1 /\ inputbuffer' = Put(charcount', NUL)
      /\ typed' = ButLast(typed) /\ astray' = (astray \/ charcount' < 0)
  BY DEF Backspace
<1>2. LineTypes
  BY DEF IInv
<1>3. charcount \in Int /\ charcount' \in Int /\ charcount' < LineSize
  BY <1>1, <1>2, ConsoleAssumption DEF LineTypes
<1>4. /\ inputbuffer' \in [Bytes -> Characters]
      /\ \A b \in Bytes : inputbuffer'[b] = IF b = charcount' THEN NUL ELSE inputbuffer[b]
  BY <1>1, <1>2, <1>3, PutIs DEF Characters
<1>5. RestIsClear'
  <2> SUFFICES ASSUME NEW b \in Bytes, b >= charcount'
               PROVE  inputbuffer'[b] = NUL
    BY DEF RestIsClear
  <2>1. b = charcount' \/ b >= charcount
    BY <1>1, <1>3 DEF Bytes
  <2> QED
    BY <1>4, <2>1 DEF IInv, RestIsClear
<1>6. typed' \in Seq(Characters)
  BY <1>1, <1>2, ButLastIs DEF LineTypes, ButLast
<1>7. LineTypes'
  BY <1>1, <1>2, <1>3, <1>4, <1>6 DEF LineTypes
<1>8. CountIsLength' /\ BufferHoldsTyped'
  <2> SUFFICES ASSUME ~astray'
               PROVE  /\ charcount' = Len(typed)'
                      /\ \A i \in DOMAIN typed' : inputbuffer'[i - 1] = typed'[i]
    BY DEF CountIsLength, BufferHoldsTyped
  <2>0. ~astray /\ ~(charcount' < 0)
    BY <1>1, Zenon
  <2>1. ~astray /\ 0 <= charcount' /\ charcount = Len(typed)
    BY <1>3, <2>0 DEF IInv, CountIsLength
  <2>2. typed \in Seq(Characters) /\ typed # << >>
    BY <1>1, <1>2, <2>1 DEF LineTypes
  <2>3. /\ Len(typed') = Len(typed) - 1 /\ DOMAIN typed' = 1 .. Len(typed) - 1
        /\ \A i \in 1 .. Len(typed) - 1 : typed'[i] = typed[i]
    BY <1>1, <1>6, <2>2, ButLastIs
  <2>4. ASSUME NEW i \in 1 .. Len(typed) - 1
        PROVE  inputbuffer'[i - 1] = typed'[i]
    <3>1. i \in DOMAIN typed /\ i - 1 \in Bytes /\ i - 1 # charcount'
      BY <1>1, <1>3, <2>1, <2>2, ConsoleAssumption DEF Bytes
    <3>2. inputbuffer[i - 1] = typed[i]
      BY <2>1, <3>1 DEF IInv, BufferHoldsTyped
    <3> QED
      BY <1>4, <2>3, <3>1, <3>2
  <2> QED
    BY <1>1, <2>1, <2>3, <2>4
<1> QED
  BY <1>5, <1>7, <1>8 DEF IInv

(* A character is stored behind the line, where the buffer has room for it. *)
LEMMA CharacterKeeps ==
  ASSUME IInv, NEW char \in Characters, Character(char)
  PROVE  IInv'
<1>1. /\ inputbuffer' = Put(charcount, char) /\ charcount' = charcount + 1
      /\ typed' = Append(typed, char) /\ astray' = astray /\ ~Full
  BY DEF Character
<1>2. LineTypes
  BY DEF IInv
<1>3. charcount \in Int /\ charcount' \in Int /\ charcount' < LineSize
  BY <1>1, <1>2, ConsoleAssumption DEF LineTypes, Full
<1>4. /\ inputbuffer' \in [Bytes -> Characters]
      /\ \A b \in Bytes : inputbuffer'[b] = IF b = charcount THEN char ELSE inputbuffer[b]
  BY <1>1, <1>2, <1>3, PutIs
<1>5. RestIsClear'
  <2> SUFFICES ASSUME NEW b \in Bytes, b >= charcount'
               PROVE  inputbuffer'[b] = NUL
    BY DEF RestIsClear
  <2>1. b # charcount /\ b >= charcount
    BY <1>1, <1>3 DEF Bytes
  <2> QED
    BY <1>4, <2>1 DEF IInv, RestIsClear
<1>6. /\ typed \in Seq(Characters) /\ typed' \in Seq(Characters)
      /\ Len(typed') = Len(typed) + 1 /\ DOMAIN typed' = 1 .. Len(typed) + 1
      /\ \A i \in DOMAIN typed' : typed'[i] = IF i = Len(typed) + 1 THEN char ELSE typed[i]
  BY <1>1, <1>2 DEF LineTypes
<1>7. LineTypes'
  BY <1>1, <1>2, <1>3, <1>4, <1>6 DEF LineTypes
<1>8. CountIsLength' /\ BufferHoldsTyped'
  <2> SUFFICES ASSUME ~astray'
               PROVE  /\ charcount' = Len(typed)'
                      /\ \A i \in DOMAIN typed' : inputbuffer'[i - 1] = typed'[i]
    BY DEF CountIsLength, BufferHoldsTyped
  <2>1. ~astray /\ charcount = Len(typed) /\ Len(typed) \in Nat
    BY <1>1, <1>6 DEF IInv, CountIsLength
  <2>2. ASSUME NEW i \in 1 .. Len(typed) + 1
        PROVE  inputbuffer'[i - 1] = typed'[i]
    <3>1. i - 1 \in Bytes /\ (i - 1 = charcount <=> i = Len(typed) + 1)
      BY <1>1, <1>3, <2>1, ConsoleAssumption DEF Bytes
    <3>2. CASE i = Len(typed) + 1
      BY <1>4, <1>6, <3>1, <3>2
    <3>3. CASE i # Len(typed) + 1
      <4>1. i \in DOMAIN typed
        BY <1>6, <2>1, <3>3
      <4>2. inputbuffer[i - 1] = typed[i]
        BY <2>1, <4>1 DEF IInv, BufferHoldsTyped
      <4> QED
        BY <1>4, <1>6, <3>1, <3>3, <4>2
    <3> QED
      BY <3>2, <3>3
  <2> QED
    BY <1>1, <1>6, <2>1, <2>2
<1> QED
  BY <1>5, <1>7, <1>8 DEF IInv

(* Only the keyboard's handler touches the line. *)
LEMMA NextIInv == IInv /\ [Next]_vars => IInv'
<1> SUFFICES ASSUME IInv, [Next]_vars PROVE IInv'
  OBVIOUS
<1>1. CASE UNCHANGED <<inputbuffer, charcount, typed, astray>>
  BY <1>1 DEF IInv, LineTypes, CountIsLength, BufferHoldsTyped, RestIsClear
<1>2. CASE kernel_main \/ UNCHANGED vars
  BY <1>1, <1>2 DEF kernel_main, line, vars
<1>3. CASE ethernethandlerecv
  BY <1>1, <1>3, Zenon DEF ethernethandlerecv
<1>4. CASE Backspace
  BY <1>4, BackspaceKeeps
<1>5. CASE Enter
  BY <1>5, Empty DEF Enter
<1>6. ASSUME NEW char \in Characters, Character(char)
      PROVE  IInv'
  BY <1>6, CharacterKeeps
<1>7. ASSUME NEW char \in Characters, LastCharacter(char)
      PROVE  IInv'
  BY <1>7, Empty DEF LastCharacter
<1> QED
  BY <1>2, <1>3, <1>4, <1>5, <1>6, <1>7 DEF Next, keyboardHandler, Characters

LEMMA AlwaysIInv == Spec => []IInv
BY InitIInv, NextIInv, PTL DEF Spec

-----------------------------------------------------------------------------
(* A command is recognised when the line begins with it, and only then: the
   buffer has no letter behind the line that stringcompare could go on to. *)
LEMMA CommandRecognised ==
  ASSUME IInv, ~astray, NEW c \in {Clear, Devices}
  PROVE  IsPrefix(c, typed) <=> stringcompare(c, inputbuffer)
<1>1. c \in Seq(Letters) /\ Len(c) <= LineSize /\ NUL \notin Letters /\ LineSize \in Nat
  BY ConsoleAssumption
<1>2. /\ typed \in Seq(Characters) /\ charcount = Len(typed)
      /\ \A i \in DOMAIN typed : inputbuffer[i - 1] = typed[i]
  BY DEF IInv, LineTypes, CountIsLength, BufferHoldsTyped
<1>3. Len(c) \in Nat /\ DOMAIN c = 1 .. Len(c) /\ Len(typed) \in Nat
      /\ DOMAIN typed = 1 .. Len(typed)
  BY <1>1, <1>2
<1>4. ASSUME IsPrefix(c, typed)
      PROVE  stringcompare(c, inputbuffer)
  <2>1. Len(c) <= Len(typed) /\ SubSeq(c, 1, Len(c)) = SubSeq(typed, 1, Len(c))
    BY <1>4 DEF IsPrefix
  <2>2. ASSUME NEW i \in DOMAIN c
        PROVE  c[i] = inputbuffer[i - 1]
    <3>1. SubSeq(c, 1, Len(c))[i] = c[i] /\ SubSeq(typed, 1, Len(c))[i] = typed[i]
      BY <1>1, <1>2, <1>3, <2>1
    <3> QED
      BY <1>2, <1>3, <2>1, <3>1
  <2> QED
    BY <2>2 DEF stringcompare
<1>5. ASSUME stringcompare(c, inputbuffer)
      PROVE  IsPrefix(c, typed)
  <2>1. \A i \in DOMAIN c : c[i] = inputbuffer[i - 1]
    BY <1>5 DEF stringcompare
  <2>2. ASSUME NEW i \in DOMAIN c
        PROVE  i <= Len(typed)
    <3> SUFFICES ASSUME i > Len(typed) PROVE FALSE
      BY <1>3
    <3>1. i - 1 \in Bytes /\ i - 1 >= charcount
      BY <1>1, <1>2, <1>3 DEF Bytes
    <3>2. c[i] = NUL
      BY <2>1, <3>1 DEF IInv, RestIsClear
    <3>3. c[i] \in Letters
      BY <1>1
    <3> QED
      BY <1>1, <3>2, <3>3
  <2>3. Len(c) <= Len(typed)
    BY <1>3, <2>2
  <2>4. \A i \in 1 .. Len(c) : c[i] = typed[i]
    BY <1>2, <1>3, <2>1, <2>3
  <2>5. SubSeq(c, 1, Len(c)) = SubSeq(typed, 1, Len(c))
    BY <1>1, <1>2, <1>3, <2>3, <2>4
  <2> QED
    BY <2>3, <2>5 DEF IsPrefix
<1> QED
  BY <1>4, <1>5

(* inputbuffer is the line that has been typed: Enter runs the commands it
   begins with and no others, for every length of the buffer (keyboardHandler
   and command of keyboardDriver.c). *)
THEOREM LineBuffered == Spec => []BufferIsLine
<1>1. IInv => BufferIsLine
  BY CommandRecognised DEF IInv, BufferIsLine, CountIsLength, BufferHoldsTyped, RestIsClear
<1> QED
  BY AlwaysIInv, <1>1, PTL
=============================================================================
