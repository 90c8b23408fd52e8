------------------------------ MODULE KeySwitch -------------------------------
(***************************************************************************)
(* From a window of decoded bits to a key: convertBinaryToHex and the      *)
(* switch of remote_control_function, in                                   *)
(* driver/remote_controller_signal/remote_controller_signal.c.             *)
(***************************************************************************)
EXTENDS Integers, FiniteSetsExt

CONSTANTS
    WindowLo, WindowHi,  \* the bits convertBinaryToHex reads: 16 and 23
    KeyTable,            \* the cases of the switch: character code -> key
    KeyPressed           \* the key each word is sent for, on the remote (external)

ASSUME SwitchAssumption ==
    /\ WindowLo \in Nat \ {0} /\ WindowHi \in Nat
    /\ DOMAIN KeyTable \subseteq 0..255
    /\ \A c \in DOMAIN KeyTable : KeyTable[c] \in 0..9

Kept == 11            \* the default case: output stays as it is

(* The value of the byte, its first bit the highest.                       *)
ByteValue(byte) == MapThenSumSet(LAMBDA b : byte[b] * 2^(WindowHi - b), WindowLo..WindowHi)

(* Mutants: letters computed without taking 10 off; the byte window one    *)
(* bit early.                                                              *)
LettersFromTen(binary) ==
    LET hexValue == ByteValue([b \in WindowLo..WindowHi |-> binary[b]])
    IN  IF hexValue < 10 THEN 48 + hexValue ELSE (65 + hexValue) % 256
WindowEarly(binary) ==
    LET hexValue == ByteValue([b \in WindowLo..WindowHi |-> binary[b - 1]])
    IN  IF hexValue < 10 THEN 48 + hexValue ELSE (55 + hexValue) % 256

(* char is unsigned on the ARM targets of the driver.                      *)
convertBinaryToHex(binary) ==
    LET hexValue == ByteValue([b \in WindowLo..WindowHi |-> binary[b]])
    IN  IF hexValue < 10 THEN 48 + hexValue ELSE (55 + hexValue) % 256

(* The switch over the character.                                          *)
KeyOf(array) ==
    LET hex == convertBinaryToHex(array)
    IN  IF hex \in DOMAIN KeyTable THEN KeyTable[hex] ELSE Kept

(* Slot b of the array holds bit b-1 of a frame, since slot 0 holds the    *)
(* lead interval.                                                          *)
KeyOfWord(word) == KeyOf([b \in WindowLo..WindowHi |-> word[b - 1]])

-------------------------------------------------------------------------------
(* What a table of cases and a remote control have to agree on for the     *)
(* decoder to be right: the case a word is switched to is its key ...      *)
SwitchFits == \A w \in DOMAIN KeyPressed : KeyOfWord(w) = KeyPressed[w]

(* ... and no word read one bit early has a case.                          *)
EarlyIsNoKey == \A w \in DOMAIN KeyPressed : KeyOf(w) = Kept
===============================================================================
