------------------------------- MODULE NecRemote ------------------------------
(* The ten digit keys of the NEC remote control the drivers are written for  *)
(* (external), and the cases of the switch of remote_control_function.       *)
EXTENDS Integers, Sequences

(* Address 0, its complement, the command, its complement, each least        *)
(* significant bit first.                                                    *)
Nec(c) == [n \in 0..31 |->
    IF n < 8 THEN 0
    ELSE IF n < 16 THEN 1
    ELSE IF n < 24 THEN (c \div 2^(n - 16)) % 2
    ELSE 1 - ((c \div 2^(n - 24)) % 2)]

(* Command bytes of the keys 0 to 9, and the character codes of the cases.   *)
Commands == <<22, 12, 24, 94, 8, 28, 90, 66, 82, 74>>
Codes == <<235, 207, 195, 244, 191, 211, 228, 216, 220, 224>>

Position(s, x) == CHOOSE n \in DOMAIN s : s[n] = x

NecTable == [c \in {Codes[n] : n \in DOMAIN Codes} |-> Position(Codes, c) - 1]
NecWords == {Nec(Commands[n]) : n \in DOMAIN Commands}
NecPressed == [w \in NecWords |-> (CHOOSE n \in DOMAIN Commands : w = Nec(Commands[n])) - 1]
===============================================================================
