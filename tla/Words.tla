-------------------------------- MODULE Words --------------------------------
(***************************************************************************)
(* The numbers of a command line: sscanf reads each as an unsigned of the  *)
(* machine, and the functions it is passed to take it as an int.           *)
(***************************************************************************)
EXTENDS Integers

CONSTANT SignBit    \* the weight of the sign bit of an int, 2^31

ASSUME SignBitAssumption == SignBit \in Nat \ {0, 1}

Word == 2 * SignBit                 \* so many values has an unsigned
Ints == -SignBit .. SignBit - 1

(* The unsigned that "%u" makes of the digits n, which may have a sign: an  *)
(* unsigned long of twice the width is read first, which stays at its       *)
(* maximum when n does not fit, and cut to its lower half.                  *)
Scan(n) ==
    IF -(Word * Word) < n /\ n < Word * Word THEN n % Word ELSE Word - 1

(* The int with the bits of u.                                              *)
Signed(u) == IF u < SignBit THEN u ELSE u - Word
=============================================================================
