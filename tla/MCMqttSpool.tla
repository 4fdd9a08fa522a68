------------------------------ MODULE MCMqttSpool ------------------------------
(***************************************************************************)
(* Instances of MqttSpool for TLC.  A record of 3 bytes can be cut after   *)
(* one (not a record any more) and after two (whole, without its newline). *)
(***************************************************************************)
EXTENDS MqttSpool

CONSTANT large    \* the one message that may be longer than the others

(* Three bytes each, but for the large one. *)
Sizes(bytes) == [m \in Msgs |-> IF m = large THEN bytes ELSE 3]

EqualSizes == Sizes(3)

(* Three messages of two, three and four bytes: which of them find room together, how *)
(* many must go for the third, and whether it then fits exactly, depends on the order. *)
OneOfEach == CHOOSE f \in [Msgs -> 2..4] : \A m, n \in Msgs : m # n => f[m] # f[n]

OneTooLarge == Sizes(8)

(* The messages of one size are interchangeable. *)
MessageSymmetry == Permutations(Msgs \ {large})
================================================================================
