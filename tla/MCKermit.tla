------------------------------ MODULE MCKermit ------------------------------
(***************************************************************************)
(* A file of two data packets, with a control character and the sender's   *)
(* quote character in it, both sent as two characters.                     *)
(***************************************************************************)
EXTENDS Kermit, TLC

CONSTANTS a, x, hash, amp, ctl

MCChar == {a, x, hash, amp}
MCByte == MCChar \cup {ctl}
MCKtrans == (a :> a) @@ (x :> ctl) @@ (hash :> hash) @@ (amp :> amp)
MCEncode == (a :> <<a>>) @@ (x :> <<x>>) @@ (hash :> <<hash>>)
            @@ (amp :> <<amp, amp>>) @@ (ctl :> <<amp, x>>)
MCFileName == <<x>>
MCFile == << <<a, ctl>>, <<amp>> >>
=============================================================================
