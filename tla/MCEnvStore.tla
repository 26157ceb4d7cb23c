----------------------------- MODULE MCEnvStore -----------------------------
(***************************************************************************)
(* One bank of four sectors: the monitor, the environment (a sector of one *)
(* cell and one of two, so that it is erased in two steps and written in   *)
(* three), and a free one.                                                 *)
(***************************************************************************)
EXTENDS EnvStore, TLC

CONSTANTS ip, ethaddr, v1, v2, baudrate, fast, odd, Garbage

MCNSect == <<4>>
MCStart == (<<1, 0>> :> 0) @@ (<<1, 1>> :> 1) @@ (<<1, 2>> :> 2) @@ (<<1, 3>> :> 4)
MCEnd == (<<1, 0>> :> 0) @@ (<<1, 1>> :> 1) @@ (<<1, 2>> :> 3) @@ (<<1, 3>> :> 4)
MCBootProtect == {<<1, 0>>, <<1, 1>>, <<1, 2>>}

(* A network address that may be changed and a rate the table has not, on a *)
(* board with CONFIG_ENV_OVERWRITE; an Ethernet address on one without.     *)
MCBuilds == {
    [once |-> {}, entry |-> {<<ip, v1>>, <<ip, v2>>, <<baudrate, fast>>, <<baudrate, odd>>}],
    [once |-> {ethaddr}, entry |-> {<<ethaddr, v1>>, <<ethaddr, v2>>, <<baudrate, fast>>}]}
MCMirrored == {ip, ethaddr, baudrate}

MCSize == [e \in Entry |-> 3]

(* A buffer that holds every list: a board's environment is much longer     *)
(* than a command line.                                                     *)
MCDataSize == 10

MCDefault == <<<<baudrate, fast>>>>
MCRates == {fast}

MCNoise == {Erased, Garbage}
MCValue == MCNoise \cup [at : EnvCells, of : List]
MCFits == {p \in MCValue \X MCValue : p[1] = Erased \/ p[1] = p[2]}
=============================================================================
