------------------------------ MODULE MCNetBoot ------------------------------
(* Two servers on one segment.  The first offers files of its own and knows  *)
(* a gateway; the second sends the board to a file server of its own.        *)
EXTENDS NetBoot

MCAddresses == 1..6
MCHostOf == [a \in 1..6 |-> CASE a = 1 -> "first" [] a = 2 -> "second" [] a = 3 -> "files"
                              [] a = 4 -> "router" [] OTHER -> "board"]
MCHosts == {"first", "second", "files", "router", "board"}
MCOffer ==
    [s \in {"first", "second"} |->
        IF s = "first"
        THEN [yiaddr |-> 5, siaddr |-> 1, own |-> 1, file |-> "image",
              options |-> << [code |-> "size", value |-> 9], [code |-> "gateway", value |-> 4] >>]
        ELSE [yiaddr |-> 6, siaddr |-> 3, own |-> 2, file |-> "none",
              options |-> << [code |-> "mask", value |-> 7], [code |-> "size", value |-> 8] >>]]
=============================================================================
