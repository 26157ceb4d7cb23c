------------------------------ MODULE MCMonitor ------------------------------
(* Memory of 17 cells, the last 6 in flash.                                  *)
EXTENDS Monitor, TLC

A(again) == [op |-> "plain", again |-> again]
boot(a, r) == [op |-> "bootm", addr |-> a, arg |-> r]
run(names) == [op |-> "run", vars |-> names]
set(v, line) == [op |-> "set", var |-> v, line |-> line]
bootd == [op |-> "bootd"]
bad == [op |-> "bad"]

img(type, comp, kernel, rd, load, ok) ==
    [type |-> type, comp |-> comp, arch |-> "ARM", kernel |-> kernel, ramdisk |-> rd,
     load |-> load, ep |-> load, headerOk |-> TRUE, dataOk |-> ok]

MCImage ==
    [i \in {"kernel", "gzip", "multi", "broken", "bzip2", "rd", "app", "script"} |->
        CASE i = "kernel" -> img("kernel", "none", 2, 0, 0, TRUE)
          [] i = "gzip" -> img("kernel", "gzip", 1, 0, 0, TRUE)
          [] i = "multi" -> img("multi", "none", 2, 2, 1, TRUE)
          [] i = "broken" -> img("kernel", "gzip", 1, 0, 1, FALSE)
          [] i = "bzip2" -> img("kernel", "bzip2", 1, 0, 1, TRUE)
          [] i = "rd" -> img("ramdisk", "none", 0, 2, 3, TRUE)
          [] i = "app" -> img("standalone", "none", 1, 0, 1, TRUE)
          [] OTHER -> [img("script", "none", 1, 0, 1, TRUE) EXCEPT !.headerOk = FALSE]]

(* At 4 is the default load address; 11 is in flash. *)
MCMemories ==
    { 4 :> "kernel" @@ 8 :> "rd", 4 :> "gzip" @@ 11 :> "multi", 3 :> "rd" @@ 11 :> "kernel",
      1 :> "multi", 2 :> "rd" @@ 4 :> "multi", 4 :> "broken" @@ 11 :> "bzip2",
      4 :> "app" @@ 8 :> "script", 1 :> "rd" @@ 5 :> "kernel" @@ 11 :> "gzip" }

MCEnvironment ==
    [v \in {"bootcmd", "v", "w"} |->
        CASE v = "bootcmd" -> << run(<<"v">>), boot(4, Absent) >>
          [] v = "v" -> << A(1), A(0) >>
          [] OTHER -> <<>>]

MCLines ==
    { << A(1), A(1) >>, << run(<<"v", "w">>), A(1) >>, << bootd, bootd >>,
      << set("v", << bootd >>), run(<<"v">>) >>, << set("w", << A(1) >>) >>,
      << [op |-> "expand", var |-> "w"], bad, A(1) >>,
      << [op |-> "script", line |-> << A(1), bootd >>] >>,
      << boot(4, 8) >>, << boot(11, Absent) >>, << boot(11, 3) >>, << boot(4, 2) >>,
      << boot(1, Absent) >>, << boot(5, 1) >>, << boot(8, Absent) >> }

(* The commands of the lines, and of the lines in them.                      *)
In(line) == {line[k] : k \in DOMAIN line}
Holding(c) == IF c.op \in {"set", "script"} THEN In(c.line) ELSE {}

MCCommands ==
    LET outer == UNION {In(line) : line \in MCLines \cup {MCEnvironment[v] : v \in Variables}}
    IN  outer \cup UNION {Holding(c) : c \in outer}
==============================================================================
