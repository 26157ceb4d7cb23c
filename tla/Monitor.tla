------------------------------- MODULE Monitor -------------------------------
(***************************************************************************)
(* The monitor (common/main.c, cmd_nvedit.c's run, cmd_bootm.c's bootd and *)
(* bootm, cmd_autoscript.c): the countdown, the prompt, the line that is   *)
(* repeated, command lines of several commands, variables that hold        *)
(* command lines, and commands that run other lines, with ^C at any time.  *)
(*                                                                         *)
(* A line is a sequence of commands.  run_command's local variables are a  *)
(* frame of the stack, and so are those of do_run.                         *)
(***************************************************************************)
EXTENDS Bootm

CONSTANTS
    Cmd,            \* the commands that occur in lines, in variables and in scripts
    Lines,          \* what the user types
    Variables,      \* variables that hold lines
    Environment,    \* their values at boot: lines, or Undefined
    Undefined

(* A command by what it does.                                              *)
(*   plain: anything without an effect here; again: may it be repeated     *)
(*   bad: unknown, with too many arguments, or not a command               *)
(*   expand: a line's word is $(var)                                       *)
(*   set: setenv var line                                                  *)
(*   run: run var var ...        bootd                                     *)
(*   script: autoscr, with a script in memory                              *)
(*   bootm: bootm a arg                                                    *)
Commands == {"plain", "bad", "expand", "set", "run", "bootd", "script", "bootm"}

Values == Seq(Cmd) \cup {Undefined}

ASSUME MonitorAssumption ==
    /\ \A c \in Cmd :
          /\ c.op \in Commands
          /\ c.op = "plain" => c.again \in {0, 1}
          /\ c.op \in {"expand", "set"} => c.var \in Variables
          /\ c.op \in {"set", "script"} => c.line \in Values
          /\ c.op = "run" => c.vars \in Seq(Variables)
          /\ c.op = "bootm" => c.addr \in 0..Top /\ c.arg \in 0..Top \cup {Absent}
    /\ [op |-> "bad"] \in Cmd
    /\ Lines \subseteq Seq(Cmd)
    /\ Environment \in [Variables -> Values] /\ "bootcmd" \in Variables

VARIABLES
    phase,          \* "countdown", "autoboot", "prompt", "running"
    stack,
    result,         \* what the last run_command returned
    had,            \* ctrlc_was_pressed
    lastcommand,
    rc,             \* main_loop's
    env,
    key,            \* a key was pressed in the countdown
    stopped,        \* a command has noticed ^C, and no run went on to its next variable
    unrepeatable    \* since the prompt, a command of the line itself was not repeatable

monVars == <<phase, stack, result, had, lastcommand, rc, env, key, stopped, unrepeatable>>
vars == <<mem, bootVars, monVars>>

Flags == {"repeat", "bootd"}

LineFrames ==
    [kind : {"line"}, by : {"main_loop", "run", "bootd", "script"}, rest : Seq(Cmd),
     called : BOOLEAN, repeatable : {0, 1}, flags : SUBSET Flags]

RunFrames ==
    [kind : {"run"}, by : {"run"}, rest : Seq(Variables), first : BOOLEAN,
     flags : SUBSET Flags]

LineFrame(line, flags, by) ==
    [kind |-> "line", by |-> by, rest |-> line, called |-> FALSE, repeatable |-> 1,
     flags |-> flags]

RunFrame(names, flags) ==
    [kind |-> "run", by |-> "run", rest |-> names, first |-> TRUE, flags |-> flags]

TypeOK ==
    /\ BootTypeOK
    /\ phase \in {"countdown", "autoboot", "prompt", "running"}
    /\ stack \in Seq(LineFrames \cup RunFrames) /\ lastcommand \in Seq(Cmd)
    /\ result \in {-1, 0, 1} /\ rc \in {-1, 0, 1}
    /\ had \in BOOLEAN /\ key \in BOOLEAN /\ stopped \in BOOLEAN /\ unrepeatable \in BOOLEAN
    /\ env \in [Variables -> Values]

-----------------------------------------------------------------------------
(* run_command and its return. *)

Frame == stack[Len(stack)]
Below == SubSeq(stack, 1, Len(stack) - 1)

(* The commands of a line before and after the frame that runs it.           *)
SetFrame(f) == stack' = Append(Below, f)

(* run_command's start, called from the stack below: an old ^C is forgotten; *)
(* without a line, and with an empty one, it returns at once.                *)
RunCommand(below, line, flags, by) ==
    /\ had' = FALSE
    /\ IF line = Undefined \/ line = <<>>
         THEN stack' = below /\ result' = -1
         ELSE stack' = Append(below, LineFrame(line, flags, by)) /\ UNCHANGED result

(* run_command returns to whoever called it. *)
Returns(value) == stack' = Below /\ result' = value

Active == phase \in {"autoboot", "running"}
InLine == Active /\ stack # <<>> /\ Frame.kind = "line" /\ pc = "monitor"

(* Mutation: ^C is looked for only at the end of the line. *)
AfterCommandUnstopped ==
    /\ InLine /\ Frame.called
    /\ SetFrame([Frame EXCEPT !.called = FALSE])
    /\ UNCHANGED <<result, mem, bootVars, phase, had, lastcommand, rc, env, key, stopped,
                   unrepeatable>>

(* "Did the user stop this?" *)
AfterCommand ==
    /\ InLine /\ Frame.called
    /\ IF had THEN Returns(0)
       ELSE SetFrame([Frame EXCEPT !.called = FALSE]) /\ UNCHANGED result
    /\ UNCHANGED <<mem, bootVars, phase, had, lastcommand, rc, env, key, stopped,
                   unrepeatable>>

LineEnds ==
    /\ InLine /\ ~Frame.called /\ Frame.rest = <<>>
    /\ Returns(Frame.repeatable)
    /\ UNCHANGED <<mem, bootVars, phase, had, lastcommand, rc, env, key, stopped,
                   unrepeatable>>

-----------------------------------------------------------------------------
(* The next command of a line. *)

(* process_macros puts a variable's value in the place of its name, after the *)
(* line was cut into commands: a value of several commands is one command     *)
(* with arguments it does not take.                                           *)
Expanded(c) ==
    IF c.op # "expand" THEN c
    ELSE IF env[c.var] # Undefined /\ env[c.var] # <<>>
              /\ \/ Len(env[c.var]) = 1 /\ env[c.var][1].op # "expand"
                 \/ env[c.var][1].op = "plain"
         THEN env[c.var][1]
         ELSE [op |-> "bad"]

ToRun == Expanded(Head(Frame.rest))
Ready(op) == InLine /\ ~Frame.called /\ Frame.rest # <<>> /\ ToRun.op = op
Again(c) == IF c.op = "plain" THEN c.again ELSE IF c.op \in {"set", "script"} THEN 0 ELSE 1

(* The frame while the command runs. *)
Calling(flags) ==
    [Frame EXCEPT !.rest = Tail(@), !.called = TRUE, !.flags = flags,
                  !.repeatable = IF Again(ToRun) = 0 THEN 0 ELSE @]

Notes == unrepeatable' = (unrepeatable \/ (Len(stack) = 1 /\ Again(ToRun) = 0))

(* A command that does nothing here; a long one polls the console and may     *)
(* notice ^C.                                                                 *)
Plain ==
    /\ Ready("plain")
    /\ SetFrame(Calling(Frame.flags))
    /\ \E c \in BOOLEAN : had' = (had \/ c) /\ stopped' = (stopped \/ c)
    /\ Notes
    /\ UNCHANGED <<mem, bootVars, phase, result, lastcommand, rc, env, key>>

(* "give up after bad command" *)
Bad ==
    /\ Ready("bad")
    /\ Returns(-1)
    /\ UNCHANGED <<mem, bootVars, phase, had, lastcommand, rc, env, key, stopped,
                   unrepeatable>>

SetVariable ==
    /\ Ready("set")
    /\ SetFrame(Calling(Frame.flags))
    /\ env' = [env EXCEPT ![ToRun.var] = ToRun.line]
    /\ Notes
    /\ UNCHANGED <<mem, bootVars, phase, result, had, lastcommand, rc, key, stopped>>

(* do_run is entered. *)
Run ==
    /\ Ready("run")
    /\ stack' = Append(Append(Below, Calling(Frame.flags)), RunFrame(ToRun.vars, Frame.flags))
    /\ Notes
    /\ UNCHANGED <<mem, bootVars, phase, result, had, lastcommand, rc, env, key, stopped>>

(* Mutation: the flag is not passed on. *)
RunNextUnflagged ==
    /\ Active /\ stack # <<>> /\ Frame.kind = "run"
    /\ IF Frame.rest # <<>> /\ (Frame.first \/ result = 0)
         THEN RunCommand(Append(Below, [Frame EXCEPT !.rest = Tail(@), !.first = FALSE]),
                         env[Head(Frame.rest)], {}, "run")
         ELSE stack' = Below /\ UNCHANGED <<result, had>>
    /\ stopped' = (stopped /\ stack' = Below)
    /\ UNCHANGED <<mem, bootVars, phase, lastcommand, rc, env, key, unrepeatable>>

(* Mutation: the loop stays at the variable while it succeeds. *)
RunNextSame ==
    /\ Active /\ stack # <<>> /\ Frame.kind = "run"
    /\ IF Frame.rest # <<>> /\ (Frame.first \/ result = 0)
         THEN RunCommand(Append(Below, [Frame EXCEPT !.first = FALSE]),
                         env[Head(Frame.rest)], Frame.flags, "run")
         ELSE stack' = Below /\ UNCHANGED <<result, had>>
    /\ stopped' = (stopped /\ stack' = Below)
    /\ UNCHANGED <<mem, bootVars, phase, lastcommand, rc, env, key, unrepeatable>>

(* do_run's loop: it goes on as long as run_command returns 0, which is what *)
(* it returns when it was stopped.                                           *)
RunNext ==
    /\ Active /\ stack # <<>> /\ Frame.kind = "run"
    /\ IF Frame.rest # <<>> /\ (Frame.first \/ result = 0)
         THEN RunCommand(Append(Below, [Frame EXCEPT !.rest = Tail(@), !.first = FALSE]),
                         env[Head(Frame.rest)], Frame.flags, "run")
         ELSE stack' = Below /\ UNCHANGED <<result, had>>
    /\ stopped' = (stopped /\ stack' = Below)
    /\ UNCHANGED <<mem, bootVars, phase, lastcommand, rc, env, key, unrepeatable>>

(* "avoid bootd recursion" *)
Bootd ==
    /\ Ready("bootd")
    /\ IF "bootd" \in Frame.flags
         THEN Returns(-1) /\ UNCHANGED <<had, unrepeatable>>
         ELSE LET flags == Frame.flags \cup {"bootd"}
              IN  RunCommand(Append(Below, Calling(flags)), env["bootcmd"], flags, "bootd")
                      /\ Notes
    /\ UNCHANGED <<mem, bootVars, phase, lastcommand, rc, env, key, stopped>>

(* autoscr: the header goes into the global header; a sound script is run    *)
(* with no flags.                                                            *)
Script ==
    /\ Ready("script")
    /\ \/ /\ RunCommand(Append(Below, Calling(Frame.flags)), ToRun.line, {}, "script")
          /\ header' \in {i \in Images : Image[i].type = "script"}
       \/ /\ SetFrame(Calling(Frame.flags))
          /\ header' = None /\ UNCHANGED <<result, had>>
    /\ Notes
    /\ UNCHANGED <<mem, pc, addr, image, ramdisk, verify, started>>
    /\ UNCHANGED <<phase, lastcommand, rc, env, key, stopped>>

BootmCommand ==
    /\ Ready("bootm")
    /\ Bootm(ToRun.addr, ToRun.arg)
    /\ SetFrame(Calling(Frame.flags))
    /\ Notes
    /\ UNCHANGED <<phase, result, had, lastcommand, rc, env, key, stopped>>

Booting == Active /\ BootStep /\ UNCHANGED monVars

-----------------------------------------------------------------------------
(* main_loop. *)

Init ==
    /\ BootInit
    /\ phase = "countdown" /\ stack = <<>> /\ result = 0 /\ had = FALSE
    /\ lastcommand = <<>> /\ rc = 1 /\ env = Environment /\ key = FALSE
    /\ stopped = FALSE /\ unrepeatable = FALSE

(* A key stops the countdown. *)
Key ==
    /\ phase = "countdown" /\ ~key
    /\ key' = TRUE
    /\ UNCHANGED <<mem, bootVars, phase, stack, result, had, lastcommand, rc, env, stopped,
                   unrepeatable>>

(* The countdown ends. *)
Autoboot ==
    /\ phase = "countdown"
    /\ IF env["bootcmd"] # Undefined /\ ~key
         THEN RunCommand(<<>>, env["bootcmd"], {}, "main_loop") /\ phase' = "autoboot"
         ELSE phase' = "prompt" /\ UNCHANGED <<stack, result, had>>
    /\ key' = FALSE
    /\ UNCHANGED <<mem, bootVars, lastcommand, rc, env, stopped, unrepeatable>>

AutobootDone ==
    /\ phase = "autoboot" /\ stack = <<>> /\ pc = "monitor"
    /\ phase' = "prompt"
    /\ UNCHANGED <<mem, bootVars, stack, result, had, lastcommand, rc, env, key, stopped,
                   unrepeatable>>

(* The user types a line, or Enter to repeat the last one. *)
Typed ==
    /\ phase = "prompt"
    /\ \E line \in Lines \cup { <<>> } :
          /\ lastcommand' = (IF line = <<>> THEN lastcommand ELSE line)
          /\ RunCommand(<<>>, lastcommand', IF line = <<>> THEN {"repeat"} ELSE {}, "main_loop")
    /\ phase' = "running"
    /\ stopped' = FALSE /\ unrepeatable' = FALSE
    /\ UNCHANGED <<mem, bootVars, rc, env, key>>

(* Mutation: the line is kept. *)
LineDoneKept ==
    /\ phase = "running" /\ stack = <<>> /\ pc = "monitor"
    /\ phase' = "prompt" /\ rc' = result
    /\ UNCHANGED <<mem, bootVars, stack, result, had, lastcommand, env, key, stopped,
                   unrepeatable>>

(* run_command's value: "invalid command or not repeatable, forget it".  ^C   *)
(* at the prompt changes nothing, as rc <= 0 only with an empty lastcommand.  *)
LineDone ==
    /\ phase = "running" /\ stack = <<>> /\ pc = "monitor"
    /\ phase' = "prompt" /\ rc' = result
    /\ lastcommand' = IF rc' <= 0 THEN <<>> ELSE lastcommand
    /\ UNCHANGED <<mem, bootVars, stack, result, had, env, key, stopped, unrepeatable>>

(* do_reset: the board starts again. *)
Reset ==
    /\ pc = "reset"
    /\ pc' = "monitor" /\ header' = None /\ started' = NotStarted
    /\ phase' = "countdown" /\ stack' = <<>> /\ had' = FALSE /\ lastcommand' = <<>> /\ rc' = 1
    /\ env' = Environment /\ key' = FALSE /\ stopped' = FALSE /\ unrepeatable' = FALSE
    /\ UNCHANGED <<mem, addr, image, ramdisk, verify, result>>

Progress ==
    \/ AfterCommand \/ LineEnds \/ Plain \/ Bad \/ SetVariable \/ Run \/ RunNext \/ Bootd
    \/ Script \/ BootmCommand \/ Booting \/ Autoboot \/ LineDone \/ AutobootDone \/ Reset

Next == Progress \/ Key \/ Typed

(* The processor does not stop; the user need not type. *)
Spec == Init /\ [][Next]_vars /\ WF_vars(Progress)

-----------------------------------------------------------------------------
(* bootd never runs inside itself, although its command line may reach it    *)
(* again through variables, lines that change variables, macros and a second *)
(* bootd on the line ("avoid bootd recursion", run_command's flag, which     *)
(* do_run passes on).  A bootcmd that runs a script is not covered: autoscr  *)
(* drops the flag.                                                           *)
BootdOnce == Cardinality({k \in DOMAIN stack : stack[k].by = "bootd"}) <= 1

Begins == stack' # stack /\ InLine /\ ~Frame.called /\ Frame.rest # <<>>

(* After a command was stopped by ^C no other command begins before the      *)
(* prompt, however deep the lines are nested (run_command's last test); but  *)
(* a run goes on with its next variable, as do_run takes the 0 a stopped     *)
(* line returns for success.                                                 *)
StopStops == [][stopped /\ phase = "running" /\ phase' = "running" => ~Begins]_vars

(* Enter repeats a line only when all its commands may be repeated and none  *)
(* was stopped, also after lines that failed, ^C at the prompt, and Enter    *)
(* again (main_loop's use of run_command's value).                           *)
EnterRepeats == phase = "prompt" /\ lastcommand # <<>> => ~unrepeatable /\ ~stopped

(* Every line comes to an end: the prompt, a program that has the processor, *)
(* or a reset (run_command, do_run, do_bootd and autoscript call each other). *)
LineComesToEnd == (phase = "running") ~> (phase \in {"prompt", "countdown"} \/ pc = "gone")
=============================================================================
