---------------------------- MODULE MonitorProofs ----------------------------
(***************************************************************************)
(* Theorems about the monitor, for every set of commands, lines, variables *)
(* and images, and lines nested in each other to any depth.                *)
(***************************************************************************)
EXTENDS Monitor, SequenceTheorems, FiniteSetTheorems, TLAPS

Frames == LineFrames \cup RunFrames

(* The frames below the top are waiting for the one above them.              *)
StackOK ==
    /\ stack \in Seq(Frames)
    /\ stack # <<>> => stack[1].kind = "line"
    /\ \A k \in 1..Len(stack) :
          k < Len(stack) /\ stack[k].kind = "line" => stack[k].called

ControlOK ==
    /\ lastcommand \in Seq(Cmd) /\ env \in [Variables -> Values]
    /\ had \in BOOLEAN /\ stopped \in BOOLEAN /\ unrepeatable \in BOOLEAN

(* A line that was stopped is on its way out: every line below is left by    *)
(* run_command's last test, with the value 0.                                *)
StopOK ==
    Active /\ stopped =>
        /\ had
        /\ \A k \in 1..Len(stack) : stack[k].kind = "line" => stack[k].called
        /\ stack = <<>> => result = 0

(* What makes a line unrepeatable is in the frame at the bottom, or was      *)
(* returned by it.                                                           *)
RepeatOK ==
    phase = "running" /\ unrepeatable =>
        IF stack = <<>> THEN result <= 0 ELSE stack[1].repeatable = 0

(* Before the first prompt there is nothing to repeat. *)
LastOK ==
    /\ phase \in {"countdown", "autoboot"} => lastcommand = <<>>
    /\ phase = "countdown" => ~stopped

ControlInv ==
    StackOK /\ ControlOK /\ StopOK /\ RepeatOK /\ LastOK /\ EnterRepeats

-----------------------------------------------------------------------------
(* Stacks. *)

(* The stack with nothing on it. *)
LEMMA EmptyStack ==
    <<>> \in Seq(Frames) /\ <<>> \in Seq(Cmd) /\ \A k \in 1..Len(<<>>) : FALSE
  <1>1. <<>> \in Seq(Frames) /\ <<>> \in Seq(Cmd) /\ Len(<<>>) = 0
    BY EmptySeq
  <1>2. \A n : n = 0 => \A k \in 1..n : FALSE
    OBVIOUS
  <1> QED BY <1>1, <1>2

(* The top frame is removed. *)
LEMMA Popped ==
    ASSUME NEW S, NEW s \in Seq(S), s # <<>>
    PROVE  /\ Len(s) \in Nat \ {0}
           /\ SubSeq(s, 1, Len(s) - 1) \in Seq(S)
           /\ Len(SubSeq(s, 1, Len(s) - 1)) = Len(s) - 1
           /\ \A k \in 1..Len(s) - 1 : SubSeq(s, 1, Len(s) - 1)[k] = s[k]
           /\ SubSeq(s, 1, Len(s) - 1) = <<>> <=> Len(s) = 1
  <1> DEFINE n == Len(s) - 1
             t == SubSeq(s, 1, n)
  <1>1. n \in Nat /\ Len(s) = n + 1 /\ \A k \in 1..n : s[k] \in S
    BY LenProperties, EmptySeq, ElementOfSeq
  <1> HIDE DEF n
  <1>2. /\ t \in Seq(S) /\ Len(t) = IF 1 <= n THEN n - 1 + 1 ELSE 0
        /\ \A k \in 1..n - 1 + 1 : t[k] = s[1 + k - 1]
    BY <1>1, SubSeqProperties
  <1> HIDE DEF t
  <1>3. Len(t) = n /\ \A k \in 1..n : t[k] = s[k]
    BY <1>1, <1>2
  <1>4. t = <<>> <=> Len(t) = 0
    BY <1>2, EmptySeq
  <1> QED BY <1>1, <1>2, <1>3, <1>4 DEF t, n

(* t is s with f on top, and perhaps with more on it. *)
SameBelow(s, f, t) ==
    /\ t \in Seq(Frames) /\ t # <<>> /\ t[Len(s)] = f
    /\ \A k \in 1..Len(s) - 1 : t[k] = s[k]

(* The top frame is replaced by another. *)
OnTop(s, f) == Append(SubSeq(s, 1, Len(s) - 1), f)

LEMMA Replaced ==
    ASSUME NEW s \in Seq(Frames), s # <<>>, NEW f \in Frames
    PROVE  SameBelow(s, f, OnTop(s, f)) /\ Len(OnTop(s, f)) = Len(s)
  <1> DEFINE u == SubSeq(s, 1, Len(s) - 1)
  <1>1. /\ Len(s) \in Nat \ {0} /\ u \in Seq(Frames) /\ Len(u) = Len(s) - 1
        /\ \A k \in 1..Len(s) - 1 : u[k] = s[k]
    BY Popped
  <1>2. OnTop(s, f) = Append(u, f)
    BY DEF OnTop
  <1> HIDE DEF u
  <1>3. /\ Append(u, f) \in Seq(Frames) /\ Append(u, f) # <<>>
        /\ Len(Append(u, f)) = Len(u) + 1
        /\ \A k \in 1..Len(u) : Append(u, f)[k] = u[k]
        /\ Append(u, f)[Len(u) + 1] = f
    BY <1>1, AppendProperties
  <1> QED BY <1>1, <1>2, <1>3 DEF SameBelow

(* The top frame is replaced, and another is put on it. *)
OnTopTwo(s, f, g) == Append(OnTop(s, f), g)

LEMMA Pushed ==
    ASSUME NEW s \in Seq(Frames), s # <<>>, NEW f \in Frames, NEW g \in Frames
    PROVE  /\ SameBelow(s, f, OnTopTwo(s, f, g))
           /\ Len(OnTopTwo(s, f, g)) = Len(s) + 1 /\ OnTopTwo(s, f, g)[Len(s) + 1] = g
  <1> DEFINE u == OnTop(s, f)
  <1>1. /\ Len(s) \in Nat \ {0} /\ u \in Seq(Frames) /\ Len(u) = Len(s)
        /\ u[Len(s)] = f /\ \A k \in 1..Len(s) - 1 : u[k] = s[k]
    BY Replaced, Popped DEF SameBelow
  <1>2. OnTopTwo(s, f, g) = Append(u, g)
    BY DEF OnTopTwo
  <1> HIDE DEF u
  <1>3. /\ Append(u, g) \in Seq(Frames) /\ Append(u, g) # <<>>
        /\ Len(Append(u, g)) = Len(u) + 1
        /\ \A k \in 1..Len(u) : Append(u, g)[k] = u[k]
        /\ Append(u, g)[Len(u) + 1] = g
    BY <1>1, AppendProperties
  <1> QED BY <1>1, <1>2, <1>3 DEF SameBelow

-----------------------------------------------------------------------------
(* The frame on top. *)

(* It is a frame of its kind. *)
LEMMA TopFrame ==
    ASSUME StackOK, stack # <<>>
    PROVE  /\ Len(stack) \in Nat \ {0} /\ Frame \in Frames
           /\ Frame.kind = "line" => Frame \in LineFrames
           /\ Frame.kind = "run" => Frame \in RunFrames /\ Len(stack) > 1
           /\ Frame.flags \in SUBSET Flags
  <1>1. Len(stack) \in Nat \ {0}
    BY Popped DEF StackOK
  <1>2. Frame \in Frames
    BY <1>1, ElementOfSeq DEF StackOK, Frame
  <1>3. Frame.kind = "run" => Len(stack) # 1
    BY DEF StackOK, Frame
  <1>4. /\ Frame.kind = "line" => Frame \in LineFrames
        /\ Frame.kind = "run" => Frame \in RunFrames
    BY <1>2 DEF Frames, LineFrames, RunFrames
  <1>5. Frame.flags \in SUBSET Flags
    BY <1>2 DEF Frames, LineFrames, RunFrames
  <1> QED BY <1>1, <1>2, <1>3, <1>4, <1>5

(* The command that is next on a line, and the frame that called it. *)
LEMMA ReadyFrame ==
    ASSUME StackOK, ControlOK, NEW op, Ready(op), NEW flags \in SUBSET Flags
    PROVE  /\ ToRun \in Cmd /\ Again(ToRun) \in {0, 1}
           /\ Calling(flags) \in LineFrames
           /\ Calling(flags).called /\ Calling(flags).by = Frame.by
           /\ Calling(flags).flags = flags /\ Calling(flags).kind = "line"
           /\ Calling(flags).repeatable = (IF Again(ToRun) = 0 THEN 0 ELSE Frame.repeatable)
           /\ Calling(flags).rest = Tail(Frame.rest)
  <1>1. Frame \in LineFrames
    BY TopFrame DEF Ready, InLine
  <1>2. Frame.rest \in Seq(Cmd) /\ Frame.rest # <<>>
    BY <1>1 DEF LineFrames, Ready
  <1>3. Head(Frame.rest) \in Cmd /\ Tail(Frame.rest) \in Seq(Cmd)
    BY <1>2, HeadTailProperties
  <1>4. ASSUME NEW c \in Cmd PROVE Expanded(c) \in Cmd
    <2>1. CASE /\ c.op = "expand" /\ env[c.var] # Undefined /\ env[c.var] # <<>>
      <3>1. env[c.var] \in Seq(Cmd)
        BY <2>1, MonitorAssumption DEF ControlOK, Values
      <3>2. env[c.var][1] \in Cmd
        BY <2>1, <3>1, ElementOfSeq, EmptySeq, LenProperties
      <3> QED BY <3>2, MonitorAssumption DEF Expanded
    <2>2. CASE ~(c.op = "expand" /\ env[c.var] # Undefined /\ env[c.var] # <<>>)
      BY <2>2, MonitorAssumption DEF Expanded
    <2> QED BY <2>1, <2>2
  <1>5. ToRun \in Cmd
    BY <1>3, <1>4 DEF ToRun
  <1>6. Again(ToRun) \in {0, 1}
    BY <1>5, MonitorAssumption DEF Again
  <1> DEFINE r == Tail(Frame.rest)
             n == IF Again(ToRun) = 0 THEN 0 ELSE Frame.repeatable
             f == Frame
  <1>7. r \in Seq(Cmd) /\ n \in {0, 1} /\ f \in LineFrames
    BY <1>1, <1>3, <1>6 DEF LineFrames
  <1>8. Calling(flags) = [f EXCEPT !.rest = r, !.called = TRUE, !.flags = flags,
                                   !.repeatable = n]
    BY DEF Calling
  <1>9. /\ [f EXCEPT !.rest = r, !.called = TRUE, !.flags = flags, !.repeatable = n] \in LineFrames
        /\ [f EXCEPT !.rest = r, !.called = TRUE, !.flags = flags, !.repeatable = n].by = f.by
        /\ [f EXCEPT !.rest = r, !.called = TRUE, !.flags = flags, !.repeatable = n].called
        /\ [f EXCEPT !.rest = r, !.called = TRUE, !.flags = flags, !.repeatable = n].flags = flags
        /\ [f EXCEPT !.rest = r, !.called = TRUE, !.flags = flags, !.repeatable = n].kind = "line"
        /\ [f EXCEPT !.rest = r, !.called = TRUE, !.flags = flags, !.repeatable = n].repeatable = n
        /\ [f EXCEPT !.rest = r, !.called = TRUE, !.flags = flags, !.repeatable = n].rest = r
    <2> HIDE DEF r, n, f
    <2> QED BY <1>7 DEF LineFrames
  <1> QED BY <1>5, <1>6, <1>8, <1>9

(* run_command is entered, or returns at once. *)
LEMMA Entered ==
    ASSUME NEW below, NEW line \in Values, NEW flags \in SUBSET Flags,
           NEW by \in {"main_loop", "run", "bootd", "script"},
           RunCommand(below, line, flags, by)
    PROVE  /\ had' = FALSE
           /\ \/ stack' = below /\ result' = -1
              \/ /\ line \in Seq(Cmd) /\ LineFrame(line, flags, by) \in LineFrames
                 /\ stack' = Append(below, LineFrame(line, flags, by))
                 /\ UNCHANGED result
  BY DEF RunCommand, LineFrame, LineFrames, Values

-----------------------------------------------------------------------------
(* What run_command, run and main_loop know of each other. *)

(* A command is about to begin: nothing on the stack has been stopped. *)
LEMMA NotStopped ==
    ASSUME ControlInv, InLine, ~Frame.called
    PROVE  ~stopped
  BY TopFrame DEF ControlInv, StopOK, InLine, Frame

(* The frame on top becomes another of its kind, perhaps with one more on it. *)
LEMMA Changed ==
    ASSUME StackOK, stack # <<>>, NEW f \in Frames, f.kind = Frame.kind,
           SetFrame(f) \/ \E g \in Frames : stack' = Append(Append(Below, f), g)
    PROVE  /\ Len(stack) \in Nat \ {0} /\ SameBelow(stack, f, stack')
           /\ Len(stack') \in {Len(stack), Len(stack) + 1}
           /\ Len(stack') = Len(stack) <=> SetFrame(f)
           /\ stack'[1] = (IF Len(stack) = 1 THEN f ELSE stack[1])
           /\ stack'[1].kind = "line"
  <1>1. stack \in Seq(Frames) /\ Len(stack) \in Nat \ {0}
    BY Popped DEF StackOK
  <1>2. SetFrame(f) => SameBelow(stack, f, stack') /\ Len(stack') = Len(stack)
    <2>1. SetFrame(f) => stack' = OnTop(stack, f)
      BY DEF SetFrame, Below, OnTop
    <2> QED BY <1>1, <2>1, Replaced
  <1>3. ASSUME \E g \in Frames : stack' = Append(Append(Below, f), g)
        PROVE  SameBelow(stack, f, stack') /\ Len(stack') = Len(stack) + 1
    <2>1. PICK g \in Frames : stack' = OnTopTwo(stack, f, g)
      BY <1>3 DEF Below, OnTop, OnTopTwo
    <2>2. SameBelow(stack, f, stack') /\ Len(stack') = Len(stack) + 1
      BY <1>1, <2>1, Pushed
    <2> QED BY <2>2
  <1>4. /\ SameBelow(stack, f, stack') /\ Len(stack') \in {Len(stack), Len(stack) + 1}
        /\ Len(stack') = Len(stack) <=> SetFrame(f)
    BY <1>1, <1>2, <1>3
  <1>5. stack'[1] = (IF Len(stack) = 1 THEN f ELSE stack[1])
    <2>1. \A n \in Nat \ {0} : n # 1 => 1 \in 1..n - 1
      OBVIOUS
    <2> QED BY <1>1, <1>4, <2>1 DEF SameBelow
  <1> QED BY <1>1, <1>4, <1>5 DEF StackOK, Frame

(* A command has begun, perhaps with a line of its own on top. *)
LEMMA CommandControl ==
    ASSUME ControlInv, NEW op, Ready(op), NEW flags \in SUBSET Flags, Notes,
           \/ SetFrame(Calling(flags)) /\ (stopped' => had')
           \/ /\ \E g \in Frames : stack' = Append(Append(Below, Calling(flags)), g)
              /\ UNCHANGED stopped,
           env' \in [Variables -> Values], had' \in BOOLEAN, stopped' \in BOOLEAN,
           UNCHANGED <<phase, lastcommand>>
    PROVE  ControlInv'
  <1> DEFINE f == Calling(flags)
             n == Len(stack)
  <1>1. /\ f \in Frames /\ f.called /\ f.kind = "line"
        /\ f.repeatable = (IF Again(ToRun) = 0 THEN 0 ELSE Frame.repeatable)
    BY ReadyFrame DEF ControlInv, Frames
  <1>2. ~stopped /\ stack # <<>> /\ Active /\ phase # "prompt" /\ stack \in Seq(Frames)
    BY NotStopped DEF Ready, InLine, Active, ControlInv, StackOK
  <1>3. /\ n \in Nat \ {0} /\ stack' \in Seq(Frames) /\ stack' # <<>>
        /\ Len(stack') \in {n, n + 1} /\ stack'[n] = f
        /\ \A k \in 1..n - 1 : stack'[k] = stack[k]
        /\ Len(stack') = n + 1 => UNCHANGED stopped
        /\ Len(stack') = n => (stopped' => had')
        /\ stack'[1] = (IF n = 1 THEN f ELSE stack[1]) /\ stack'[1].kind = "line"
    <2>1. StackOK /\ f.kind = Frame.kind
      BY <1>1 DEF ControlInv, Ready, InLine
    <2>2. \/ SetFrame(f) /\ (stopped' => had')
          \/ /\ \E g \in Frames : stack' = Append(Append(Below, f), g)
             /\ UNCHANGED stopped
      OBVIOUS
    <2>3. f \in Frames
      BY <1>1
    <2> HIDE DEF f
    <2>4. /\ n \in Nat \ {0} /\ SameBelow(stack, f, stack')
          /\ Len(stack') \in {n, n + 1}
          /\ Len(stack') = n <=> SetFrame(f)
          /\ stack'[1] = (IF n = 1 THEN f ELSE stack[1]) /\ stack'[1].kind = "line"
      BY <1>2, <2>1, <2>2, <2>3, Changed
    <2>5. /\ stack' \in Seq(Frames) /\ stack' # <<>> /\ stack'[n] = f
          /\ \A k \in 1..n - 1 : stack'[k] = stack[k]
      BY <2>4 DEF SameBelow
    <2> HIDE DEF n
    <2>6. Len(stack') = n + 1 => ~(Len(stack') = n)
      BY <2>4
    <2>7. Len(stack') = n + 1 => UNCHANGED stopped
      BY <2>2, <2>4, <2>6
    <2>8. Len(stack') = n => (stopped' => had')
      BY <1>2, <2>2
    <2> QED BY <2>4, <2>5, <2>7, <2>8
  <1> HIDE DEF f
  <1>5. StackOK'
    <2>1. ASSUME NEW k \in 1..Len(stack'), k < Len(stack'), stack'[k].kind = "line"
          PROVE  stack'[k].called
      <3>1. CASE k = n
        BY <1>1, <1>3, <3>1
      <3>2. CASE k # n
        <4>1. k \in 1..n /\ k < n /\ stack'[k] = stack[k]
          BY <1>3, <2>1, <3>2
        <4> QED BY <2>1, <4>1 DEF ControlInv, StackOK
      <3> QED BY <3>1, <3>2
    <2> QED BY <1>3, <2>1 DEF StackOK
  <1>6. StopOK'
    <2> SUFFICES ASSUME stopped'
                 PROVE  had' /\ \A k \in 1..Len(stack') : stack'[k].kind = "line" => stack'[k].called
      BY <1>3 DEF StopOK
    <2>1. had' /\ Len(stack') = n
      BY <1>2, <1>3
    <2>2. ASSUME NEW k \in 1..Len(stack'), stack'[k].kind = "line"
          PROVE  stack'[k].called
      BY <1>1, <1>3, <1>5, <2>1, <2>2 DEF StackOK
    <2> QED BY <2>1, <2>2
  <1>7. RepeatOK'
    <2> SUFFICES ASSUME phase = "running", unrepeatable'
                 PROVE  stack'[1].repeatable = 0
      BY <1>3 DEF RepeatOK
    <2>1. CASE n = 1
      <3>1. unrepeatable \/ Again(ToRun) = 0
        BY <2>1 DEF Notes
      <3>2. unrepeatable => Frame.repeatable = 0
        BY <1>2, <2>1 DEF ControlInv, RepeatOK, Frame
      <3> QED BY <1>1, <1>3, <2>1, <3>1, <3>2
    <2>2. CASE n # 1
      BY <1>2, <1>3, <2>2 DEF ControlInv, RepeatOK, Notes
    <2> QED BY <2>1, <2>2
  <1>8. unrepeatable' \in BOOLEAN
    BY DEF Notes
  <1> QED BY <1>2, <1>5, <1>6, <1>7, <1>8
          DEF ControlInv, ControlOK, LastOK, EnterRepeats, Active

(* run_command or do_run returns. *)
LEMMA ReturnControl ==
    ASSUME ControlInv, Active, stack # <<>>, stack' = Below,
           stopped => had',
           Len(stack) = 1 => /\ phase = "running" /\ unrepeatable => result' <= 0
                             /\ stopped => result' = 0,
           had' \in BOOLEAN,
           UNCHANGED <<phase, lastcommand, env, stopped, unrepeatable>>
    PROVE  ControlInv'
  <1> DEFINE n == Len(stack)
  <1>1. /\ n \in Nat \ {0} /\ stack' \in Seq(Frames) /\ Len(stack') = n - 1
        /\ \A k \in 1..n - 1 : stack'[k] = stack[k]
        /\ stack' = <<>> <=> n = 1
    BY Popped DEF ControlInv, StackOK, Below
  <1>2. StackOK'
    BY <1>1 DEF ControlInv, StackOK
  <1>3. StopOK'
    BY <1>1 DEF ControlInv, StackOK, StopOK
  <1>4. RepeatOK'
    BY <1>1 DEF ControlInv, RepeatOK
  <1> QED BY <1>2, <1>3, <1>4 DEF ControlInv, ControlOK, LastOK, EnterRepeats, Active

(* The frame on top goes on, perhaps with another on top of it. *)
LEMMA GoesOnControl ==
    ASSUME ControlInv, Active, stack # <<>>,
           NEW f \in Frames, f.kind = Frame.kind,
           Frame.kind = "line" => f.repeatable = Frame.repeatable,
           \/ SetFrame(f)
           \/ f.kind = "run" /\ \E g \in Frames : stack' = Append(Append(Below, f), g),
           ~stopped', had' \in BOOLEAN, stopped' \in BOOLEAN,
           UNCHANGED <<phase, lastcommand, env, unrepeatable>>
    PROVE  ControlInv'
  <1> DEFINE n == Len(stack)
  <1>1. /\ n \in Nat \ {0} /\ stack' \in Seq(Frames) /\ stack' # <<>>
        /\ Len(stack') \in {n, n + 1} /\ stack'[n] = f
        /\ \A k \in 1..n - 1 : stack'[k] = stack[k]
        /\ Len(stack') = n + 1 => f.kind = "run"
    BY Changed DEF ControlInv, SameBelow
  <1>2. /\ stack'[1].kind = "line" /\ stack'[1].repeatable = stack[1].repeatable
    <2>1. stack'[1] = (IF n = 1 THEN f ELSE stack[1]) /\ stack'[1].kind = "line"
      BY Changed DEF ControlInv
    <2>2. n = 1 => Frame = stack[1]
      BY DEF Frame
    <2>3. stack[1].kind = "line"
      BY DEF ControlInv, StackOK
    <2> QED BY <2>1, <2>2, <2>3
  <1>3. ASSUME NEW k \in 1..Len(stack'), k < Len(stack'), stack'[k].kind = "line"
        PROVE  stack'[k].called
    <2>1. k \in 1..n /\ k < n /\ stack'[k] = stack[k]
      BY <1>1, <1>3
    <2> QED BY <1>3, <2>1 DEF ControlInv, StackOK
  <1>4. StackOK'
    BY <1>1, <1>2, <1>3 DEF StackOK
  <1>5. StopOK' /\ RepeatOK'
    BY <1>1, <1>2 DEF ControlInv, StopOK, RepeatOK
  <1> QED BY <1>4, <1>5 DEF ControlInv, ControlOK, LastOK, EnterRepeats, Active

(* A line begins on the empty stack. *)
LEMMA BeginControl ==
    ASSUME NEW line \in Values, NEW flags \in SUBSET Flags,
           RunCommand(<<>>, line, flags, "main_loop"),
           lastcommand' \in Seq(Cmd), env' \in [Variables -> Values],
           ~stopped', ~unrepeatable' \/ phase' = "autoboot",
           stopped' \in BOOLEAN, unrepeatable' \in BOOLEAN,
           phase' = "running" \/ (phase' = "autoboot" /\ lastcommand' = <<>>)
    PROVE  ControlInv'
  <1>1. /\ had' = FALSE
        /\ \/ stack' = <<>> /\ result' = -1
           \/ \E f \in LineFrames : stack' = Append(<<>>, f)
    BY Entered
  <1>2. /\ stack' \in Seq(Frames)
        /\ stack' # <<>> => Len(stack') = 1 /\ stack'[1] \in LineFrames
        /\ stack' = <<>> => Len(stack') = 0
    <2>1. CASE stack' = <<>>
      BY <2>1, EmptySeq
    <2>2. CASE \E f \in LineFrames : stack' = Append(<<>>, f)
      <3>1. PICK f \in LineFrames : stack' = Append(<<>>, f)
        BY <2>2
      <3>2. stack' = <<f>> /\ f \in Frames
        BY <3>1 DEF Frames
      <3> QED BY <3>2
    <2> QED BY <1>1, <2>1, <2>2
  <1>3. StackOK'
    <2>1. stack' # <<>> => stack'[1].kind = "line"
      BY <1>2 DEF LineFrames
    <2>2. Len(stack') \in {0, 1}
      BY <1>2
    <2>3. \A n \in {0, 1} : \A k \in 1..n : ~(k < n)
      OBVIOUS
    <2>4. \A k \in 1..Len(stack') : ~(k < Len(stack'))
      BY <2>2, <2>3
    <2> QED BY <1>2, <2>1, <2>4 DEF StackOK
  <1> QED BY <1>1, <1>3
          DEF ControlInv, ControlOK, StopOK, RepeatOK, LastOK, EnterRepeats

(* run_command goes to its next command, or is left because of ^C. *)
LEMMA AfterCommandControl ==
    ASSUME ControlInv, AfterCommand
    PROVE  ControlInv'
  <1>1. Active /\ stack # <<>> /\ StackOK /\ had' = had /\ had \in BOOLEAN
    BY DEF AfterCommand, InLine, ControlInv, ControlOK
  <1>2. CASE had
    BY <1>1, <1>2, ReturnControl DEF AfterCommand, Returns
  <1>3. CASE ~had
    <2> DEFINE f == [Frame EXCEPT !.called = FALSE]
    <2>1. Frame \in LineFrames
      BY <1>1, TopFrame DEF AfterCommand, InLine
    <2>2. /\ f \in LineFrames /\ f.kind = Frame.kind /\ f.repeatable = Frame.repeatable
          /\ SetFrame(f)
      BY <1>3, <2>1 DEF AfterCommand, LineFrames
    <2>3. ~stopped' /\ stopped' \in BOOLEAN
      BY <1>1, <1>3 DEF ControlInv, ControlOK, StopOK, AfterCommand
    <2>4. f \in Frames
      BY <2>2 DEF Frames
    <2> HIDE DEF f
    <2> QED BY <1>1, <2>2, <2>3, <2>4, GoesOnControl DEF AfterCommand
  <1> QED BY <1>1, <1>2, <1>3

(* do_run takes its next variable or returns. *)
LEMMA RunNextControl ==
    ASSUME ControlInv, RunNext
    PROVE  ControlInv'
  <1> DEFINE f == [Frame EXCEPT !.rest = Tail(@), !.first = FALSE]
  <1>1. /\ Active /\ stack # <<>> /\ StackOK /\ had \in BOOLEAN /\ stopped \in BOOLEAN
        /\ Frame.kind = "run" /\ Frame \in RunFrames /\ Len(stack) > 1
        /\ Len(stack) \in Nat /\ stack \in Seq(Frames)
    BY TopFrame DEF RunNext, ControlInv, ControlOK, StackOK
  <1>2. CASE stack' = Below /\ UNCHANGED <<result, had>>
    <2>1. stopped => had
      BY <1>1 DEF ControlInv, StopOK
    <2>2. stopped' = stopped /\ UNCHANGED <<phase, lastcommand, env, unrepeatable>>
      BY <1>1, <1>2 DEF RunNext
    <2>3. had' \in BOOLEAN /\ (stopped => had')
      BY <1>1, <1>2, <2>1
    <2>4. Len(stack) # 1
      <3>1. \A n \in Nat : n > 1 => n # 1
        OBVIOUS
      <3> QED BY <1>1, <3>1
    <2> QED BY <1>1, <1>2, <2>2, <2>3, <2>4, ReturnControl
  <1>3. CASE /\ Frame.rest # <<>>
             /\ RunCommand(Append(Below, f), env[Head(Frame.rest)], Frame.flags, "run")
    <2>1. Tail(Frame.rest) \in Seq(Variables) /\ Head(Frame.rest) \in Variables
      BY <1>1, <1>3, HeadTailProperties DEF RunFrames
    <2>2. f \in RunFrames /\ f.kind = "run" /\ f \in Frames
      BY <1>1, <2>1 DEF RunFrames, Frames
    <2>3. env[Head(Frame.rest)] \in Values /\ Frame.flags \in SUBSET Flags
      BY <1>1, <2>1 DEF RunFrames, ControlInv, ControlOK
    <2> HIDE DEF f
    <2>4. /\ had' = FALSE
          /\ \/ SetFrame(f)
             \/ \E g \in Frames : stack' = Append(Append(Below, f), g)
      BY <1>3, <2>3, Entered DEF SetFrame, Frames
    <2>5. Len(stack') \in {Len(stack), Len(stack) + 1}
      BY <1>1, <2>2, <2>4, Changed
    <2>6. Len(Below) = Len(stack) - 1
      BY <1>1, Popped DEF Below
    <2>7. stack' # Below
      BY <1>1, <2>5, <2>6
    <2>8. ~stopped' /\ stopped' \in BOOLEAN
      BY <2>7 DEF RunNext
    <2> QED BY <1>1, <2>2, <2>4, <2>8, GoesOnControl DEF RunNext
  <1> QED BY <1>2, <1>3 DEF RunNext

(* A command of a line. *)
LEMMA CommandsControl ==
    ASSUME ControlInv, Plain \/ SetVariable \/ Run \/ Bootd \/ Script \/ BootmCommand \/ Bad
    PROVE  ControlInv'
  <1>1. StackOK /\ ControlOK
    BY DEF ControlInv
  <1>2. ASSUME NEW op, Ready(op)
        PROVE  /\ Active /\ stack # <<>> /\ ~stopped /\ Frame \in LineFrames
               /\ Frame.flags \in SUBSET Flags /\ ToRun \in Cmd
    <2>1. Frame.flags \in SUBSET Flags /\ Frame \in LineFrames
      BY <1>1, <1>2, TopFrame DEF Ready, InLine
    <2> QED BY <1>1, <1>2, <2>1, NotStopped, ReadyFrame DEF Ready, InLine
  <1>3. CASE Plain
    BY <1>1, <1>2, <1>3, CommandControl DEF Plain, ControlOK
  <1>4. CASE SetVariable
    <2>1. Ready("set") /\ ToRun.op = "set"
      BY <1>4 DEF SetVariable, Ready
    <2>2. ToRun.line \in Values /\ ToRun.var \in Variables
      BY <1>2, <2>1, MonitorAssumption
    <2>3. env' \in [Variables -> Values]
      BY <1>1, <1>4, <2>2 DEF SetVariable, ControlOK
    <2> QED BY <1>1, <1>2, <1>4, <2>1, <2>3, CommandControl DEF SetVariable, ControlOK
  <1>5. CASE Run
    <2>1. Ready("run") /\ ToRun.op = "run"
      BY <1>5 DEF Run, Ready
    <2>2. ToRun.vars \in Seq(Variables) /\ Frame.flags \in SUBSET Flags
      BY <1>2, <2>1, MonitorAssumption
    <2>3. RunFrame(ToRun.vars, Frame.flags) \in Frames
      BY <2>2 DEF RunFrame, RunFrames, Frames
    <2>4. \E g \in Frames : stack' = Append(Append(Below, Calling(Frame.flags)), g)
      BY <1>5, <2>3 DEF Run
    <2> QED BY <1>1, <1>2, <1>5, <2>1, <2>4, CommandControl DEF Run, ControlOK
  <1>6. CASE Bootd
    <2>1. Ready("bootd")
      BY <1>6 DEF Bootd
    <2>2. CASE "bootd" \in Frame.flags
      BY <1>1, <1>2, <1>6, <2>1, <2>2, ReturnControl DEF Bootd, Returns, ControlOK
    <2>3. CASE "bootd" \notin Frame.flags
      <3> DEFINE flags == Frame.flags \cup {"bootd"}
      <3>1. flags \in SUBSET Flags /\ env["bootcmd"] \in Values
        BY <1>1, <1>2, <2>1, MonitorAssumption DEF Flags, ControlOK
      <3>2. RunCommand(Append(Below, Calling(flags)), env["bootcmd"], flags, "bootd") /\ Notes
        BY <1>6, <2>3 DEF Bootd
      <3> HIDE DEF flags
      <3>3. /\ had' = FALSE
            /\ \/ SetFrame(Calling(flags))
               \/ \E g \in Frames : stack' = Append(Append(Below, Calling(flags)), g)
        BY <3>1, <3>2, Entered DEF SetFrame, Frames
      <3>4. ~stopped' /\ UNCHANGED <<phase, lastcommand, env, stopped>>
        BY <1>2, <1>6, <2>1 DEF Bootd
      <3> QED BY <1>1, <2>1, <3>1, <3>2, <3>3, <3>4, CommandControl DEF ControlOK
    <2> QED BY <2>2, <2>3
  <1>7. CASE Script
    <2>1. Ready("script") /\ ToRun.op = "script" /\ Notes
      BY <1>7 DEF Script, Ready
    <2>2. ToRun.line \in Values /\ Frame.flags \in SUBSET Flags /\ {} \in SUBSET Flags
      BY <1>2, <2>1, MonitorAssumption
    <2>3. /\ had' \in BOOLEAN
          /\ \/ SetFrame(Calling(Frame.flags))
             \/ \E g \in Frames : stack' = Append(Append(Below, Calling(Frame.flags)), g)
      BY <1>1, <1>7, <2>2, Entered DEF Script, SetFrame, Frames, ControlOK
    <2>4. ~stopped' /\ UNCHANGED <<phase, lastcommand, env, stopped>>
      BY <1>2, <1>7, <2>1 DEF Script
    <2> QED BY <1>1, <2>1, <2>2, <2>3, <2>4, CommandControl DEF ControlOK
  <1>8. CASE BootmCommand
    BY <1>1, <1>2, <1>8, CommandControl DEF BootmCommand, ControlOK
  <1>9. CASE Bad
    BY <1>1, <1>2, <1>9, ReturnControl DEF Bad, Returns, ControlOK
  <1> QED BY <1>3, <1>4, <1>5, <1>6, <1>7, <1>8, <1>9

(* Every step keeps it. *)
LEMMA NextControl ==
    ASSUME ControlInv, [Next]_vars
    PROVE  ControlInv'
  <1>1. CASE AfterCommand
    BY <1>1, AfterCommandControl
  <1>2. CASE LineEnds
    <2>1. ~stopped /\ Active /\ stack # <<>> /\ Frame = stack[Len(stack)] /\ had \in BOOLEAN
      BY <1>2, NotStopped DEF LineEnds, InLine, Frame, ControlInv, ControlOK
    <2>2. Len(stack) = 1 => (phase = "running" /\ unrepeatable => result' <= 0)
      BY <1>2, <2>1 DEF LineEnds, Returns, ControlInv, RepeatOK
    <2> QED BY <1>2, <2>1, <2>2, ReturnControl DEF LineEnds, Returns
  <1>3. CASE Plain \/ SetVariable \/ Run \/ Bootd \/ Script \/ BootmCommand \/ Bad
    BY <1>3, CommandsControl
  <1>4. CASE RunNext
    BY <1>4, RunNextControl
  <1>5. CASE Booting
    BY <1>5 DEF Booting, monVars, ControlInv, StackOK, ControlOK, StopOK, RepeatOK, LastOK,
                EnterRepeats, Active
  <1>6. CASE Autoboot
    <2>1. CASE phase' = "autoboot"
      <3>1. /\ RunCommand(<<>>, env["bootcmd"], {}, "main_loop")
            /\ UNCHANGED <<lastcommand, env, stopped, unrepeatable>>
            /\ phase = "countdown"
        BY <1>6, <2>1 DEF Autoboot
      <3>2. env["bootcmd"] \in Values /\ {} \in SUBSET Flags
        BY MonitorAssumption DEF ControlInv, ControlOK
      <3> QED BY <2>1, <3>1, <3>2, BeginControl DEF ControlInv, ControlOK, LastOK
    <2>2. CASE phase' # "autoboot"
      BY <1>6, <2>2 DEF Autoboot, ControlInv, StackOK, ControlOK, StopOK, RepeatOK, LastOK,
                        EnterRepeats, Active
    <2> QED BY <2>1, <2>2
  <1>7. CASE AutobootDone
    BY <1>7 DEF AutobootDone, ControlInv, StackOK, ControlOK, StopOK, RepeatOK, LastOK,
                EnterRepeats, Active
  <1>8. CASE Typed
    <2>1. PICK line \in Lines \cup { <<>> } :
            /\ lastcommand' = (IF line = <<>> THEN lastcommand ELSE line)
            /\ RunCommand(<<>>, lastcommand', IF line = <<>> THEN {"repeat"} ELSE {}, "main_loop")
      BY <1>8 DEF Typed
    <2>2. lastcommand' \in Seq(Cmd) /\ lastcommand' \in Values
      BY <2>1, MonitorAssumption DEF ControlInv, ControlOK, Values
    <2>3. (IF line = <<>> THEN {"repeat"} ELSE {}) \in SUBSET Flags
      BY DEF Flags
    <2>4. /\ phase' = "running" /\ stopped' = FALSE /\ unrepeatable' = FALSE
          /\ env' \in [Variables -> Values]
      BY <1>8 DEF Typed, ControlInv, ControlOK
    <2>5. /\ ~stopped' /\ stopped' \in BOOLEAN /\ unrepeatable' \in BOOLEAN
          /\ ~unrepeatable' \/ phase' = "autoboot"
          /\ phase' = "running" \/ (phase' = "autoboot" /\ lastcommand' = <<>>)
          /\ lastcommand' \in Seq(Cmd) /\ env' \in [Variables -> Values]
      BY <2>2, <2>4
    <2>6. ASSUME NEW typed \in Values, NEW flags \in SUBSET Flags,
                 RunCommand(<<>>, typed, flags, "main_loop")
          PROVE  ControlInv'
      BY <2>5, <2>6, BeginControl
    <2> QED BY <2>1, <2>2, <2>3, <2>6
  <1>9. CASE LineDone
    BY <1>9 DEF LineDone, ControlInv, StackOK, ControlOK, StopOK, RepeatOK, LastOK,
                EnterRepeats, Active
  <1>10. CASE Reset
    <2>1. /\ stack' = <<>> /\ phase' = "countdown" /\ lastcommand' = <<>> /\ had' = FALSE
          /\ env' = Environment /\ stopped' = FALSE /\ unrepeatable' = FALSE
      BY <1>10 DEF Reset
    <2>2. StackOK'
      BY <2>1, EmptyStack DEF StackOK
    <2>3. ControlOK'
      BY <2>1, EmptyStack, MonitorAssumption DEF ControlOK
    <2>4. StopOK' /\ RepeatOK' /\ LastOK' /\ EnterRepeats'
      BY <2>1 DEF StopOK, RepeatOK, LastOK, EnterRepeats, Active
    <2> QED BY <2>2, <2>3, <2>4 DEF ControlInv
  <1>11. CASE Key
    BY <1>11 DEF Key, ControlInv, StackOK, ControlOK, StopOK, RepeatOK, LastOK, EnterRepeats,
                 Active
  <1>12. CASE UNCHANGED vars
    BY <1>12 DEF vars, monVars, ControlInv, StackOK, ControlOK, StopOK, RepeatOK, LastOK,
                 EnterRepeats, Active
  <1> QED BY <1>1, <1>2, <1>3, <1>4, <1>5, <1>6, <1>7, <1>8, <1>9, <1>10, <1>11, <1>12
          DEF Next, Progress

(* It holds at first. *)
LEMMA InitControl ==
    ASSUME Init
    PROVE  ControlInv
  <1>1. /\ stack = <<>> /\ phase = "countdown" /\ lastcommand = <<>> /\ had = FALSE
        /\ env = Environment /\ stopped = FALSE /\ unrepeatable = FALSE
    BY DEF Init
  <1>2. StackOK
    BY <1>1, EmptyStack DEF StackOK
  <1>3. ControlOK
    BY <1>1, EmptyStack, MonitorAssumption DEF ControlOK
  <1>4. StopOK /\ RepeatOK /\ LastOK /\ EnterRepeats
    BY <1>1 DEF StopOK, RepeatOK, LastOK, EnterRepeats, Active
  <1> QED BY <1>2, <1>3, <1>4 DEF ControlInv

(* Enter repeats a line only when all its commands may be repeated and none   *)
(* was stopped (main_loop's use of run_command's value).                      *)
THEOREM EnterHolds == Spec => []EnterRepeats
  <1>1. ControlInv => EnterRepeats
    BY DEF ControlInv
  <1> QED BY <1>1, InitControl, NextControl, PTL DEF Spec

(* After ^C no other command begins before the prompt, however deep the lines *)
(* are nested, unless a run goes on with its next variable.                   *)
THEOREM StopHolds == Spec => StopStops
  <1>1. ASSUME ControlInv, [Next]_vars
        PROVE  stopped /\ phase = "running" /\ phase' = "running" => ~Begins
    <2>1. stopped => ~(InLine /\ ~Frame.called)
      BY <1>1, NotStopped
    <2> QED BY <2>1 DEF Begins
  <1> QED BY <1>1, InitControl, NextControl, PTL DEF Spec, StopStops
-----------------------------------------------------------------------------
(* bootd inside bootd. *)

(* Commands other than autoscr, and the values of variables that hold no     *)
(* other.                                                                    *)
Quiet == {c \in Cmd : c.op # "script"}
QuietValues == Seq(Quiet) \cup {Undefined}

(* A frame that knows that it runs inside bootd. *)
Marked(f) == "bootd" \in f.flags /\ (f.kind = "line" => f.rest \in Seq(Quiet))

(* Everything bootd's line runs is marked, and is not a bootd's line itself. *)
BootdOK ==
    \A j, k \in 1..Len(stack) :
        j <= k /\ stack[j].by = "bootd" =>
            Marked(stack[k]) /\ (stack[k].by = "bootd" => j = k)

BootdInv == ControlInv /\ env \in [Variables -> QuietValues] /\ BootdOK

(* What a line does not find in variables it does not bring in by a macro. *)
LEMMA QuietRun ==
    ASSUME StackOK, env \in [Variables -> QuietValues], NEW op, Ready(op),
           Frame.rest \in Seq(Quiet)
    PROVE  ToRun \in Quiet /\ Tail(Frame.rest) \in Seq(Quiet)
  <1>1. /\ Frame.rest # <<>> /\ Head(Frame.rest) \in Quiet /\ Tail(Frame.rest) \in Seq(Quiet)
    BY HeadTailProperties DEF Ready
  <1>2. ASSUME NEW c \in Quiet PROVE Expanded(c) \in Quiet
    <2>1. CASE /\ c.op = "expand" /\ env[c.var] # Undefined /\ env[c.var] # <<>>
      <3>1. env[c.var] \in Seq(Quiet)
        BY <2>1, MonitorAssumption DEF QuietValues, Quiet
      <3>2. env[c.var][1] \in Quiet
        BY <2>1, <3>1, ElementOfSeq, EmptySeq, LenProperties
      <3> QED BY <3>2, MonitorAssumption DEF Expanded, Quiet
    <2>2. CASE ~(c.op = "expand" /\ env[c.var] # Undefined /\ env[c.var] # <<>>)
      BY <2>2, MonitorAssumption DEF Expanded, Quiet
    <2> QED BY <2>1, <2>2
  <1> QED BY <1>1, <1>2 DEF ToRun

(* The frame on top becomes another, perhaps with one more on it. *)
LEMMA BootdChanged ==
    ASSUME StackOK, BootdOK, stack # <<>>,
           NEW f \in Frames, f.kind = Frame.kind, f.by = Frame.by,
           Marked(Frame) => Marked(f),
           \/ SetFrame(f)
           \/ \E g \in Frames :
                 /\ stack' = Append(Append(Below, f), g)
                 /\ Marked(Frame) => Marked(g) /\ g.by # "bootd"
                 /\ g.by = "bootd" => Marked(g)
    PROVE  BootdOK'
  <1> DEFINE n == Len(stack)
  <1>1. n \in Nat \ {0} /\ stack \in Seq(Frames) /\ Frame = stack[n]
    BY Popped DEF StackOK, Frame
  <1>2. ASSUME NEW t, t[n] = f, \A k \in 1..n - 1 : t[k] = stack[k],
               NEW j \in 1..n, NEW k \in 1..n, j <= k, t[j].by = "bootd"
        PROVE  Marked(t[k]) /\ (t[k].by = "bootd" => j = k)
    <2> HIDE DEF n
    <2>1. \A i \in 1..n : i = n \/ i \in 1..n - 1
      BY <1>1
    <2>2. stack[j].by = "bootd"
      BY <1>1, <1>2, <2>1
    <2>3. Marked(stack[k]) /\ (stack[k].by = "bootd" => j = k)
      BY <1>2, <2>2 DEF BootdOK, n
    <2> QED BY <1>1, <1>2, <2>1, <2>3
  <1>3. CASE SetFrame(f)
    <2>1. stack' = OnTop(stack, f)
      BY <1>3 DEF SetFrame, Below, OnTop
    <2>2. Len(stack') = n /\ stack'[n] = f /\ \A k \in 1..n - 1 : stack'[k] = stack[k]
      BY <1>1, <2>1, Replaced DEF SameBelow
    <2>3. ASSUME NEW j \in 1..n, NEW k \in 1..n, j <= k, stack'[j].by = "bootd"
          PROVE  Marked(stack'[k]) /\ (stack'[k].by = "bootd" => j = k)
      <3> HIDE DEF n
      <3> QED BY <1>2, <2>2, <2>3
    <2> QED BY <2>2, <2>3 DEF BootdOK
  <1>4. ASSUME NEW g \in Frames,
               stack' = Append(Append(Below, f), g),
               Marked(Frame) => Marked(g) /\ g.by # "bootd",
               g.by = "bootd" => Marked(g)
        PROVE  BootdOK'
    <2>1. stack' = OnTopTwo(stack, f, g)
      BY <1>4 DEF Below, OnTop, OnTopTwo
    <2>2. /\ Len(stack') = n + 1 /\ stack'[n] = f /\ stack'[n + 1] = g
          /\ \A k \in 1..n - 1 : stack'[k] = stack[k]
      <3>1. /\ SameBelow(stack, f, OnTopTwo(stack, f, g))
            /\ Len(OnTopTwo(stack, f, g)) = n + 1 /\ OnTopTwo(stack, f, g)[n + 1] = g
        BY <1>1, Pushed
      <3>2. SameBelow(stack, f, stack') /\ Len(stack') = n + 1 /\ stack'[n + 1] = g
        BY <2>1, <3>1
      <3> QED BY <3>2 DEF SameBelow
    <2>3. ASSUME NEW j \in 1..n + 1, NEW k \in 1..n + 1, j <= k, stack'[j].by = "bootd"
          PROVE  Marked(stack'[k]) /\ (stack'[k].by = "bootd" => j = k)
      <3> HIDE DEF n
      <3>1. CASE k \in 1..n
        <4>1. j \in 1..n
          BY <1>1, <2>3, <3>1
        <4> QED BY <1>2, <2>2, <2>3, <3>1, <4>1
      <3>2. CASE k = n + 1 /\ j = n + 1
        BY <1>4, <2>2, <2>3, <3>2
      <3>3. CASE k = n + 1 /\ j \in 1..n
        <4>1. stack[j].by = "bootd"
          <5>1. j = n \/ j \in 1..n - 1
            BY <1>1, <3>3
          <5> QED BY <1>1, <2>2, <2>3, <5>1
        <4>2. n \in 1..n /\ j <= n
          BY <1>1, <3>3
        <4>3. Marked(Frame)
          BY <1>1, <3>3, <4>1, <4>2 DEF BootdOK, n
        <4> QED BY <1>4, <2>2, <3>3, <4>3
      <3>4. k \in 1..n \/ (k = n + 1 /\ (j = n + 1 \/ j \in 1..n))
        BY <1>1, <2>3
      <3> QED BY <3>1, <3>2, <3>3, <3>4
    <2> QED BY <2>2, <2>3 DEF BootdOK
  <1> QED BY <1>3, <1>4

(* The frame on top goes. *)
LEMMA BootdPopped ==
    ASSUME StackOK, BootdOK, stack # <<>>, stack' = Below
    PROVE  BootdOK'
  <1>1. /\ Len(stack) \in Nat \ {0} /\ Len(stack') = Len(stack) - 1
        /\ \A k \in 1..Len(stack) - 1 : stack'[k] = stack[k]
    BY Popped DEF StackOK, Below
  <1>2. \A k \in 1..Len(stack) - 1 : k \in 1..Len(stack)
    BY <1>1
  <1> QED BY <1>1, <1>2 DEF BootdOK

(* A line begins on the empty stack. *)
LEMMA BootdBegins ==
    ASSUME NEW line \in Values, NEW flags \in SUBSET Flags,
           RunCommand(<<>>, line, flags, "main_loop")
    PROVE  BootdOK'
  <1>1. CASE stack' = <<>>
    BY <1>1, EmptyStack DEF BootdOK
  <1>2. CASE stack' = Append(<<>>, LineFrame(line, flags, "main_loop"))
    <2>1. Len(stack') = 1 /\ stack'[1].by = "main_loop"
      BY <1>2 DEF LineFrame
    <2>2. \A k \in 1..1 : k = 1
      OBVIOUS
    <2> QED BY <2>1, <2>2 DEF BootdOK
  <1> QED BY <1>1, <1>2, Entered

(* A command keeps it. *)
LEMMA CommandsBootd ==
    ASSUME BootdInv, Plain \/ SetVariable \/ Run \/ Bootd \/ Script \/ BootmCommand
    PROVE  BootdOK'
  <1>1. StackOK /\ ControlOK /\ BootdOK /\ env \in [Variables -> QuietValues]
    BY DEF BootdInv, ControlInv
  <1>2. ASSUME NEW op, Ready(op)
        PROVE  /\ stack # <<>> /\ Frame \in LineFrames /\ Frame.kind = "line"
               /\ Frame.flags \in SUBSET Flags /\ ToRun \in Cmd /\ ToRun.op = op
    <2>1. Frame.flags \in SUBSET Flags /\ Frame \in LineFrames
      BY <1>1, <1>2, TopFrame DEF Ready, InLine
    <2> QED BY <1>1, <1>2, <2>1, ReadyFrame DEF Ready, InLine
  <1>3. ASSUME NEW op, Ready(op), NEW flags \in SUBSET Flags, Frame.flags \subseteq flags
        PROVE  /\ Calling(flags) \in Frames /\ Calling(flags).kind = Frame.kind
               /\ Calling(flags).by = Frame.by
               /\ Marked(Frame) => Marked(Calling(flags)) /\ ToRun \in Quiet
    <2>1. /\ Calling(flags) \in LineFrames /\ Calling(flags).by = Frame.by
          /\ Calling(flags).flags = flags /\ Calling(flags).kind = "line"
          /\ Calling(flags).rest = Tail(Frame.rest)
      BY <1>1, <1>3, ReadyFrame
    <2>2. Frame.kind = "line"
      BY <1>2, <1>3
    <2>3. Frame.rest \in Seq(Quiet) => ToRun \in Quiet /\ Tail(Frame.rest) \in Seq(Quiet)
      BY <1>1, <1>3, QuietRun
    <2> QED BY <1>3, <2>1, <2>2, <2>3 DEF Marked, Frames
  <1>4. CASE Plain \/ SetVariable \/ BootmCommand
    <2>1. PICK op : Ready(op) /\ SetFrame(Calling(Frame.flags))
      BY <1>4 DEF Plain, SetVariable, BootmCommand
    <2> QED BY <1>1, <1>2, <1>3, <2>1, BootdChanged
  <1>5. CASE Run
    <2> DEFINE g == RunFrame(ToRun.vars, Frame.flags)
    <2>1. Ready("run") /\ stack' = Append(Append(Below, Calling(Frame.flags)), g)
      BY <1>5 DEF Run
    <2>2. ToRun.vars \in Seq(Variables) /\ Frame.flags \in SUBSET Flags /\ stack # <<>>
      BY <1>2, <2>1, MonitorAssumption
    <2>3. /\ g \in Frames /\ g.by # "bootd"
          /\ Marked(Frame) => Marked(g)
      BY <2>2 DEF RunFrame, RunFrames, Frames, Marked
    <2> HIDE DEF g
    <2> QED BY <1>1, <1>3, <2>1, <2>2, <2>3, BootdChanged
  <1>6. CASE Bootd
    <2>1. Ready("bootd") /\ stack # <<>> /\ Frame.flags \in SUBSET Flags
      BY <1>2, <1>6 DEF Bootd
    <2>2. CASE "bootd" \in Frame.flags
      BY <1>1, <1>6, <2>1, <2>2, BootdPopped DEF Bootd, Returns
    <2>3. CASE "bootd" \notin Frame.flags
      <3> DEFINE flags == Frame.flags \cup {"bootd"}
                 g == LineFrame(env["bootcmd"], flags, "bootd")
      <3>1. /\ flags \in SUBSET Flags /\ Frame.flags \subseteq flags
            /\ env["bootcmd"] \in QuietValues /\ env["bootcmd"] \in Values
        BY <1>1, <2>1, MonitorAssumption DEF Flags, ControlOK
      <3>2. RunCommand(Append(Below, Calling(flags)), env["bootcmd"], flags, "bootd")
        BY <1>6, <2>3 DEF Bootd
      <3>3. \/ SetFrame(Calling(flags))
            \/ /\ stack' = Append(Append(Below, Calling(flags)), g)
               /\ env["bootcmd"] # Undefined
        BY <3>2 DEF RunCommand, SetFrame
      <3>4. ~Marked(Frame)
        BY <2>3 DEF Marked
      <3>5. g.flags = flags /\ g.rest = env["bootcmd"] /\ g.by = "bootd"
        BY DEF LineFrame
      <3>6. env["bootcmd"] # Undefined => g \in Frames /\ Marked(g)
        <4>1. "bootd" \in flags
          OBVIOUS
        <4>2. env["bootcmd"] # Undefined =>
                  env["bootcmd"] \in Seq(Quiet) /\ env["bootcmd"] \in Seq(Cmd)
          BY <3>1 DEF QuietValues, Values
        <4> HIDE DEF flags
        <4> QED BY <3>1, <4>1, <4>2 DEF LineFrame, LineFrames, Frames, Marked
      <3> HIDE DEF flags, g
      <3> QED BY <1>1, <1>3, <2>1, <3>1, <3>3, <3>4, <3>6, BootdChanged
    <2> QED BY <2>2, <2>3
  <1>7. CASE Script
    <2> DEFINE f == Calling(Frame.flags)
    <2>1. /\ Ready("script") /\ ToRun.op = "script" /\ stack # <<>>
          /\ Frame.flags \in SUBSET Flags /\ {} \in SUBSET Flags
      BY <1>2, <1>7 DEF Script
    <2>2. ToRun.line \in Values
      BY <1>2, <2>1, MonitorAssumption
    <2>3. ~Marked(Frame)
      BY <1>3, <2>1 DEF Quiet
    <2>4. ASSUME RunCommand(Append(Below, f), ToRun.line, {}, "script")
          PROVE  \/ SetFrame(f)
                 \/ \E g \in Frames : stack' = Append(Append(Below, f), g) /\ g.by # "bootd"
      <3> HIDE DEF f
      <3>1. LineFrame(ToRun.line, {}, "script").by # "bootd"
        BY DEF LineFrame
      <3> QED BY <2>1, <2>2, <2>4, <3>1, Entered DEF SetFrame, Frames
    <2>5. \/ SetFrame(f)
          \/ \E g \in Frames : stack' = Append(Append(Below, f), g) /\ g.by # "bootd"
      BY <1>7, <2>4 DEF Script
    <2>6. f \in Frames /\ f.kind = Frame.kind /\ f.by = Frame.by
      BY <1>3, <2>1
    <2> HIDE DEF f
    <2> QED BY <1>1, <2>1, <2>3, <2>5, <2>6, BootdChanged
  <1> QED BY <1>4, <1>5, <1>6, <1>7

(* run_command and do_run go on. *)
LEMMA GoesOnBootd ==
    ASSUME BootdInv, AfterCommand \/ RunNext
    PROVE  BootdOK'
  <1>1. StackOK /\ ControlOK /\ BootdOK /\ env \in [Variables -> QuietValues]
    BY DEF BootdInv, ControlInv
  <1>2. stack # <<>>
    BY DEF AfterCommand, RunNext, InLine
  <1>3. CASE stack' = Below
    BY <1>1, <1>2, <1>3, BootdPopped
  <1>4. CASE AfterCommand /\ SetFrame([Frame EXCEPT !.called = FALSE])
    <2> DEFINE f == [Frame EXCEPT !.called = FALSE]
    <2>1. Frame \in LineFrames
      BY <1>1, <1>2, <1>4, TopFrame DEF AfterCommand, InLine
    <2>2. /\ f \in LineFrames /\ f.kind = Frame.kind /\ f.by = Frame.by
          /\ f.flags = Frame.flags /\ f.rest = Frame.rest
      BY <2>1 DEF LineFrames
    <2>3. f \in Frames /\ (Marked(Frame) => Marked(f))
      BY <2>2 DEF Frames, Marked
    <2> HIDE DEF f
    <2> QED BY <1>1, <1>2, <1>4, <2>2, <2>3, BootdChanged DEF f
  <1>5. CASE RunNext /\ stack' # Below
    <2> DEFINE f == [Frame EXCEPT !.rest = Tail(@), !.first = FALSE]
               v == env[Head(Frame.rest)]
               g == LineFrame(v, Frame.flags, "run")
    <2>1. Frame.rest # <<>> /\ Frame.kind = "run" /\ Frame \in RunFrames
      BY <1>1, <1>2, <1>5, TopFrame DEF RunNext
    <2>2. RunCommand(Append(Below, f), v, Frame.flags, "run")
      BY <1>5 DEF RunNext
    <2>3. Tail(Frame.rest) \in Seq(Variables) /\ Head(Frame.rest) \in Variables
      BY <2>1, HeadTailProperties DEF RunFrames
    <2>4. /\ f \in RunFrames /\ f.kind = Frame.kind /\ f.by = Frame.by
          /\ f.flags = Frame.flags /\ f.kind = "run"
      BY <2>1, <2>3 DEF RunFrames
    <2>5. f \in Frames /\ (Marked(Frame) => Marked(f))
      BY <2>4 DEF Frames, Marked
    <2>6. v \in QuietValues /\ v \in Values /\ Frame.flags \in SUBSET Flags
      BY <1>1, <2>1, <2>3 DEF RunFrames, ControlOK
    <2> HIDE DEF f, v
    <2>7. \/ SetFrame(f)
          \/ (stack' = Append(Append(Below, f), g) /\ v # Undefined)
      BY <2>2 DEF RunCommand, SetFrame
    <2>8. v # Undefined => g \in Frames /\ g.by # "bootd" /\ (Marked(Frame) => Marked(g))
      <3>1. v # Undefined => v \in Seq(Quiet) /\ v \in Seq(Cmd)
        BY <2>6 DEF QuietValues, Values
      <3> QED BY <2>6, <3>1 DEF LineFrame, LineFrames, Frames, Marked
    <2> HIDE DEF g
    <2> QED BY <1>1, <1>2, <2>4, <2>5, <2>7, <2>8, BootdChanged
  <1> QED BY <1>3, <1>4, <1>5 DEF AfterCommand, Returns

(* Every step keeps it, if no command writes an autoscr into a variable. *)
LEMMA NextBootd ==
    ASSUME \A c \in Cmd : c.op = "set" => c.line \in QuietValues,
           Environment \in [Variables -> QuietValues],
           BootdInv, [Next]_vars
    PROVE  BootdInv'
  <1>1. StackOK /\ ControlOK /\ BootdOK /\ ControlInv /\ env \in [Variables -> QuietValues]
    BY DEF BootdInv, ControlInv
  <1>2. ControlInv'
    BY <1>1, NextControl
  <1>3. env' \in [Variables -> QuietValues]
    <2>1. CASE SetVariable
      <3>1. Ready("set") /\ ToRun.op = "set"
        BY <2>1 DEF SetVariable, Ready
      <3>2. ToRun \in Cmd
        <4>1. {} \in SUBSET Flags
          OBVIOUS
        <4> QED BY <1>1, <3>1, <4>1, ReadyFrame
      <3>3. ToRun.line \in QuietValues /\ ToRun.var \in Variables
        BY <3>1, <3>2, MonitorAssumption
      <3> QED BY <1>1, <2>1, <3>3 DEF SetVariable
    <2>2. CASE ~SetVariable
      BY <1>1, <2>2 DEF Next, Progress, AfterCommand, LineEnds, Plain, Bad, Run, RunNext, Bootd,
        Script, BootmCommand, Booting, monVars, Autoboot, LineDone, AutobootDone, Reset, Key,
        Typed, vars
    <2> QED BY <2>1, <2>2
  <1>4. BootdOK'
    <2>1. CASE Plain \/ SetVariable \/ Run \/ Bootd \/ Script \/ BootmCommand
      BY <2>1, CommandsBootd
    <2>2. CASE AfterCommand \/ RunNext
      BY <2>2, GoesOnBootd
    <2>3. CASE LineEnds \/ Bad
      BY <1>1, <2>3, BootdPopped DEF LineEnds, Bad, Ready, InLine, Returns
    <2>4. CASE Autoboot /\ stack' # stack
      <3>1. RunCommand(<<>>, env["bootcmd"], {}, "main_loop")
        BY <2>4 DEF Autoboot
      <3>2. env["bootcmd"] \in Values /\ {} \in SUBSET Flags
        BY <1>1, MonitorAssumption DEF ControlOK
      <3> QED BY <3>1, <3>2, BootdBegins
    <2>5. CASE Typed
      <3>1. PICK line \in Lines \cup { <<>> } :
              /\ lastcommand' = (IF line = <<>> THEN lastcommand ELSE line)
              /\ RunCommand(<<>>, lastcommand', IF line = <<>> THEN {"repeat"} ELSE {},
                            "main_loop")
        BY <2>5 DEF Typed
      <3>2. lastcommand' \in Values
        BY <1>1, <3>1, MonitorAssumption DEF ControlOK, Values
      <3>3. (IF line = <<>> THEN {"repeat"} ELSE {}) \in SUBSET Flags
        BY DEF Flags
      <3> QED BY <3>1, <3>2, <3>3, BootdBegins
    <2>6. CASE Reset
      BY <2>6, EmptyStack DEF Reset, BootdOK
    <2>7. CASE UNCHANGED stack
      BY <1>1, <2>7 DEF BootdOK
    <2> QED BY <2>1, <2>2, <2>3, <2>4, <2>5, <2>6, <2>7
            DEF Next, Progress, Booting, monVars, LineDone, AutobootDone, Key, vars
  <1> QED BY <1>2, <1>3, <1>4 DEF BootdInv

(* bootd never runs inside itself, however its line reaches it again, if no  *)
(* variable holds an autoscr: run_command's flag is handed down to every line *)
(* but a script's.                                                           *)
THEOREM BootdHolds ==
    ASSUME Environment \in [Variables -> QuietValues],
           \A c \in Cmd : c.op = "set" => c.line \in QuietValues
    PROVE  Spec => []BootdOnce
  <1>1. Init => BootdInv
    BY InitControl, EmptyStack DEF Init, BootdInv, BootdOK
  <1>2. BootdInv /\ [Next]_vars => BootdInv'
    BY NextBootd
  <1>3. ASSUME BootdInv PROVE BootdOnce
    <2> DEFINE S == {k \in DOMAIN stack : stack[k].by = "bootd"}
    <2>1. Len(stack) \in Nat /\ DOMAIN stack = 1..Len(stack)
      BY <1>3, LenProperties DEF BootdInv, ControlInv, StackOK
    <2>2. \A j, k \in S : j = k
      BY <1>3, <2>1 DEF BootdInv, BootdOK
    <2>3. S = {} \/ \E k \in S : S = {k}
      BY <2>2
    <2>4. Cardinality(S) = 0 \/ Cardinality(S) = 1
      <3> HIDE DEF S
      <3> QED BY <2>3, FS_EmptySet, FS_Singleton
    <2> QED BY <2>4 DEF BootdOnce
  <1> QED BY <1>1, <1>2, <1>3, PTL DEF Spec

-----------------------------------------------------------------------------
(* bootm. *)

Parts == {"header", "list", "kernel", "ramdisk", "unzipped"}

(* The cells that stem from an image. *)
CellsOf(i) == {i} \X Parts \X Nat

(* How many cells of an image are between its header and the kernel. *)
ListLen(i) == IF Image[i].type = "multi" THEN 1 ELSE 0

(* A row of cells of one part. *)
LEMMA CellsSeq ==
    ASSUME NEW i, NEW part \in Parts, NEW n \in Nat
    PROVE  /\ Cells(i, part, n) \in Seq(CellsOf(i))
           /\ Len(Cells(i, part, n)) = n
           /\ \A k \in 1..n : Cells(i, part, n)[k] = <<i, part, k>>
  <1>1. \A k \in 1..n : <<i, part, k>> \in CellsOf(i)
    BY DEF CellsOf
  <1>2. Cells(i, part, n) \in [1..n -> CellsOf(i)]
    BY <1>1 DEF Cells
  <1>3. \A k \in 1..n : Cells(i, part, n)[k] = <<i, part, k>>
    BY DEF Cells
  <1>4. ASSUME NEW S, NEW f \in [1..n -> S] PROVE f \in Seq(S) /\ Len(f) = n
    BY <1>4
  <1> QED BY <1>2, <1>3, <1>4

(* An image has the sizes of its parts. *)
LEMMA ImageSizes ==
    ASSUME NEW i \in Images
    PROVE  /\ Image[i].kernel \in Nat /\ Image[i].ramdisk \in Nat
           /\ Image[i].load \in 0..Top /\ Top \in Nat
           /\ ListLen(i) \in {0, 1}
  BY BootmAssumption DEF ImageType, ListLen

(* Where the parts of an image lie, counted from behind its header. *)
LEMMA LiesIs ==
    ASSUME NEW i \in Images
    PROVE  /\ Lies(i) \in Seq(CellsOf(i))
           /\ Len(Lies(i)) = 1 + ListLen(i) + Image[i].kernel + Image[i].ramdisk
           /\ Tail(Lies(i)) \in Seq(CellsOf(i))
           /\ Len(Tail(Lies(i))) = ListLen(i) + Image[i].kernel + Image[i].ramdisk
           /\ ListLen(i) = 1 => Tail(Lies(i))[1] = <<i, "list", 0>>
           /\ \A k \in 1..Image[i].kernel :
                 Tail(Lies(i))[ListLen(i) + k] = <<i, "kernel", k>>
           /\ \A k \in 1..Image[i].ramdisk :
                 Tail(Lies(i))[ListLen(i) + Image[i].kernel + k] = <<i, "ramdisk", k>>
  <1> DEFINE S == CellsOf(i)
             K == Image[i].kernel
             R == Image[i].ramdisk
             l == ListLen(i)
             h == << <<i, "header", 0>> >>
             g == IF Image[i].type = "multi" THEN << <<i, "list", 0>> >> ELSE <<>>
             a == Cells(i, "kernel", K)
             b == Cells(i, "ramdisk", R)
  <1>1. K \in Nat /\ R \in Nat /\ l \in {0, 1}
    BY ImageSizes
  <1>2. /\ a \in Seq(S) /\ Len(a) = K /\ \A k \in 1..K : a[k] = <<i, "kernel", k>>
        /\ b \in Seq(S) /\ Len(b) = R /\ \A k \in 1..R : b[k] = <<i, "ramdisk", k>>
    <2>1. "kernel" \in Parts /\ "ramdisk" \in Parts
      BY DEF Parts
    <2>2. a \in Seq(S) /\ Len(a) = K /\ \A k \in 1..K : a[k] = <<i, "kernel", k>>
      <3> HIDE DEF K
      <3> QED BY <1>1, <2>1, CellsSeq
    <2>3. b \in Seq(S) /\ Len(b) = R /\ \A k \in 1..R : b[k] = <<i, "ramdisk", k>>
      <3> HIDE DEF R
      <3> QED BY <1>1, <2>1, CellsSeq
    <2> QED BY <2>2, <2>3
  <1>3. /\ <<i, "header", 0>> \in S /\ <<i, "list", 0>> \in S
    BY DEF CellsOf, Parts
  <1>4. h \in Seq(S) /\ Len(h) = 1 /\ h # <<>>
    <2> HIDE DEF S
    <2> QED BY <1>3
  <1>5. g \in Seq(S) /\ Len(g) = l /\ (l = 1 => g[1] = <<i, "list", 0>>)
    <2> HIDE DEF S
    <2>1. CASE Image[i].type = "multi"
      <3>1. g = << <<i, "list", 0>> >> /\ l = 1
        BY <2>1 DEF ListLen
      <3> QED BY <1>3, <3>1
    <2>2. CASE Image[i].type # "multi"
      <3>1. g = <<>> /\ l = 0
        BY <2>2 DEF ListLen
      <3> QED BY <3>1, EmptySeq
    <2> QED BY <2>1, <2>2
  <1>6. Lies(i) = ((h \o g) \o a) \o b
    BY DEF Lies
  <1> HIDE DEF S, K, R, l, h, g, a, b
  <1> DEFINE w == h \o g
             v == w \o a
             u == v \o b
  <1>7. /\ w \in Seq(S) /\ Len(w) = 1 + l
        /\ \A k \in 1..1 + l : w[k] = IF k <= 1 THEN h[k] ELSE g[k - 1]
    BY <1>4, <1>5, ConcatProperties
  <1> HIDE DEF w
  <1>8. /\ v \in Seq(S) /\ Len(v) = 1 + l + K
        /\ \A k \in 1..1 + l + K : v[k] = IF k <= 1 + l THEN w[k] ELSE a[k - (1 + l)]
    <2>1. /\ v \in Seq(S) /\ Len(v) = Len(w) + Len(a)
          /\ \A k \in 1..Len(w) + Len(a) : v[k] = IF k <= Len(w) THEN w[k] ELSE a[k - Len(w)]
      BY <1>2, <1>7, ConcatProperties
    <2> QED BY <1>2, <1>7, <2>1
  <1> HIDE DEF v
  <1>9. /\ u \in Seq(S) /\ Len(u) = 1 + l + K + R /\ Lies(i) = u
        /\ \A k \in 1..1 + l + K + R :
              u[k] = IF k <= 1 + l + K THEN v[k] ELSE b[k - (1 + l + K)]
    <2>1. /\ u \in Seq(S) /\ Len(u) = Len(v) + Len(b)
          /\ \A k \in 1..Len(v) + Len(b) : u[k] = IF k <= Len(v) THEN v[k] ELSE b[k - Len(v)]
      BY <1>2, <1>8, ConcatProperties
    <2>2. Lies(i) = u
      BY <1>6 DEF u, v, w
    <2> HIDE DEF u
    <2> QED BY <1>2, <1>8, <2>1, <2>2
  <1> HIDE DEF u
  <1>10. u # <<>>
    <2>1. Len(u) # 0
      BY <1>1, <1>9
    <2> QED BY <2>1, EmptySeq
  <1> DEFINE t == Tail(u)
  <1>11. /\ t \in Seq(S) /\ Len(t) = l + K + R
         /\ \A k \in 1..l + K + R : t[k] = u[k + 1]
    <2>1. t \in Seq(S) /\ Len(t) = Len(u) - 1 /\ \A k \in 1..Len(t) : t[k] = u[k + 1]
      BY <1>9, <1>10, HeadTailProperties
    <2>2. Len(t) = l + K + R
      BY <1>1, <1>9, <2>1
    <2> QED BY <2>1, <2>2
  <1> HIDE DEF t
  <1>14. l = 1 => t[1] = <<i, "list", 0>>
    <2>1. l = 1 => t[1] = u[2] /\ u[2] = v[2] /\ v[2] = w[2] /\ w[2] = g[1]
      BY <1>1, <1>7, <1>8, <1>9, <1>11
    <2> QED BY <1>5, <2>1
  <1>15. \A k \in 1..K : t[l + k] = <<i, "kernel", k>>
    <2>1. ASSUME NEW k \in 1..K PROVE t[l + k] = a[k]
      <3>1. t[l + k] = u[l + k + 1]
        BY <1>1, <1>11
      <3>2. u[l + k + 1] = v[l + k + 1]
        BY <1>1, <1>9
      <3>3. v[l + k + 1] = a[k]
        <4>1. l + k + 1 \in 1..1 + l + K /\ ~(l + k + 1 <= 1 + l) /\ l + k + 1 - (1 + l) = k
          BY <1>1
        <4>2. v[l + k + 1] = a[l + k + 1 - (1 + l)]
          <5> DEFINE x == l + k + 1
          <5> HIDE DEF x
          <5>1. v[x] = IF x <= 1 + l THEN w[x] ELSE a[x - (1 + l)]
            BY <1>8, <4>1 DEF x
          <5> QED BY <1>1, <4>1, <5>1 DEF x
        <4> QED BY <4>1, <4>2
      <3> QED BY <3>1, <3>2, <3>3
    <2> QED BY <1>2, <2>1
  <1>16. \A k \in 1..R : t[l + K + k] = <<i, "ramdisk", k>>
    <2>1. ASSUME NEW k \in 1..R PROVE t[l + K + k] = b[k]
      <3>1. t[l + K + k] = u[l + K + k + 1]
        BY <1>1, <1>11
      <3>2. u[l + K + k + 1] = b[k]
        <4>1. /\ l + K + k + 1 \in 1..1 + l + K + R /\ ~(l + K + k + 1 <= 1 + l + K)
              /\ l + K + k + 1 - (1 + l + K) = k
          BY <1>1
        <4>2. u[l + K + k + 1] = b[l + K + k + 1 - (1 + l + K)]
          <5> DEFINE x == l + K + k + 1
          <5> HIDE DEF x
          <5>1. u[x] = IF x <= 1 + l + K THEN v[x] ELSE b[x - (1 + l + K)]
            BY <1>9, <4>1 DEF x
          <5> QED BY <1>1, <4>1, <5>1 DEF x
        <4> QED BY <4>1, <4>2
      <3> QED BY <3>1, <3>2
    <2> QED BY <1>2, <2>1
  <1> QED BY <1>9, <1>11, <1>14, <1>15, <1>16 DEF S, K, R, l, t

(* What runs: the kernel as it lies in the image, or unpacked. *)
LEMMA RunsIs ==
    ASSUME NEW i \in Images
    PROVE  /\ Runs(i) \in Seq(CellsOf(i)) /\ Len(Runs(i)) \in Nat
           /\ Image[i].comp # "gzip" => Runs(i) = Cells(i, "kernel", Image[i].kernel)
  <1>1. Image[i].kernel \in Nat /\ 2 * Image[i].kernel \in Nat
    BY ImageSizes
  <1>2. /\ Cells(i, "kernel", Image[i].kernel) \in Seq(CellsOf(i))
        /\ Cells(i, "unzipped", 2 * Image[i].kernel) \in Seq(CellsOf(i))
    BY <1>1, CellsSeq DEF Parts
  <1>3. Runs(i) \in Seq(CellsOf(i))
    BY <1>2 DEF Runs
  <1> QED BY <1>3, LenProperties DEF Runs

(* What is in memory stems from images. *)
MemOK == \A a \in 0..Top : mem[a][1] \in Images \cup {None}

(* Who called bootm, and with what. *)
CallOK ==
    /\ ramdisk \in 0..Top \cup {Absent}
    /\ pc \notin {"monitor", "reset"} =>
          /\ addr \in 0..Top /\ image \in Images \ {None}
          /\ pc # "verify" => Image[image].type \in {"standalone", "kernel", "multi"}

(* What the checksum was right for is where it was until it is moved, and it *)
(* is whole where it was moved to, and where it was moved from.              *)
MovedOK ==
    verify =>
        /\ pc = "load" => DataOk(addr, image)
        /\ pc \in {"application", "linux", "start", "gone"} /\ ~Overlapping =>
              /\ Holds(mem, Image[image].load, Runs(image))
              /\ Holds(mem, addr + 1, Tail(Lies(image)))

(* The ramdisk is that of the image itself, or an image of its own, whole.   *)
FoundOK ==
    /\ "of" \in DOMAIN started
    /\ pc \in {"start", "gone"} =>
          \/ started.of = None
          \/ ramdisk = Absent /\ started.of = image /\ Image[image].type = "multi"
          \/ /\ ramdisk # Absent /\ started.of \in Images
             /\ Image[started.of].type = "ramdisk"
             /\ verify => DataOk(ramdisk, started.of)

BootInv == MemOK /\ CallOK /\ MovedOK /\ FoundOK

(* Part of what lies somewhere. *)
LEMMA HoldsPart ==
    ASSUME NEW m, NEW a \in Nat, NEW S, NEW t \in Seq(S), NEW T, NEW s \in Seq(T),
           NEW o \in Nat, o + Len(s) <= Len(t), Top \in Nat,
           \A k \in 1..Len(s) : s[k] = t[o + k],
           Holds(m, a, t)
    PROVE  Holds(m, a + o, s)
  <1>1. Len(s) \in Nat /\ Len(t) \in Nat
    BY LenProperties
  <1> DEFINE n == Len(s)
             p == Len(t)
  <1>2. /\ n \in Nat /\ p \in Nat /\ o + n <= p /\ a + p - 1 <= Top
        /\ \A k \in 1..p : m[a + k - 1] = t[k]
        /\ \A k \in 1..n : s[k] = t[o + k]
    BY <1>1 DEF Holds
  <1> HIDE DEF n, p
  <1>3. a + o + n - 1 <= Top
    BY <1>2
  <1>4. ASSUME NEW k \in 1..n PROVE m[a + o + k - 1] = s[k]
    <2>1. o + k \in 1..p /\ a + (o + k) - 1 = a + o + k - 1
      BY <1>2
    <2>2. m[a + (o + k) - 1] = t[o + k]
      BY <1>2, <2>1
    <2> QED BY <1>2, <2>1, <2>2
  <1> QED BY <1>3, <1>4 DEF Holds, n

(* Something stays where it is when nothing is written there. *)
LEMMA HoldsKept ==
    ASSUME NEW m, NEW q, NEW a \in Nat, NEW S, NEW s \in Seq(S), Holds(m, a, s),
           \A b \in a..(a + Len(s) - 1) : q[b] = m[b]
    PROVE  Holds(q, a, s)
  <1>1. Len(s) \in Nat
    BY LenProperties
  <1> DEFINE n == Len(s)
  <1> HIDE DEF n
  <1>2. ASSUME NEW k \in 1..n PROVE a + k - 1 \in a..(a + n - 1)
    BY <1>1 DEF n
  <1>3. \A k \in 1..n : q[a + k - 1] = m[a + k - 1]
    BY <1>2 DEF n
  <1> QED BY <1>3 DEF Holds, n

(* A copy over a place that does not touch its source is complete; around it *)
(* nothing changes.                                                          *)
LEMMA Copied ==
    ASSUME NEW m, NEW dst \in Nat, NEW src \in Nat, NEW S, NEW s \in Seq(S), Top \in Nat,
           Holds(m, src, s), dst + Len(s) - 1 <= Top,
           Region(src, Len(s)) \cap Region(dst, Len(s)) = {}
    PROVE  Holds(Memcpy(m, dst, src, Len(s)), dst, s)
  <1> DEFINE n == Len(s)
             from(k) == IF dst > src THEN src + (k % (dst - src)) ELSE src + k
             q == Memcpy(m, dst, src, n)
  <1>1. n \in Nat
    BY LenProperties
  <1>2. \A k \in 1..n : m[src + k - 1] = s[k]
    BY DEF Holds
  <1>3. ASSUME NEW k \in 0..n - 1 PROVE from(k) = src + k
    <2>1. CASE dst > src
      <3>1. dst - src > k
        <4>1. CASE dst - src >= n
          BY <1>1, <2>1, <4>1
        <4>2. CASE dst - src < n
          <5>1. dst \in Region(src, n) /\ dst \in Region(dst, n)
            <6> HIDE DEF n
            <6> QED BY <1>1, <2>1, <4>2 DEF Region
          <5> QED BY <5>1
        <4> QED BY <1>1, <4>1, <4>2
      <3> DEFINE d == dst - src
      <3>2. d \in Nat /\ d > k /\ k \in Nat
        BY <1>1, <2>1, <3>1
      <3>3. k % d = k
        <4> HIDE DEF d
        <4> QED BY <3>2
      <3> QED BY <2>1, <3>3
    <2>2. CASE ~(dst > src)
      BY <2>2
    <2> QED BY <2>1, <2>2
  <1>4. ASSUME NEW k \in 1..n PROVE q[dst + k - 1] = s[k]
    <2> DEFINE b == dst + k - 1
    <2>1. b \in 0..Top /\ b \in Region(dst, n) /\ b - dst = k - 1 /\ k - 1 \in 0..n - 1
      <3>1. dst + n - 1 <= Top
        OBVIOUS
      <3> HIDE DEF n
      <3> QED BY <1>1, <3>1 DEF Region
    <2>2. q[b] = IF from(b - dst) <= Top THEN m[from(b - dst)] ELSE Junk
      BY <2>1 DEF Memcpy
    <2>3. from(b - dst) = src + k - 1
      <3>1. from(k - 1) = src + (k - 1)
        BY <1>3, <2>1
      <3>2. src + (k - 1) = src + k - 1
        BY <2>1
      <3> QED BY <2>1, <3>1, <3>2
    <2>4. src + k - 1 <= Top
      <3>1. src + n - 1 <= Top
        BY DEF Holds
      <3> HIDE DEF n
      <3> QED BY <1>1, <3>1
    <2> QED BY <1>2, <2>2, <2>3, <2>4
  <1>5. dst + n - 1 <= Top
    OBVIOUS
  <1> HIDE DEF q
  <1>6. Holds(q, dst, s)
    BY <1>4, <1>5 DEF Holds
  <1> QED BY <1>6 DEF q

(* Cells that are copied, or put somewhere, are what they were. *)
LEMMA CellsMoved ==
    ASSUME Top \in Nat, MemOK, NEW dst \in Nat, NEW src \in Nat, NEW n \in Nat
    PROVE  \A a \in 0..Top : Memcpy(mem, dst, src, n)[a][1] \in Images \cup {None}
  <1> DEFINE from(k) == IF dst > src THEN src + (k % (dst - src)) ELSE src + k
  <1>1. Junk[1] = None
    BY DEF Junk
  <1>2. SUFFICES ASSUME NEW a \in 0..Top
                 PROVE  Memcpy(mem, dst, src, n)[a][1] \in Images \cup {None}
    OBVIOUS
  <1>3. CASE a \in Region(dst, n)
    <2>1. a - dst \in Nat
      BY <1>3 DEF Region
    <2>2. from(a - dst) \in Nat
      <3> DEFINE k == a - dst
      <3>1. k \in Nat
        BY <2>1
      <3> HIDE DEF k
      <3>2. CASE dst > src
        <4> DEFINE d == dst - src
        <4>1. d \in Nat \ {0}
          BY <3>2
        <4>2. k % d \in Nat
          <5> HIDE DEF d
          <5> QED BY <3>1, <4>1
        <4> QED BY <3>2, <4>2 DEF k
      <3>3. CASE ~(dst > src)
        BY <3>1, <3>3 DEF k
      <3> QED BY <3>2, <3>3
    <2>3. Memcpy(mem, dst, src, n)[a] =
              IF from(a - dst) <= Top THEN mem[from(a - dst)] ELSE Junk
      BY <1>3 DEF Memcpy
    <2> HIDE DEF from
    <2>4. CASE from(a - dst) <= Top
      <3>1. from(a - dst) \in 0..Top
        BY <2>2, <2>4
      <3> QED BY <2>3, <2>4, <3>1 DEF MemOK
    <2>5. CASE ~(from(a - dst) <= Top)
      BY <1>1, <2>3, <2>5
    <2> QED BY <2>4, <2>5
  <1>4. CASE a \notin Region(dst, n)
    BY <1>4 DEF Memcpy, MemOK
  <1> QED BY <1>3, <1>4

(* bootm is called. *)
LEMMA BootmBoot ==
    ASSUME BootInv, NEW a \in 0..Top, NEW arg \in 0..Top \cup {Absent}, Bootm(a, arg)
    PROVE  BootInv'
  <1>1. CASE ~ImageAt(a)
    BY <1>1 DEF Bootm, ReturnToMonitor, BootInv, MemOK, CallOK, MovedOK, FoundOK
  <1>2. CASE ImageAt(a)
    <2>1. /\ image' = mem[a][1] /\ pc' = "verify" /\ ramdisk' = arg
          /\ UNCHANGED started
          /\ IF InFlash(a)
               THEN /\ mem' = Memcpy(mem, CFG_LOAD_ADDR, a, Len(Lies(image')))
                    /\ addr' = CFG_LOAD_ADDR
               ELSE addr' = a /\ UNCHANGED mem
      BY <1>2 DEF Bootm
    <2>2. image' \in Images \ {None}
      BY <1>2, <2>1 DEF ImageAt, BootInv, MemOK
    <2>3. addr' \in 0..Top
      BY <2>1, BootmAssumption
    <2>4. MemOK'
      <3>1. CASE InFlash(a)
        <4> DEFINE n == Len(Lies(image'))
        <4>1. n \in Nat
          BY <2>2, LiesIs, LenProperties
        <4>2. Top \in Nat /\ a \in Nat /\ CFG_LOAD_ADDR \in Nat
          BY BootmAssumption
        <4>3. mem' = Memcpy(mem, CFG_LOAD_ADDR, a, n)
          BY <2>1, <3>1
        <4> HIDE DEF n
        <4>4. \A c \in 0..Top :
                 Memcpy(mem, CFG_LOAD_ADDR, a, n)[c][1] \in Images \cup {None}
          BY <4>1, <4>2, CellsMoved DEF BootInv
        <4> QED BY <4>3, <4>4 DEF MemOK
      <3>2. CASE ~InFlash(a)
        BY <2>1, <3>2 DEF BootInv, MemOK
      <3> QED BY <3>1, <3>2
    <2>5. CallOK' /\ MovedOK' /\ FoundOK'
      BY <2>1, <2>2, <2>3 DEF CallOK, MovedOK, FoundOK, BootInv
    <2> QED BY <2>4, <2>5 DEF BootInv
  <1> QED BY <1>1, <1>2

(* The checksum of the data. *)
LEMMA VerifyBoot ==
    ASSUME BootInv, Verify
    PROVE  BootInv'
  <1>1. /\ pc = "verify" /\ UNCHANGED <<mem, addr, image, ramdisk, verify, started>>
        /\ \/ pc' = "monitor"
           \/ /\ pc' = "load" /\ (verify => DataOk(addr, image))
              /\ Image[image].type \in {"standalone", "kernel", "multi"}
    BY DEF Verify
  <1>2. MovedOK'
    BY <1>1 DEF MovedOK, DataOk, Holds
  <1> QED BY <1>1, <1>2 DEF BootInv, MemOK, CallOK, FoundOK

(* The kernel is moved. *)
LEMMA LoadBoot ==
    ASSUME BootInv, Load
    PROVE  BootInv'
  <1> DEFINE i == Image[image]
             dat == Data(addr, image)
             r == Runs(image)
             src == Region(dat, i.kernel)
             target == Region(i.load, Len(r))
             t == Tail(Lies(image))
             sound == Holds(mem, dat, Cells(image, "kernel", i.kernel))
                         /\ i.dataOk /\ src \cap target = {}
             junk == [k \in DOMAIN r |-> Junk]
  <1>1. /\ pc = "load" /\ UNCHANGED <<addr, image, ramdisk, verify, started>>
        /\ addr \in 0..Top /\ image \in Images \ {None}
        /\ i.type \in {"standalone", "kernel", "multi"}
    BY DEF Load, BootInv, CallOK
  <1>2. /\ i.kernel \in Nat /\ i.ramdisk \in Nat /\ i.load \in 0..Top /\ Top \in Nat
        /\ ListLen(image) \in {0, 1}
    BY <1>1, ImageSizes
  <1>3. /\ r \in Seq(CellsOf(image)) /\ Len(r) \in Nat
        /\ i.comp # "gzip" => r = Cells(image, "kernel", i.kernel)
    BY <1>1, RunsIs
  <1>4. i.load + Len(r) - 1 <= Top
    BY <1>1, ImagesAssumption
  <1>5. /\ t \in Seq(CellsOf(image))
        /\ Len(Lies(image)) = 1 + ListLen(image) + i.kernel + i.ramdisk
        /\ Len(t) = ListLen(image) + i.kernel + i.ramdisk
        /\ \A k \in 1..i.kernel : t[ListLen(image) + k] = <<image, "kernel", k>>
    BY <1>1, LiesIs
  <1>6. dat = addr + 1 + ListLen(image) /\ dat \in Nat /\ addr + 1 \in Nat
    BY <1>1, <1>2 DEF Data, ListLen
  <1>7. \/ i.comp = "none" /\ mem' = Memcpy(mem, i.load, dat, i.kernel)
                           /\ pc' \in {"application", "linux"}
        \/ i.comp = "gzip" /\ sound /\ mem' = Put(mem, i.load, r)
                           /\ pc' \in {"application", "linux"}
        \/ i.comp = "gzip" /\ ~sound /\ mem' = Put(mem, i.load, junk)
                           /\ pc' \in {"application", "linux", "reset"}
        \/ pc' = "monitor" /\ UNCHANGED mem
    BY DEF Load, Loaded, ReturnToMonitor
  <1> DEFINE K == Cells(image, "kernel", i.kernel)
  <1>8. /\ K \in Seq(CellsOf(image)) /\ Len(K) = i.kernel
        /\ \A k \in 1..i.kernel : K[k] = <<image, "kernel", k>>
    <2>1. "kernel" \in Parts
      BY DEF Parts
    <2>2. i.kernel \in Nat
      BY <1>2
    <2> HIDE DEF i
    <2> QED BY <2>1, <2>2, CellsSeq
  (* Everything else of the image stays. *)
  <1> DEFINE whole == Region(addr, Len(Lies(image)))
  <1>9. ASSUME mem' # mem
        PROVE  \A b \in 0..Top : b \notin target => mem'[b] = mem[b]
    <2>1. i.comp = "none" => Len(r) = i.kernel
      BY <1>3, <1>8
    <2>2. Len(junk) = Len(r)
      <3>1. DOMAIN r = 1..Len(r)
        BY <1>3, LenProperties
      <3> DEFINE n == Len(r)
      <3> HIDE DEF n, r
      <3>2. n \in Nat
        BY <1>3 DEF n
      <3>3. [k \in 1..n |-> Junk] \in [1..n -> {Junk}]
        OBVIOUS
      <3>4. ASSUME NEW S, NEW f \in [1..n -> S] PROVE Len(f) = n
        BY <3>2, <3>4
      <3>5. Len([k \in 1..n |-> Junk]) = n
        BY <3>3, <3>4
      <3> QED BY <3>1, <3>5 DEF n
    <2> HIDE DEF i, r, junk, dat, sound
    <2> QED BY <1>7, <1>9, <2>1, <2>2 DEF Memcpy, Put
  <1>10. MemOK'
    <2>1. CASE mem' = Memcpy(mem, i.load, dat, i.kernel)
      <3>1. i.load \in Nat
        BY <1>2
      <3> HIDE DEF i, dat
      <3>2. \A a \in 0..Top : Memcpy(mem, i.load, dat, i.kernel)[a][1] \in Images \cup {None}
        BY <1>2, <1>6, <3>1, CellsMoved DEF BootInv
      <3> QED BY <2>1, <3>2 DEF MemOK
    <2>2. CASE mem' = Put(mem, i.load, r) \/ mem' = Put(mem, i.load, junk)
      <3>1. DOMAIN r = 1..Len(r) /\ Junk[1] = None
        BY <1>3, LenProperties DEF Junk
      <3>2. ASSUME NEW k \in 1..Len(r) PROVE r[k][1] \in Images \cup {None}
        <4>1. r[k] \in CellsOf(image)
          BY <1>3, ElementOfSeq
        <4> QED BY <1>1, <4>1 DEF CellsOf
      <3>3. \A k \in 1..Len(r) : junk[k][1] = None
        BY <3>1
      <3>4. Len(junk) = Len(r)
        <4> DEFINE n == Len(r)
        <4> HIDE DEF n, r
        <4>1. n \in Nat
          BY <1>3 DEF n
        <4>2. [k \in 1..n |-> Junk] \in [1..n -> {Junk}]
          OBVIOUS
        <4>3. ASSUME NEW S, NEW f \in [1..n -> S] PROVE Len(f) = n
          BY <4>1, <4>3
        <4>4. Len([k \in 1..n |-> Junk]) = n
          BY <4>2, <4>3
        <4> QED BY <3>1, <4>4 DEF n
      <3> HIDE DEF i, r, junk
      <3>5. ASSUME NEW s, Len(s) = Len(r), NEW a \in 0..Top,
                   \A k \in 1..Len(r) : s[k][1] \in Images \cup {None}
            PROVE  Put(mem, i.load, s)[a][1] \in Images \cup {None}
        <4>1. CASE a \in Region(i.load, Len(s))
          <5>1. a - i.load + 1 \in 1..Len(r)
            BY <1>2, <1>3, <3>5, <4>1 DEF Region
          <5>2. Put(mem, i.load, s)[a] = s[a - i.load + 1]
            BY <4>1 DEF Put
          <5> QED BY <3>5, <5>1, <5>2
        <4>2. CASE a \notin Region(i.load, Len(s))
          BY <4>2 DEF Put, BootInv, MemOK
        <4> QED BY <4>1, <4>2
      <3>6. \A a \in 0..Top : mem'[a][1] \in Images \cup {None}
        BY <2>2, <3>2, <3>3, <3>4, <3>5
      <3> QED BY <3>6 DEF MemOK
    <2>3. CASE UNCHANGED mem
      BY <2>3 DEF BootInv, MemOK
    <2> QED BY <1>7, <2>1, <2>2, <2>3
  <1>11. CallOK' /\ FoundOK'
    <2> HIDE DEF i, dat, r, src, target, t, sound, junk
    <2>1. pc' \notin {"verify", "load", "start", "gone"}
      BY <1>7
    <2> QED BY <1>1, <2>1 DEF BootInv, CallOK, FoundOK, i
  <1>12. MovedOK'
    <2>1. SUFFICES ASSUME verify, target \cap whole = {}, pc' \in {"application", "linux"}
                   PROVE  Holds(mem', i.load, r) /\ Holds(mem', addr + 1, t)
      <3>1. pc' \notin {"load", "start", "gone"} /\ verify' = verify /\ image' = image
              /\ addr' = addr
        BY <1>1, <1>7
      <3>2. Overlapping' <=> target \cap whole # {}
        BY <3>1 DEF Overlapping
      <3> HIDE DEF i, r, t, target, whole
      <3>3. ASSUME verify, target \cap whole = {}, pc' \in {"application", "linux"}
            PROVE  Holds(mem', i.load, r) /\ Holds(mem', addr + 1, t)
        BY <2>1, <3>3
      <3>4. MovedOK' <=>
              (verify /\ pc' \in {"application", "linux", "start", "gone"} /\ ~Overlapping'
                => Holds(mem', i.load, r) /\ Holds(mem', addr + 1, t))
        BY <3>1 DEF MovedOK, i, r, t
      <3> QED BY <3>1, <3>2, <3>3, <3>4
    <2>2. Holds(mem, addr + 1, t) /\ i.dataOk
      BY <1>1, <2>1 DEF BootInv, MovedOK, DataOk
    <2>3. Holds(mem, dat, K)
      <3>1. ListLen(image) + Len(K) <= Len(t) /\ ListLen(image) \in Nat
        BY <1>2, <1>5, <1>8
      <3>2. \A k \in 1..Len(K) : K[k] = t[ListLen(image) + k]
        BY <1>5, <1>8
      <3> HIDE DEF K, t
      <3>3. Holds(mem, addr + 1 + ListLen(image), K)
        <4>1. t \in Seq(CellsOf(image)) /\ K \in Seq(CellsOf(image))
          BY <1>5, <1>8 DEF t, K
        <4>2. Holds(mem, addr + 1, t) /\ addr + 1 \in Nat /\ Top \in Nat
          BY <1>2, <1>6, <2>2 DEF t
        <4> QED BY <3>1, <3>2, <4>1, <4>2, HoldsPart
      <3> QED BY <1>6, <3>3
    <2>4. src \subseteq whole
      <3> DEFINE l == ListLen(image)
                 k == i.kernel
                 rd == i.ramdisk
                 w == Len(Lies(image))
      <3>1. /\ l \in Nat /\ k \in Nat /\ rd \in Nat /\ w = 1 + l + k + rd /\ addr \in Nat
            /\ dat = addr + 1 + l
        BY <1>1, <1>2, <1>5, <1>6
      <3> HIDE DEF l, k, rd, w, dat
      <3>2. Region(dat, k) \subseteq Region(addr, w)
        BY <3>1 DEF Region
      <3> QED BY <3>2 DEF k, w
    <2>5. src \cap target = {}
      BY <2>1, <2>4
    <2>6. Holds(mem', i.load, r)
      <3>1. CASE i.comp = "none" /\ mem' = Memcpy(mem, i.load, dat, i.kernel)
        <4>1. r = K /\ Len(K) = i.kernel
          BY <1>3, <1>8, <3>1
        <4>2. Region(dat, Len(K)) \cap Region(i.load, Len(K)) = {} /\ i.load + Len(K) - 1 <= Top
          BY <1>4, <2>5, <4>1
        <4>3. i.load \in Nat
          BY <1>2
        <4> HIDE DEF K, r, dat, i
        <4>4. Holds(Memcpy(mem, i.load, dat, Len(K)), i.load, K)
          BY <1>2, <1>6, <1>8, <2>3, <4>2, <4>3, Copied
        <4> QED BY <3>1, <4>1, <4>4
      <3>2. CASE mem' = Put(mem, i.load, r)
        <4> DEFINE n == Len(r)
                   p == i.load
        <4>1. n \in Nat /\ p \in Nat /\ p + n - 1 <= Top
          BY <1>2, <1>3, <1>4
        <4> HIDE DEF n, p
        <4>2. ASSUME NEW k \in 1..n PROVE mem'[p + k - 1] = r[k]
          <5> DEFINE b == p + k - 1
          <5>1. b \in 0..Top /\ b \in Region(p, n) /\ b - p + 1 = k
            <6>1. k \in Nat /\ k >= 1 /\ k <= n
              BY <4>1
            <6>2. b \in Nat /\ b >= p /\ b <= p + n - 1 /\ b <= Top /\ b - p + 1 = k
              BY <1>2, <4>1, <6>1
            <6> HIDE DEF b
            <6> QED BY <1>2, <4>1, <6>2 DEF Region
          <5> HIDE DEF b
          <5>2. mem'[b] = r[b - p + 1]
            BY <3>2, <5>1 DEF Put, n, p
          <5> QED BY <5>1, <5>2 DEF b
        <4> QED BY <4>1, <4>2 DEF Holds, n, p
      <3>3. sound
        BY <2>2, <2>3, <2>5
      <3>4. pc' # "monitor"
        BY <2>1
      <3> HIDE DEF sound, i, r, dat
      <3> QED BY <1>7, <3>1, <3>2, <3>3, <3>4
    <2>7. Holds(mem', addr + 1, t)
      <3>1. ASSUME NEW b \in (addr + 1)..(addr + 1 + Len(t) - 1)
            PROVE  b \in whole /\ b \in 0..Top
        <4> DEFINE n == Len(t)
        <4>1. /\ n \in Nat /\ Len(Lies(image)) = 1 + n /\ addr \in Nat
              /\ addr + 1 + n - 1 <= Top
          BY <1>1, <1>2, <1>5, <2>2 DEF Holds
        <4> HIDE DEF n
        <4> DEFINE w == Len(Lies(image))
        <4>2. w = 1 + n /\ Top \in Nat /\ b \in (addr + 1)..(addr + 1 + n - 1)
          BY <1>2, <3>1, <4>1 DEF n
        <4> HIDE DEF w
        <4>3. b \in Region(addr, w) /\ b \in 0..Top
          BY <4>1, <4>2 DEF Region
        <4> QED BY <4>3 DEF w
      <3>2. \A b \in (addr + 1)..(addr + 1 + Len(t) - 1) : mem'[b] = mem[b]
        BY <1>9, <2>1, <3>1
      <3> HIDE DEF t
      <3> QED BY <1>5, <1>6, <2>2, <3>2, HoldsKept
    <2> QED BY <2>6, <2>7
  <1> QED BY <1>10, <1>11, <1>12 DEF BootInv

(* Nothing moves any more. *)
LEMMA StaysBoot ==
    ASSUME BootInv, UNCHANGED <<mem, addr, image, ramdisk, verify>>,
           pc \in {"application", "linux", "start"}, pc' \in {"linux", "start", "gone", "reset"}
    PROVE  MemOK' /\ CallOK' /\ MovedOK'
  <1>1. MemOK' /\ CallOK'
    BY DEF BootInv, MemOK, CallOK
  <1>2. MovedOK'
    <2>1. Overlapping' = Overlapping
      BY DEF Overlapping
    <2>2. verify /\ ~Overlapping =>
            Holds(mem, Image[image].load, Runs(image)) /\ Holds(mem, addr + 1, Tail(Lies(image)))
      BY DEF BootInv, MovedOK
    <2> QED BY <2>1, <2>2 DEF MovedOK
  <1> QED BY <1>1, <1>2

(* The ramdisk is looked for. *)
LEMMA FindBoot ==
    ASSUME BootInv, FindRamdisk
    PROVE  BootInv'
  <1>1. /\ pc = "linux" /\ pc' \in {"start", "reset"}
        /\ UNCHANGED <<mem, addr, image, ramdisk, verify>>
    BY DEF FindRamdisk, NoRamdisk
  <1>2. /\ "of" \in DOMAIN started /\ ramdisk \in 0..Top \cup {Absent}
    BY DEF BootInv, FoundOK, CallOK
  <1>3. ASSUME NEW r, NEW o, started' = [started EXCEPT !.initrd = r, !.of = o]
        PROVE  "of" \in DOMAIN started' /\ started'.of = o
    BY <1>2, <1>3
  <1>4. FoundOK'
    <2>1. CASE /\ ramdisk # Absent /\ RamdiskOk(ramdisk)
               /\ started'.of = mem[ramdisk][1] /\ "of" \in DOMAIN started'
      <3>1. /\ mem[ramdisk][1] \in Images /\ Image[mem[ramdisk][1]].type = "ramdisk"
            /\ verify => DataOk(ramdisk, mem[ramdisk][1])
        BY <1>2, <2>1 DEF RamdiskOk, ImageAt, BootInv, MemOK
      <3>2. verify' => DataOk(ramdisk, started.of)'
        BY <1>1, <2>1, <3>1 DEF DataOk
      <3> QED BY <1>1, <2>1, <3>1, <3>2 DEF FoundOK
    <2>2. CASE pc' = "reset" /\ UNCHANGED started
      BY <1>2, <2>2 DEF FoundOK
    <2>3. CASE /\ ramdisk = Absent /\ Image[image].type = "multi"
               /\ started'.of = image /\ "of" \in DOMAIN started'
      BY <1>1, <2>3 DEF FoundOK
    <2>4. CASE started'.of = None /\ "of" \in DOMAIN started'
      BY <2>4 DEF FoundOK
    <2>5. \/ /\ ramdisk # Absent /\ RamdiskOk(ramdisk)
             /\ \E r : started' = [started EXCEPT !.initrd = r, !.of = mem[ramdisk][1]]
          \/ pc' = "reset" /\ UNCHANGED started
          \/ /\ ramdisk = Absent /\ Image[image].type = "multi"
             /\ \E r : started' = [started EXCEPT !.initrd = r, !.of = image]
          \/ \E r : started' = [started EXCEPT !.initrd = r, !.of = None]
      <3>1. CASE /\ ramdisk # Absent /\ RamdiskOk(ramdisk) /\ header' = mem[ramdisk][1]
                 /\ started' = [started EXCEPT
                      !.initrd = Region(ramdisk + 1, Image[header'].ramdisk), !.of = header']
        BY <3>1
      <3>2. CASE NoRamdisk
        BY <3>2 DEF NoRamdisk
      <3>3. CASE /\ ramdisk = Absent /\ Image[image].type = "multi"
                 /\ \E r : started' = [started EXCEPT !.initrd = r, !.of = image]
        BY <3>3
      <3>4. CASE started' = [started EXCEPT !.initrd = {}, !.of = None]
        BY <3>4
      <3> QED BY <3>1, <3>2, <3>3, <3>4 DEF FindRamdisk
    <2> QED BY <1>3, <2>1, <2>2, <2>3, <2>4, <2>5
  <1> QED BY <1>1, <1>4, StaysBoot DEF BootInv

(* The program or the kernel is entered. *)
LEMMA EnterBoot ==
    ASSUME BootInv, Application \/ StartKernel
    PROVE  BootInv'
  <1>1. /\ UNCHANGED <<mem, addr, image, ramdisk, verify>>
        /\ pc \in {"application", "start"} /\ pc' \in {"gone", "linux"}
    BY DEF Application, StartKernel
  <1>2. "of" \in DOMAIN started
    BY DEF BootInv, FoundOK
  <1>3. FoundOK'
    <2>1. CASE Application
      <3>1. CASE started' = [NotStarted EXCEPT !.kernel = image, !.entry = Image[header].ep]
        <4>1. "of" \in DOMAIN started' /\ started'.of = None
          BY <3>1 DEF NotStarted
        <4> QED BY <4>1 DEF FoundOK
      <3>2. CASE pc' = "linux" /\ UNCHANGED started
        BY <1>2, <3>2 DEF FoundOK
      <3> QED BY <2>1, <3>1, <3>2 DEF Application
    <2>2. CASE StartKernel
      <3>1. /\ pc = "start"
            /\ started' = [started EXCEPT !.kernel = image, !.entry = Image[header].ep]
        BY <2>2 DEF StartKernel
      <3>2. "of" \in DOMAIN started' /\ started'.of = started.of
        BY <1>2, <3>1
      <3>3. DataOk(ramdisk, started.of)' <=> DataOk(ramdisk, started.of)
        BY <1>1, <3>2 DEF DataOk
      <3>4. \/ started.of = None
            \/ ramdisk = Absent /\ started.of = image /\ Image[image].type = "multi"
            \/ /\ ramdisk # Absent /\ started.of \in Images
               /\ Image[started.of].type = "ramdisk"
               /\ verify => DataOk(ramdisk, started.of)
        BY <3>1 DEF BootInv, FoundOK
      <3> QED BY <1>1, <3>2, <3>3, <3>4 DEF FoundOK
    <2> QED BY <2>1, <2>2
  <1> QED BY <1>1, <1>3, StaysBoot DEF BootInv

(* Every step keeps it. *)
LEMMA NextBoot ==
    ASSUME ControlInv, BootInv, [Next]_vars
    PROVE  BootInv'
  <1>1. CASE BootmCommand
    <2>1. Ready("bootm") /\ Bootm(ToRun.addr, ToRun.arg) /\ ToRun.op = "bootm"
      BY <1>1 DEF BootmCommand, Ready
    <2>2. ToRun \in Cmd
      <3>1. {} \in SUBSET Flags
        OBVIOUS
      <3> QED BY <2>1, <3>1, ReadyFrame DEF ControlInv
    <2>3. ToRun.addr \in 0..Top /\ ToRun.arg \in 0..Top \cup {Absent}
      BY <2>1, <2>2, MonitorAssumption
    <2> QED BY <2>1, <2>3, BootmBoot
  <1>2. CASE Booting
    BY <1>2, VerifyBoot, LoadBoot, FindBoot, EnterBoot DEF Booting, BootStep
  <1>3. CASE Reset
    <2>1. /\ pc' = "monitor" /\ started' = NotStarted
          /\ UNCHANGED <<mem, addr, image, ramdisk, verify>>
      BY <1>3 DEF Reset
    <2>2. "of" \in DOMAIN NotStarted
      BY DEF NotStarted
    <2> QED BY <2>1, <2>2 DEF BootInv, MemOK, CallOK, MovedOK, FoundOK
  <1>4. CASE UNCHANGED <<mem, pc, addr, image, ramdisk, verify, started>>
    <2>1. MemOK' /\ CallOK'
      BY <1>4 DEF BootInv, MemOK, CallOK
    <2>2. MovedOK'
      <3>1. Overlapping' = Overlapping /\ DataOk(addr, image)' = DataOk(addr, image)
        BY <1>4 DEF Overlapping, DataOk
      <3>2. MovedOK
        BY DEF BootInv
      <3> QED BY <1>4, <3>1, <3>2 DEF MovedOK
    <2>3. FoundOK'
      <3>1. DataOk(ramdisk, started.of)' = DataOk(ramdisk, started.of)
        BY <1>4 DEF DataOk
      <3>2. FoundOK
        BY DEF BootInv
      <3> QED BY <1>4, <3>1, <3>2 DEF FoundOK
    <2> QED BY <2>1, <2>2, <2>3 DEF BootInv
  <1>5. \/ BootmCommand \/ Booting \/ Reset
        \/ UNCHANGED <<mem, pc, addr, image, ramdisk, verify, started>>
    BY DEF Next, Progress, AfterCommand, LineEnds, Plain, Bad, SetVariable, Run, RunNext, Bootd,
      Script, Autoboot, LineDone, AutobootDone, Key, Typed, vars, bootVars
  <1> QED BY <1>1, <1>2, <1>3, <1>4, <1>5

(* It holds at first. *)
LEMMA InitBoot ==
    ASSUME BootInit
    PROVE  BootInv
  <1>1. PICK place \in Memories : mem = Filled(place)
    BY DEF BootInit
  <1>2. DOMAIN place \subseteq 0..Top /\ \A a \in DOMAIN place : place[a] \in Images
    BY BootmAssumption
  <1>3. ASSUME NEW b \in 0..Top PROVE mem[b][1] \in Images \cup {None}
    <2> DEFINE at == {a \in DOMAIN place : b \in Region(a, Len(Lies(place[a])))}
               c == CHOOSE a \in at : TRUE
    <2>1. mem[b] = IF at = {} THEN Junk ELSE Lies(place[c])[b - c + 1]
      BY <1>1 DEF Filled
    <2>2. CASE at = {}
      BY <2>1, <2>2 DEF Junk
    <2>3. CASE at # {}
      <3>1. c \in at
        BY <2>3
      <3> DEFINE i == place[c]
                 u == Lies(i)
      <3>2. c \in 0..Top /\ i \in Images /\ b \in Region(c, Len(u))
        BY <1>2, <3>1
      <3>3. u \in Seq(CellsOf(i)) /\ Len(u) \in Nat
        BY <3>2, LiesIs, LenProperties
      <3>4. b - c + 1 \in 1..Len(u)
        <4> HIDE DEF c, u
        <4> QED BY <3>2, <3>3 DEF Region
      <3>5. u[b - c + 1] \in CellsOf(i)
        <4> HIDE DEF c, u, i
        <4> QED BY <3>3, <3>4, ElementOfSeq
      <3>6. u[b - c + 1][1] = i
        BY <3>5 DEF CellsOf
      <3> QED BY <2>1, <2>3, <3>2, <3>6
    <2> QED BY <2>2, <2>3
  <1>4. "of" \in DOMAIN NotStarted
    BY DEF NotStarted
  <1> QED BY <1>3, <1>4 DEF BootInit, BootInv, MemOK, CallOK, MovedOK, FoundOK

(* What gets control is complete and is what the checksums were about, at the *)
(* address its header says, with its ramdisk, whatever was moved over what    *)
(* (do_bootm's checks before the point of no return, and boot_linux's of the  *)
(* ramdisk after the kernel was moved).                                       *)
THEOREM IntactHolds == Spec => []StartedIntact
  <1>1. Init => ControlInv /\ BootInv
    BY InitControl, InitBoot DEF Init
  <1>2. ControlInv /\ BootInv /\ [Next]_vars => ControlInv' /\ BootInv'
    BY NextControl, NextBoot
  <1>3. ASSUME BootInv PROVE StartedIntact
    <2>1. SUFFICES ASSUME pc = "gone", verify PROVE StartedIntact
      BY DEF StartedIntact
    <2>2. /\ addr \in 0..Top /\ image \in Images \ {None} /\ ramdisk \in 0..Top \cup {Absent}
          /\ Top \in Nat
      BY <1>3, <2>1, BootmAssumption DEF BootInv, CallOK
    <2>3. \/ started.of = None
          \/ ramdisk = Absent /\ started.of = image /\ Image[image].type = "multi"
          \/ /\ ramdisk # Absent /\ started.of \in Images
             /\ Image[started.of].type = "ramdisk" /\ DataOk(ramdisk, started.of)
      BY <1>3, <2>1 DEF BootInv, FoundOK
    <2>4. ~Overlapping =>
            Holds(mem, Image[image].load, Runs(image)) /\ Holds(mem, addr + 1, Tail(Lies(image)))
      BY <1>3, <2>1 DEF BootInv, MovedOK
    (* The ramdisk as part of an image that lies somewhere. *)
    <2>5. ASSUME NEW i \in Images, NEW a \in 0..Top, Holds(mem, a + 1, Tail(Lies(i)))
          PROVE  Holds(mem, a + 1 + (ListLen(i) + Image[i].kernel),
                       Cells(i, "ramdisk", Image[i].ramdisk))
      <3> DEFINE l == ListLen(i)
                 k == Image[i].kernel
                 r == Image[i].ramdisk
                 t == Tail(Lies(i))
                 s == Cells(i, "ramdisk", r)
                 o == l + k
      <3>1. l \in {0, 1} /\ k \in Nat /\ r \in Nat
        BY ImageSizes
      <3>2. /\ t \in Seq(CellsOf(i)) /\ Len(t) = l + k + r
            /\ \A n \in 1..r : t[l + k + n] = <<i, "ramdisk", n>>
        BY LiesIs
      <3>3. /\ s \in Seq(CellsOf(i)) /\ Len(s) = r /\ \A n \in 1..r : s[n] = <<i, "ramdisk", n>>
        BY <3>1, CellsSeq DEF Parts
      <3>4. Holds(mem, a + 1, t) /\ a + 1 \in Nat
        BY <2>5
      <3> HIDE DEF l, k, r, t, s
      <3>5. \A n \in 1..Len(s) : s[n] = t[o + n]
        BY <3>2, <3>3
      <3>6. o \in Nat /\ o + Len(s) <= Len(t)
        BY <3>1, <3>2, <3>3
      <3> HIDE DEF o
      <3>7. Holds(mem, a + 1 + o, s)
        BY <2>2, <3>2, <3>3, <3>4, <3>5, <3>6, HoldsPart
      <3> QED BY <3>7 DEF l, k, r, s, o
    <2>6. CASE started.of = None
      BY <2>2, <2>4, <2>6 DEF StartedIntact
    <2>7. CASE ramdisk = Absent /\ started.of = image /\ Image[image].type = "multi"
      <3>1. ~Overlapping => Holds(mem, addr + 2 + Image[image].kernel,
                                  Cells(image, "ramdisk", Image[image].ramdisk))
        <4>1. ~Overlapping => Holds(mem, addr + 1 + (ListLen(image) + Image[image].kernel),
                                    Cells(image, "ramdisk", Image[image].ramdisk))
          BY <2>2, <2>4, <2>5
        <4> DEFINE k == Image[image].kernel
        <4>2. ListLen(image) = 1 /\ k \in Nat
          BY <2>2, <2>7, ImageSizes DEF ListLen
        <4> HIDE DEF k
        <4>3. addr + 1 + (ListLen(image) + k) = addr + 2 + k
          BY <2>2, <4>2
        <4> QED BY <4>1, <4>3 DEF k
      <3> QED BY <2>4, <2>7, <3>1 DEF StartedIntact
    <2>8. CASE /\ ramdisk # Absent /\ started.of \in Images
               /\ Image[started.of].type = "ramdisk" /\ DataOk(ramdisk, started.of)
      <3> DEFINE i == started.of
      <3>1. ramdisk \in 0..Top /\ Holds(mem, ramdisk + 1, Tail(Lies(i)))
        BY <2>2, <2>8 DEF DataOk
      <3>2. ListLen(i) = 0 /\ Image[i].kernel = 0
        BY <2>8, ImagesAssumption DEF ListLen
      <3>3. Holds(mem, ramdisk + 1 + (ListLen(i) + Image[i].kernel),
                  Cells(i, "ramdisk", Image[i].ramdisk))
        BY <2>5, <2>8, <3>1
      <3>4. ramdisk + 1 + (0 + 0) = ramdisk + 1
        BY <3>1
      <3>5. Holds(mem, ramdisk + 1, Cells(i, "ramdisk", Image[i].ramdisk))
        BY <3>2, <3>3, <3>4
      <3>6. started.of # image
        <4>1. Image[image].type \in {"standalone", "kernel", "multi"}
          BY <1>3, <2>1 DEF BootInv, CallOK
        <4> QED BY <2>8, <4>1
      <3> QED BY <2>4, <2>8, <3>5, <3>6 DEF StartedIntact
    <2> QED BY <2>3, <2>6, <2>7, <2>8
  <1> QED BY <1>1, <1>2, <1>3, PTL DEF Spec
==============================================================================
