------------------------------ MODULE EnvStore ------------------------------
(***************************************************************************)
(* The environment: the list of variables in RAM that setenv edits         *)
(* (common/cmd_nvedit.c), its CRC, the settings cached from it in the      *)
(* board data, and saveenv, which writes it to its flash sectors           *)
(* (board/kipdcs/env.c), with the board losing power at any time.          *)
(*                                                                         *)
(* The environment block is CRC plus data; in flash it occupies the cells  *)
(* EnvFirst..EnvLast, of which the first holds the CRC.  A cell of the     *)
(* stored block is modelled by its place in the block and the list it is a *)
(* part of, and a CRC by the list it was computed over: two different      *)
(* lists are told apart by their bytes and by their CRCs.                  *)
(***************************************************************************)
EXTENDS Flash, Sequences, SequencesExt

CONSTANTS
    Builds,         \* the configurations: the variables a user defines, and
                    \* "serial#" and "ethaddr" unless CONFIG_ENV_OVERWRITE is set
    Absent,         \* "no value"
    Size,           \* [entry -> bytes of "name=value\0"]
    DataSize,       \* sizeof(bd->bi_env_data)
    Default,        \* default_environment, a list of entries
    Mirrored,       \* variables whose value is also kept in the board data
    Baudrate,       \* "baudrate", which is one of them
    Rates,          \* baudrate_table
    ConfigRate,     \* CONFIG_BAUDRATE
    EnvFirst,       \* CFG_ENV_ADDR
    EnvLast         \* CFG_ENV_ADDR + CFG_ENV_SIZE - 1

Entry == UNION {b.entry : b \in Builds}     \* <<name, value>>
Name == {e[1] : e \in Entry}

(* A list of variables: no name twice. *)
ListOf(entries) ==
    {l \in UNION {[1..n -> entries] : n \in 0..Cardinality(Name)} :
        \A i, j \in DOMAIN l : l[i][1] = l[j][1] => i = j}
List == UNION {ListOf(b.entry) : b \in Builds}

EnvCells == EnvFirst..EnvLast

ASSUME EnvAssumption ==
    /\ IsFiniteSet(Entry) /\ \A e \in Entry : e = <<e[1], e[2]>>
    /\ \A b \in Builds : b.once \subseteq Name
    /\ Size \in [Entry -> Nat]
    /\ DataSize \in Nat
    /\ \A b \in Builds : Default \in ListOf(b.entry)
    /\ Baudrate \in Mirrored
    /\ Rates \subseteq {e[2] : e \in Entry} /\ ConfigRate \in Rates
    /\ Absent \notin {e[2] : e \in Entry} /\ Absent \notin List
    /\ EnvFirst \in Nat /\ EnvLast \in Nat /\ EnvFirst < EnvLast
    /\ EnvCells \subseteq Addr

(* What an interrupted operation leaves is not part of a block with a right *)
(* CRC.                                                                     *)
ASSUME BlockAssumption ==
    /\ [at : EnvCells, of : List] \subseteq Value
    /\ [at : EnvCells, of : List] \cap (Noise \cup {Erased}) = {}

VARIABLES
    build,      \* the configuration the monitor was built with
    env,        \* the variables in bd->bi_env_data, in order
    env_crc,    \* the list bd->bi_env_crc was computed over
    board,      \* bi_enetaddr, bi_ip_addr, bi_baudrate, load_addr, BootFile
    pc,         \* where board_env_save is
    result      \* what the last command returned

envVars == <<build, env, env_crc, board, pc, result>>
vars == <<protect, cell, drv, rc, ctrlc_was_pressed, build, env, env_crc, board, pc, result>>

TypeOK ==
    /\ FlashTypeOK
    /\ build \in Builds /\ env \in List /\ env_crc \in List
    /\ board \in [Mirrored -> {e[2] : e \in Entry} \cup {Absent}]
    /\ pc \in {"boot", "prompt", "erase", "erased", "write"}
    /\ result \in Int

-----------------------------------------------------------------------------
(* The variables. *)

Lookup(list, name) ==
    IF \E e \in ToSet(list) : e[1] = name
    THEN (CHOOSE e \in ToSet(list) : e[1] = name)[2]
    ELSE Absent

(* CONFIG_BAUDRATE is in the table of the board. *)
ASSUME DefaultAssumption == Lookup(Default, Baudrate) \in Rates

(* The definition that was found goes; no name is there twice. *)
Without(list, name) ==
    IF \E i \in DOMAIN list : list[i][1] = name
    THEN RemoveAt(list, CHOOSE i \in DOMAIN list : list[i][1] = name)
    ELSE list

(* The bytes a list takes, its final '\0' included. *)
Used(list) == FoldLeft(LAMBDA n, e : n + Size[e], 1, list)

(* Mutation: serial# and ethaddr are not looked for. *)
RefusedRate(name, val) ==
    Lookup(env, name) # Absent /\ name = Baudrate /\ val \notin Rates

(* The checks of _do_setenv before it deletes a definition; there are none  *)
(* when the variable is new.  A deletion gives no value (argv[2] is NULL),  *)
(* which is not the number of any rate.                                     *)
Refused(name, val) ==
    /\ Lookup(env, name) # Absent
    /\ name \in build.once \/ (name = Baudrate /\ val \notin Rates)

(* Mutation: the new value is not copied to the board data. *)
BoardUnchanged(name, val) == board

(* The console is switched only if the rate replaces another one. *)
BoardAfter(name, val) ==
    IF name \in Mirrored /\ (name = Baudrate => Lookup(env, name) # Absent)
    THEN [board EXCEPT ![name] = val]
    ELSE board

(* "Too long" looks at the new entry alone: it says no only on a board      *)
(* whose environment is smaller than a command line.                        *)
TooLong(entry) == Size[entry] + 1 > DataSize

(* _do_setenv with a value: the old definition is deleted, the new one is   *)
(* appended.  When it is too long the function returns after the deletion,  *)
(* and after the console was switched.                                      *)
SetEnv(name, val) ==
    LET entry == <<name, val>>
        rest == Without(env, name)
    IN  /\ pc = "prompt"
        /\ UNCHANGED <<build, pc, flashVars>>
        /\ \/ /\ Refused(name, val)
              /\ result' = 1
              /\ UNCHANGED <<env, env_crc, board>>
           \/ /\ ~Refused(name, val)
              /\ env' = IF TooLong(entry) THEN rest ELSE Append(rest, entry)
              /\ env_crc' = IF TooLong(entry) THEN env_crc ELSE env'
              /\ board' = IF TooLong(entry) /\ name # Baudrate
                         THEN board ELSE BoardAfter(name, val)
              /\ result' = IF TooLong(entry) THEN 1 ELSE 0

(* _do_setenv without a value *)
DeleteEnv(name) ==
    /\ pc = "prompt"
    /\ IF Refused(name, Absent)
         THEN /\ result' = 1
              /\ UNCHANGED <<env, env_crc>>
         ELSE /\ env' = Without(env, name)
              /\ env_crc' = env'
              /\ result' = 0
    /\ UNCHANGED <<build, board, pc, flashVars>>

-----------------------------------------------------------------------------
(* The stored block and the boot. *)

(* What the flash holds when list l is stored with the CRC of list c. *)
Block(c, l) ==
    [a \in Addr |-> IF a \in EnvCells
                      THEN [at |-> a, of |-> IF a = EnvFirst THEN c ELSE l]
                      ELSE Erased]

(* The lists whose block is in flash with the right CRC: one at most. *)
StoredLists == {l \in List : \A a \in EnvCells : cell[a] = Block(l, l)[a]}

(* Mutation: the stored CRC is not compared with that of the data. *)
RelocatedUnchecked ==
    IF \E l \in List : cell[EnvFirst] = Block(l, l)[EnvFirst]
    THEN CHOOSE l \in List : cell[EnvFirst] = Block(l, l)[EnvFirst]
    ELSE Default

(* env_relocate: board_env_copy succeeds if the CRC is right; otherwise the *)
(* default is used.                                                         *)
Relocated == IF StoredLists = {} THEN Default ELSE CHOOSE l \in StoredLists : TRUE

(* What env_relocate, and serial_init before it, make of the variables. *)
BoardData(list) ==
    [n \in Mirrored |->
        IF n = Baudrate /\ Lookup(list, n) = Absent THEN ConfigRate ELSE Lookup(list, n)]

(* The flash is new, or holds an environment saved earlier. *)
Init ==
    /\ build \in Builds
    /\ \E l \in ListOf(build.entry) :
          /\ Lookup(l, Baudrate) \in Rates /\ Used(l) <= DataSize
          /\ cell \in {Block(l, l), [a \in Addr |-> Erased]}
    /\ FlashInit
    /\ env = <<>> /\ env_crc = <<>> /\ board = BoardData(<<>>)
    /\ pc = "boot" /\ result = 0

(* Power failure or reset, at any time; bd is zeroed, but for the rate. *)
Reset ==
    /\ FlashReset
    /\ env' = <<>> /\ env_crc' = <<>> /\ board' = BoardData(<<>>)
    /\ pc' = "boot" /\ result' = 0
    /\ UNCHANGED build

(* start_armboot *)
Boot ==
    /\ pc = "boot"
    /\ env' = Relocated /\ env_crc' = env'
    /\ board' = BoardData(env')
    /\ pc' = "prompt"
    /\ UNCHANGED <<build, result, flashVars>>

-----------------------------------------------------------------------------
(* saveenv: board_env_save.  The flash module runs the driver between the   *)
(* steps.  flash_sect_erase cannot return an error here (see Flash!Return), *)
(* the code that follows it is kept.                                        *)

SaveEnv ==
    /\ pc = "prompt"
    /\ FlashSectProtect(FALSE, EnvFirst, EnvLast)
    /\ IF rc' < 0 THEN pc' = "prompt" /\ result' = 1
                  ELSE pc' = "erase" /\ UNCHANGED result
    /\ UNCHANGED <<build, env, env_crc, board>>

SaveErase ==
    /\ pc = "erase"
    /\ FlashSectErase(EnvFirst, EnvLast)
    /\ pc' = "erased"
    /\ UNCHANGED <<build, env, env_crc, board, result>>

SaveWrite ==
    /\ pc = "erased" /\ drv = Idle
    /\ IF rc < 0
         THEN /\ FlashSectProtect(TRUE, EnvFirst, EnvLast)
              /\ pc' = "prompt" /\ result' = 1
         ELSE /\ FlashWrite(Block(env_crc, env), EnvFirst, EnvLast)
              /\ pc' = "write" /\ UNCHANGED result
    /\ UNCHANGED <<build, env, env_crc, board>>

(* Mutation: the sectors stay unprotected after an error. *)
SaveReturnUnprotected ==
    /\ pc = "write" /\ drv = Idle
    /\ IF rc < 0 THEN UNCHANGED flashVars
                 ELSE FlashSectProtect(TRUE, EnvFirst, EnvLast)
    /\ pc' = "prompt" /\ result' = 0
    /\ UNCHANGED <<build, env, env_crc, board>>

(* Mutation: after an error saveenv waits for ever. *)
SaveReturnIfWritten ==
    /\ pc = "write" /\ drv = Idle /\ rc >= 0
    /\ FlashSectProtect(TRUE, EnvFirst, EnvLast)
    /\ pc' = "prompt" /\ result' = 0
    /\ UNCHANGED <<build, env, env_crc, board>>

(* An error of flash_write is printed, no more. *)
SaveReturn ==
    /\ pc = "write" /\ drv = Idle
    /\ FlashSectProtect(TRUE, EnvFirst, EnvLast)
    /\ pc' = "prompt" /\ result' = 0
    /\ UNCHANGED <<build, env, env_crc, board>>

Driver == DriverStep /\ UNCHANGED envVars

(* run_command forgets a ^C before it runs the next command. *)
Prompt ==
    /\ pc = "prompt" /\ ctrlc_was_pressed
    /\ ctrlc_was_pressed' = FALSE
    /\ UNCHANGED <<protect, cell, drv, rc, envVars>>

Next ==
    \/ \E e \in build.entry : SetEnv(e[1], e[2])
    \/ \E e \in build.entry : DeleteEnv(e[1])
    \/ SaveEnv \/ SaveErase \/ SaveWrite \/ SaveReturn
    \/ Driver \/ Prompt
    \/ Boot \/ Reset

(* A boot, and saveenv once started, run to their ends; commands and resets *)
(* need not come.                                                           *)
Spec ==
    /\ Init /\ [][Next]_vars
    /\ WF_vars(Boot)
    /\ WF_vars(SaveErase) /\ WF_vars(SaveWrite) /\ WF_vars(SaveReturn) /\ WF_vars(Driver)

-----------------------------------------------------------------------------
(* The stored environment is always one the user edited, or none at all:    *)
(* whatever the chip does to a saveenv and wherever the power fails, a boot *)
(* never reads a mixture of two environments.                               *)
Abstract == INSTANCE PersistentEnv WITH
    Env <- List, NoEnv <- Absent,
    edited <- IF pc = "boot" THEN Absent ELSE env,
    stored <- IF StoredLists = {} THEN Absent ELSE CHOOSE l \in StoredLists : TRUE

StoredAsEdited == Abstract!Spec

(* When saveenv prints "done." (flash_write returned no error) a boot finds *)
(* what was saved, even if the erase was interrupted by ^C or failed, which *)
(* board_env_save is not told.                                              *)
DoneMeansStored ==
    (pc = "write" /\ drv = Idle /\ rc >= 0) => StoredLists = {env}

(* saveenv unprotects the environment for itself only: at the prompt every  *)
(* sector flash_init protected is protected, and the monitor always is.     *)
BootSectorsProtected ==
    \A x \in BootProtect :
        (pc = "prompt" \/ ~Overlaps(x, EnvFirst, EnvLast)) => protect[x]

(* The board data never contradict a variable that is defined; and the      *)
(* console always runs at a rate the user can go back to: a stored rate     *)
(* cannot be one _do_setenv would refuse, although serial_init takes it at  *)
(* boot without a look at the table, and _do_setenv itself takes any rate   *)
(* while none is defined.                                                   *)
BoardFollowsEnv ==
    /\ \A n \in Mirrored : Lookup(env, n) # Absent => board[n] = Lookup(env, n)
    /\ pc # "boot" => board[Baudrate] \in Rates /\ Lookup(env, Baudrate) \in Rates

(* A write-once variable keeps its value until the next boot. *)
WriteOnceKept ==
    [][\A n \in build.once : Lookup(env, n) # Absent =>
          Lookup(env', n) = Lookup(env, n) \/ pc' = "boot"]_vars

(* saveenv comes back to the prompt, whatever the chip does, or the board   *)
(* is reset and boots to it.                                                *)
SaveEnds == pc # "prompt" ~> pc = "prompt"

(* The next three are what comments say and the code does not do.            *)
(* env.c:48: "returns -1 on error, 0 if ok" *)
SaveResultTruthful ==
    [][SaveReturn /\ result' = 0 => StoredLists' = {env}]_vars

(* cmd_nvedit.c:343: "Overflow when: name = val \0\0 >                      *)
(* sizeof(bd->bi_env_data) - (env-bd->bi_env_data)": the list never         *)
(* outgrows its buffer.                                                     *)
FitsInBuffer == Used(env) <= DataSize

(* cmd_nvedit.c:372: "Some variables should be updated when the             *)
(* corresponding entry in the enviornment is changed"                       *)
BoardCurrent == pc # "boot" => \A n \in Mirrored : board[n] = Lookup(env, n)
=============================================================================
