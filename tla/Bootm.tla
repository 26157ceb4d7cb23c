-------------------------------- MODULE Bootm --------------------------------
(***************************************************************************)
(* bootm (common/cmd_bootm.c) and boot_linux (common/armlinux.c): an image *)
(* in memory is checked, moved to where it runs, and started, with a       *)
(* ramdisk of its own image or of the same one.  Past the point of no      *)
(* return the command must not go back to the monitor.                     *)
(*                                                                         *)
(* Memory has cells; an image is a header cell, the list of lengths if it  *)
(* has several files, the cells of the kernel or program, and those of the *)
(* ramdisk.                                                                *)
(***************************************************************************)
EXTENDS Integers, Sequences, FiniteSets

CONSTANTS
    Top,            \* the last address
    FlashStart,     \* flash is FlashStart..Top
    CFG_LOAD_ADDR,
    Images,         \* names of images
    Image,          \* what is in each of them
    Memories        \* [address of a header -> image]: what memory may hold at first

ImageType ==
    [type : {"standalone", "kernel", "multi", "ramdisk", "script"},
     comp : {"none", "gzip", "bzip2"}, arch : {"ARM", "PowerPC"},
     kernel : Nat, ramdisk : Nat,           \* cells of each
     load : 0..Top, ep : 0..Top,
     headerOk : BOOLEAN, dataOk : BOOLEAN]  \* are the checksums right

ASSUME BootmAssumption ==
    /\ Top \in Nat /\ FlashStart \in 1..Top /\ CFG_LOAD_ADDR \in 0..(FlashStart - 1)
    /\ Image \in [Images -> ImageType]
    /\ \A m \in Memories : DOMAIN m \subseteq 0..Top /\ \A a \in DOMAIN m : m[a] \in Images

VARIABLES
    mem,
    pc,             \* where do_bootm is; "monitor" when it is not called
    addr,           \* do_bootm's addr
    header,         \* the global header: the image whose header was copied last, or None
    image,          \* the image do_bootm was called with
    ramdisk,        \* the command's second argument, or Absent
    verify,         \* do_bootm's verify
    started         \* what control was given to, or NotStarted

bootVars == <<pc, addr, header, image, ramdisk, verify, started>>

None == "none"
Absent == -1
Junk == <<None, "junk", 0>>
NotStarted == [kernel |-> None, entry |-> Absent, initrd |-> 0..(-1), of |-> None]

Cells(i, part, n) == [k \in 1..n |-> <<i, part, k>>]

(* An image as it lies in memory. *)
Lies(i) ==
    << <<i, "header", 0>> >>
        \o (IF Image[i].type = "multi" THEN << <<i, "list", 0>> >> ELSE <<>>)
        \o Cells(i, "kernel", Image[i].kernel) \o Cells(i, "ramdisk", Image[i].ramdisk)

(* A kernel or program as it runs; gzip makes two cells of one. *)
Runs(i) ==
    IF Image[i].comp = "gzip" THEN Cells(i, "unzipped", 2 * Image[i].kernel)
    ELSE Cells(i, "kernel", Image[i].kernel)

(* What runs was built for this memory, and all of a ramdisk's image is the  *)
(* ramdisk.                                                                  *)
ASSUME ImagesAssumption ==
    \A i \in Images :
        /\ Image[i].type \in {"standalone", "kernel", "multi"} =>
              Image[i].load + Len(Runs(i)) - 1 <= Top
        /\ Image[i].type = "ramdisk" => Image[i].kernel = 0

Region(a, n) == a..(a + n - 1)

Holds(m, a, cells) ==
    /\ a + Len(cells) - 1 <= Top
    /\ \A k \in 1..Len(cells) : m[a + k - 1] = cells[k]

Put(m, a, cells) ==
    [b \in 0..Top |-> IF b \in Region(a, Len(cells)) THEN cells[b - a + 1] ELSE m[b]]

(* memcpy, from low to high addresses; behind the last one is nothing. *)
Memcpy(m, dst, src, n) ==
    LET from(k) == IF dst > src THEN src + (k % (dst - src)) ELSE src + k
        read(a) == IF a <= Top THEN m[a] ELSE Junk
    IN  [b \in 0..Top |-> IF b \in Region(dst, n) THEN read(from(b - dst)) ELSE m[b]]

Empty == [a \in 0..Top |-> Junk]

Filled(place) ==
    [b \in 0..Top |->
        LET at == {a \in DOMAIN place : b \in Region(a, Len(Lies(place[a])))}
        IN  IF at = {} THEN Junk
            ELSE LET a == CHOOSE a \in at : TRUE IN Lies(place[a])[b - a + 1]]

BootInit ==
    /\ \E place \in Memories : mem = Filled(place)
    /\ pc = "monitor" /\ addr = 0 /\ header = None /\ image = None
    /\ ramdisk = Absent /\ verify \in BOOLEAN /\ started = NotStarted

BootTypeOK ==
    /\ DOMAIN mem = 0..Top
    /\ pc \in {"monitor", "verify", "load", "application", "linux", "start", "gone", "reset"}
    /\ addr \in 0..Top /\ header \in Images \cup {None} /\ image \in Images \cup {None}
    /\ ramdisk \in 0..Top \cup {Absent} /\ verify \in BOOLEAN
    /\ started.entry \in 0..Top \cup {Absent} /\ started.initrd \subseteq 0..Top

-----------------------------------------------------------------------------
(* Is there an image at an address: its magic number and the checksum of its *)
(* header.                                                                   *)
ImageAt(a) == mem[a][1] # None /\ mem[a][2] = "header" /\ Image[mem[a][1]].headerOk

(* The checksum of the data at an address, with the size of the header. *)
DataOk(a, i) == Image[i].dataOk /\ Holds(mem, a + 1, Tail(Lies(i)))

InFlash(a) == a >= FlashStart

ReturnToMonitor == pc' = "monitor"

(* do_bootm up to the copy of the header, and the copy of the image if it is *)
(* in flash.                                                                 *)
Bootm(a, arg) ==
    /\ pc = "monitor"
    /\ ramdisk' = arg
    /\ IF ~ImageAt(a) THEN ReturnToMonitor /\ UNCHANGED <<mem, addr, header, image>>
       ELSE /\ header' = mem[a][1] /\ image' = mem[a][1]
            /\ pc' = "verify"
            /\ IF InFlash(a)
                 THEN /\ mem' = Memcpy(mem, CFG_LOAD_ADDR, a, Len(Lies(image')))
                      /\ addr' = CFG_LOAD_ADDR
                 ELSE addr' = a /\ UNCHANGED mem
    /\ UNCHANGED <<verify, started>>

(* The checksum of the data, the architecture and the type. *)
Verify ==
    /\ pc = "verify"
    /\ pc' = IF \/ verify /\ ~DataOk(addr, image)
                \/ Image[image].arch # "ARM"
                \/ Image[image].type \notin {"standalone", "kernel", "multi"}
             THEN "monitor" ELSE "load"
    /\ UNCHANGED <<mem, addr, header, image, ramdisk, verify, started>>

(* Mutation: the list of lengths is taken for the kernel. *)
DataUnskipped(a, i) == a + 1

(* Where the kernel's data begin. *)
Data(a, i) == a + 1 + (IF Image[i].type = "multi" THEN 1 ELSE 0)

Loaded(m) ==
    /\ mem' = m
    /\ pc' = IF Image[image].type = "standalone" THEN "application" ELSE "linux"

(* The point of no return.  A file that is not what was packed, or that is    *)
(* overwritten while it is unpacked, gives an error or anything.              *)
Load ==
    LET i == Image[image]
        source == Region(Data(addr, image), i.kernel)
        target == Region(i.load, Len(Runs(image)))
        sound == Holds(mem, Data(addr, image), Cells(image, "kernel", i.kernel))
                    /\ i.dataOk /\ source \cap target = {}
    IN  /\ pc = "load"
        /\ \/ i.comp = "none" /\ Loaded(Memcpy(mem, i.load, Data(addr, image), i.kernel))
           \/ i.comp = "gzip" /\ sound /\ Loaded(Put(mem, i.load, Runs(image)))
           \/ /\ i.comp = "gzip" /\ ~sound
              /\ LET garbled == Put(mem, i.load, [k \in DOMAIN Runs(image) |-> Junk])
                 IN  \/ Loaded(garbled)
                     \/ pc' = "reset" /\ mem' = garbled
           \/ i.comp = "bzip2" /\ ReturnToMonitor /\ UNCHANGED mem
        /\ UNCHANGED <<addr, header, image, ramdisk, verify, started>>

(* A standalone program runs; when it returns, the code goes on to           *)
(* boot_linux.                                                               *)
Application ==
    /\ pc = "application"
    /\ \/ pc' = "gone"
          /\ started' = [NotStarted EXCEPT !.kernel = image, !.entry = Image[header].ep]
       \/ pc' = "linux" /\ UNCHANGED started
    /\ UNCHANGED <<mem, addr, header, image, ramdisk, verify>>

-----------------------------------------------------------------------------
(* Is there a ramdisk image at an address. *)
RamdiskOk(a) ==
    /\ ImageAt(a)
    /\ verify => DataOk(a, mem[a][1])
    /\ Image[mem[a][1]].arch = "ARM" /\ Image[mem[a][1]].type = "ramdisk"

(* What boot_linux does without the ramdisk it was asked for. *)
NoRamdisk == pc' = "reset" /\ UNCHANGED <<header, started>>

(* boot_linux finds the ramdisk: the second argument, which goes through the *)
(* global header too, or the second file of the image.  The list of lengths  *)
(* is read again here; overwritten, it says anything.                        *)
FindRamdisk ==
    LET i == Image[image]
        second == addr + 2 + i.kernel
        separate == ramdisk # Absent
        found(r, o) == pc' = "start" /\ started' = [started EXCEPT !.initrd = r, !.of = o]
    IN  /\ pc = "linux"
        /\ \/ /\ separate /\ RamdiskOk(ramdisk)
              /\ header' = mem[ramdisk][1]
              /\ found(Region(ramdisk + 1, Image[header'].ramdisk), header')
           \/ separate /\ ~RamdiskOk(ramdisk) /\ NoRamdisk
           \/ /\ ~separate /\ i.type = "multi" /\ mem[addr + 1] = <<image, "list", 0>>
              /\ found(Region(second, i.ramdisk), image)
              /\ UNCHANGED header
           \/ /\ ~separate /\ i.type = "multi" /\ mem[addr + 1] # <<image, "list", 0>>
              /\ \E n \in 0..2 : found(Region(second, n) \cap 0..Top, image)
              /\ UNCHANGED header
           \/ /\ ~separate /\ i.type # "multi"
              /\ found({}, None)
              /\ UNCHANGED header
        /\ UNCHANGED <<mem, addr, image, ramdisk, verify>>

(* The kernel's entry is taken from the global header. *)
StartKernel ==
    /\ pc = "start"
    /\ pc' = "gone"
    /\ started' = [started EXCEPT !.kernel = image, !.entry = Image[header].ep]
    /\ UNCHANGED <<mem, addr, header, image, ramdisk, verify>>

BootStep == Verify \/ Load \/ Application \/ FindRamdisk \/ StartKernel

-----------------------------------------------------------------------------
(* The kernel's place in memory and what it was made from touch. *)
Overlapping ==
    LET target == Region(Image[image].load, Len(Runs(image)))
    IN  target \cap Region(addr, Len(Lies(image))) # {}

(* What gets control is complete and is what the checksums were about: the   *)
(* kernel is where its header wants it, and the ramdisk where the kernel is  *)
(* told, also when the image came out of flash and whichever way the kernel  *)
(* was packed.  The warning of cmd_bootm.c is for the rest: an image that    *)
(* lies where the kernel goes overwrites itself.  A ramdisk of its own image *)
(* is looked at after the kernel has been moved, so that one the kernel was  *)
(* moved over is not started with (boot_linux).                              *)
StartedIntact ==
    pc = "gone" /\ verify =>
        /\ ~Overlapping =>
              /\ Holds(mem, Image[image].load, Runs(image))
              /\ started.of = image =>
                    Holds(mem, addr + 2 + Image[image].kernel,
                          Cells(image, "ramdisk", Image[image].ramdisk))
        /\ ramdisk # Absent /\ started.of # None =>
              Holds(mem, ramdisk + 1,
                    Cells(started.of, "ramdisk", Image[started.of].ramdisk))

(* The kernel is entered where its header says.  Not kept: boot_linux copies *)
(* the ramdisk's header over the global one first.                           *)
EntryOfKernel == started.entry # Absent => started.entry = Image[started.kernel].ep
=============================================================================
