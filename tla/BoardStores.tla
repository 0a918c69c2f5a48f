---------------------------- MODULE BoardStores ----------------------------
(***************************************************************************)
(* Where the board keeps what the host writes: its VRAM, the registers of  *)
(* the display and its memory, segments when there is no VRAM, the map of  *)
(* registers, the GMMU's registers.  Two routes lead there, one for writes *)
(* and one for reads, by the window (a BAR or the back door), the offset   *)
(* and the flags of the configuration.  The devices get views of the VRAM  *)
(* when the board is initialised, and the board pointers to the devices.   *)
(***************************************************************************)
EXTENDS Integers, Sequences, SequencesExt, FiniteSetsExt

CONSTANTS
  Boards,      \* configurations of the board
  Offsets,     \* offsets of accesses
  Bell,        \* kBar1DoorbellOffset
  CrLimit,     \* 0x100, the end of the GMMU's registers
  Protected,   \* 0x0F, the last offset of the identity registers
  Status, StatusClear,   \* kRegStatus and kRegStatusClear
  MaxSocs,    \* bound: instantiations of the SOC
  MaxWrites    \* bound: writes of the host; each writes its number

VARIABLES
  board,       \* the configuration loaded last; none before
  soc,         \* which instantiation of the SOC lives; 0 when none does
  socs,       \* how many there were
  ptrs,        \* the one whose devices the board's pointers name; 0 for null
  stale,       \* whether the SOC was instantiated over a living one since init
  vram,        \* framebuffer_ptr_ and framebuffer_size_: whose buffer
  view,        \* what the devices took for the VRAM; none
  shown,       \* whether the endpoint has the display
  gated,       \* is_mmio_gated
  store,       \* what is where: <<place, offset>> -> byte, or a segment
  last,        \* history: the last write that was accepted; none
  writes       \* writes of the host

storeVars == <<board, soc, socs, ptrs, stale, vram, view, shown, gated, store, last, writes>>

None == << >>
Nothing == [x \in {} |-> 0]
Back == 9
Windows == {0, 1, 2, Back}

BoardInit ==
  /\ board = None /\ soc = 0 /\ socs = 0 /\ ptrs = 0 /\ stale = FALSE
  /\ vram = [owner |-> "nobody", size |-> 0] /\ view = None /\ shown = FALSE /\ gated = FALSE
  /\ store = Nothing /\ last = None /\ writes = 0

-----------------------------------------------------------------------------
(* load_soc_config instantiates the SOC before it looks at the size of the *)
(* VRAM, which only a board without one takes from the configuration.      *)
Load(c) ==
  /\ socs < MaxSocs
  /\ board' = c
  /\ IF c.modules
     THEN /\ socs' = socs + 1 /\ soc' = socs + 1
          /\ stale' = (soc # 0)
          /\ shown' = FALSE /\ gated' = FALSE
     ELSE UNCHANGED <<socs, soc, stale, shown, gated>>
  /\ vram' = IF c.modules /\ c.size <= c.cap /\ vram.owner = "nobody"
             THEN [owner |-> "nobody", size |-> c.size] ELSE vram
  /\ last' = None
  /\ UNCHANGED <<ptrs, view, store, writes>>

(* attach_vram_for_testing also opens the window of BAR 1.                 *)
Attach(n) ==
  /\ board # None /\ vram.owner # "caller"
  /\ vram' = [owner |-> "caller", size |-> n]
  /\ board' = [board EXCEPT !.routing = @ \cup {"storage"}]
  /\ store' = Nothing /\ last' = None
  /\ UNCHANGED <<soc, socs, ptrs, stale, view, shown, gated, writes>>

HasVram == vram.owner # "nobody" /\ vram.size > 0

(* init: the VRAM is made, the devices are bound to it, and the display to *)
(* a memory of its own.  Without a VRAM nothing is bound at all.           *)
InitBoard ==
  /\ soc # 0
  /\ vram' = IF vram.owner = "nobody" /\ vram.size > 0 THEN [vram EXCEPT !.owner = "board"] ELSE vram
  /\ IF vram.size > 0
     THEN view' = vram' /\ ptrs' = soc /\ shown' = TRUE /\ stale' = FALSE
     ELSE UNCHANGED <<view, ptrs, shown, stale>>
  /\ last' = None
  /\ UNCHANGED <<board, soc, socs, gated, store, writes>>

(* destroy: the SOC goes with its devices; the VRAM and the map of         *)
(* registers stay.                                                         *)
DestroyBoard ==
  /\ soc # 0
  /\ soc' = 0 /\ ptrs' = 0 /\ stale' = FALSE
  /\ view' = None /\ shown' = FALSE /\ gated' = FALSE
  /\ store' = [x \in {y \in DOMAIN store : y[1] \in {"vram", "display", "regs", "segments"}} |-> store[x]]
  /\ last' = None
  /\ UNCHANGED <<board, socs, vram, writes>>

Gate ==
  /\ soc # 0 /\ gated' = ~gated
  /\ UNCHANGED <<board, soc, socs, ptrs, stale, vram, view, shown, store, last, writes>>

-----------------------------------------------------------------------------
Routing(what) == what \in board.routing
Inside(o, n, size) == o + n <= size

(* Both routes classify an access to BAR 1 by the size of the window, or   *)
(* of the VRAM where the endpoint gives the window none.                   *)
InWindow(o) == o < (IF board.bar1 > 0 THEN board.bar1 ELSE vram.size)

ByStorage(o) == InWindow(o) /\ o # Bell /\ Routing("storage") /\ HasVram
ByDisplay == Routing("display") /\ shown
ByMemory == Routing("memory") /\ view # None
ByCr(o, n) == Routing("gmmu") /\ o < CrLimit /\ ptrs # 0 /\ n >= 2

(* mmio_write and backdoor_write: the places that take the bytes.  What    *)
(* BAR 1 and the GMMU take also goes to the map of registers; the back     *)
(* door keeps segments only where nothing else takes them.                 *)
BackPlace ==
  IF ByDisplay THEN "display" ELSE IF ByMemory THEN "view"
  ELSE IF HasVram THEN "vram" ELSE "segments"

WritePlaces(w, o, n) ==
  CASE w = 0 -> IF ByDisplay THEN {"dispregs"} ELSE IF ByCr(o, n) THEN {"cr", "regs"} ELSE {"regs"}
    [] w = 1 -> IF ByStorage(o) THEN {"vram", "regs"} ELSE {"regs"}
    [] w = 2 -> IF ByMemory THEN {"view"} ELSE {"regs"}
    [] OTHER -> {BackPlace}

(* mmio_read and backdoor_read: the place the bytes come from.             *)
ReadPlace(w, o, n) ==
  CASE w = 0 /\ ByDisplay -> "dispregs"
    [] w = 0 /\ ~ByDisplay /\ ByCr(o, n) -> "cr"
    [] w = 1 /\ ByStorage(o) -> "vram"
    [] w = 2 /\ ByMemory -> "view"
    [] w = Back -> BackPlace
    [] OTHER -> "regs"

(* -EINVAL beyond the end of the store.                                    *)
Fits(place, o, n) ==
  CASE place = "vram" -> Inside(o, n, vram.size)
    [] place = "view" -> Inside(o, n, view.size)
    [] place = "display" -> Inside(o, n, board.display)
    [] place = "segments" -> board.bar1 = 0 \/ Inside(o, n, board.bar1)
    [] OTHER -> TRUE

Keyed == {"regs", "segments"}
Same(place) == IF place = "view" /\ view = vram THEN "vram" ELSE place

(* Bytes of a store of bytes; a whole entry of one that is keyed.          *)
Cells(w, place, o, n) ==
  IF place \in Keyed THEN {<<place, w, o, n>>} ELSE {<<Same(place), i>> : i \in o..(o + n - 1)}

(* The display ignores a write that begins at a protected register: the    *)
(* bytes of one that ends there are taken.                                 *)
Ignored(place, o) == place = "dispregs" /\ (o <= Protected \/ o \in {Status, StatusClear})

Stored(cells, v) ==
  LET known(k) == k[1] \in Keyed /\ \E c \in cells : c[1] = k[1] /\ c[2] = k[2] /\ c[3] = k[3]
  IN  [k \in {x \in DOMAIN store : ~known(x)} \cup cells |-> IF k \in cells THEN v ELSE store[k]]

(* A doorbell passes the gate of the power states; other writes do not.    *)
Write(w, o, n) ==
  LET places == WritePlaces(w, o, n)
      cells == UNION {Cells(w, p, o, n) : p \in {x \in places : ~Ignored(x, o)}}
      v == writes + 1
  IN  /\ board # None /\ writes < MaxWrites
      /\ writes' = v
      /\ w = Back \/ ~gated \/ (w = 1 /\ o = Bell)
      /\ \A p \in places : Fits(p, o, n)
      /\ store' = IF Ignored("dispregs", o) /\ o = StatusClear /\ places = {"dispregs"}
                  THEN Stored({<<"dispregs", Status>>}, 0) ELSE Stored(cells, v)
      /\ last' = IF \E p \in places : Ignored(p, o) THEN None
                 ELSE [w |-> w, o |-> o, n |-> n, v |-> v]
      /\ UNCHANGED <<board, soc, socs, ptrs, stale, vram, view, shown, gated>>

(* The display's blank: the status says so until it is cleared.            *)
Vblank ==
  /\ soc # 0
  /\ store' = Stored({<<"dispregs", Status>>}, 1)
  /\ last' = None
  /\ UNCHANGED <<board, soc, socs, ptrs, stale, vram, view, shown, gated, writes>>

BoardNext ==
  \/ \E c \in Boards : Load(c)
  \/ Attach(2)
  \/ InitBoard \/ DestroyBoard \/ Gate \/ Vblank
  \/ \E w \in Windows, o \in Offsets, n \in {1, 2} : Write(w, o, n)

BoardSpec == BoardInit /\ [][BoardNext]_storeVars

-----------------------------------------------------------------------------
(* A read that the same window is asked right after a write, with the same *)
(* offset and length, finds the bytes: the two routes agree.               *)
ReadBack(w, o, n) ==
  LET p == ReadPlace(w, o, n)
      cells == Cells(w, p, o, n)
  IN  IF Fits(p, o, n) /\ cells \subseteq DOMAIN store THEN {store[k] : k \in cells} ELSE {}

RoutesAgree == last # None => ReadBack(last.w, last.o, last.n) = {last.v}

(* Whatever reaches the VRAM at an offset reads the bytes that were        *)
(* written last by any window that reaches it, as long as the views are of *)
(* the VRAM the board has.                                                 *)
WindowsAgree ==
  last # None /\ (view # None => view = vram) =>
    \A w \in Windows :
      LET mine == Same(ReadPlace(last.w, last.o, last.n))
          other == ReadPlace(w, last.o, last.n)
      IN  mine = "vram" /\ Same(other) = "vram" /\ Fits(other, last.o, last.n)
            => ReadBack(w, last.o, last.n) = {last.v}

(* The board's pointers name devices that live, and a view is a VRAM of    *)
(* the board; the display's identity is never written.                     *)
PointersLive ==
  /\ ~stale => ptrs \in {0, soc}
  /\ view # None => vram.owner # "nobody" /\ (vram.owner = "board" => view = vram)
  /\ \A k \in DOMAIN store : k[1] = "dispregs" => k[2] > Protected

StoresAgree == RoutesAgree /\ WindowsAgree /\ PointersLive

=============================================================================
