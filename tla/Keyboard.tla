------------------------------ MODULE Keyboard ------------------------------
(***************************************************************************)
(* The keyboard driver (kbd.c, kbd.h): scan codes, one per interrupt, from *)
(* the keys that are pressed, repeated and released.                       *)
(*                                                                         *)
(* A code is its low seven bits, named for the key, and whether bit 7 is   *)
(* set.  "arrow" stands for the extended keys, which the hardware wraps in *)
(* a release and a press of the shift that is held.  The character, which  *)
(* is looked up in a table by the code and the modifiers, is left out.     *)
(***************************************************************************)
EXTENDS Integers, Sequences

CONSTANT MAXCODES   \* bound: codes the controller has in store

VARIABLES
  held,    \* the keys that are down
  codes,   \* scan codes not yet read
  shift    \* the driver's modifiers: SHIFT, CTL, CAPSLOCK, E0ESC
kbdVars == <<held, codes, shift>>

E0 == [key |-> "E0", up |-> TRUE]
Make(k) == <<[key |-> k, up |-> FALSE]>>
Break(k) == <<[key |-> k, up |-> TRUE]>>
Ext(s) == <<E0>> \o s

\* The codes of a key, going down or up.
FakeUp == IF "shift" \in held THEN Ext(Break("shift")) ELSE <<>>
FakeDown == IF "shift" \in held THEN Ext(Make("shift")) ELSE <<>>
Down(k) == CASE k = "rctl" -> Ext(Make("ctl"))
             [] k = "arrow" -> FakeUp \o Ext(Make("8"))
             [] OTHER -> Make(k)
Up(k) == CASE k = "rctl" -> Ext(Break("ctl"))
           [] k = "arrow" -> Ext(Break("8")) \o FakeDown
           [] OTHER -> Break(k)

KbdInit == held = {} /\ codes = <<>> /\ shift = {}

\* A key goes down, or repeats while it is down.
press(k) ==
  /\ Len(codes) + Len(Down(k)) <= MAXCODES
  /\ held' = held \cup {k} /\ codes' = codes \o Down(k) /\ shift' = shift

let_go(k) ==
  /\ k \in held /\ Len(codes) + Len(Up(k)) <= MAXCODES
  /\ held' = held \ {k} /\ codes' = codes \o Up(k) /\ shift' = shift
-----------------------------------------------------------------------------
\* The tables, by key and bit 7; an E0 code has bit 7 set.
shiftcode(k, ext) ==
  CASE k = "ctl" -> {"CTL"} [] k = "shift" /\ ~ext -> {"SHIFT"} [] OTHER -> {}
togglecode(k, ext) == IF k = "caps" /\ ~ext THEN {"CAPSLOCK"} ELSE {}

Flip(s, t) == (s \ t) \cup (t \ s)


released(k) == shiftcode(k, "E0ESC" \in shift)

\* kbdgetc: an escape, a release, or a press.
kbdgetc ==
  /\ codes # <<>> /\ codes' = Tail(codes) /\ held' = held
  /\ LET d == Head(codes)
         ext == "E0ESC" \in shift
     IN  shift' = CASE d = E0 -> shift \cup {"E0ESC"}
                    [] d # E0 /\ d.up -> shift \ (released(d.key) \cup {"E0ESC"})
                    [] OTHER -> Flip((shift \ {"E0ESC"}) \cup shiftcode(d.key, ext),
                                     togglecode(d.key, ext))

KbdNext ==
  \/ \E k \in {"shift", "ctl", "rctl", "caps", "arrow"} : press(k) \/ let_go(k)
  \/ kbdgetc

KbdSpec == KbdInit /\ [][KbdNext]_kbdVars
-----------------------------------------------------------------------------
=============================================================================
