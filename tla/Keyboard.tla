------------------------------ MODULE Keyboard ------------------------------
(***************************************************************************)
(* device/keyboard.c: the keyboard's interrupt handler, which decodes      *)
(* scancodes and fills kbd_buf, and processes that read the standard input *)
(* (the loop of sys_read in fs/fs.c).                                      *)
(*                                                                         *)
(* The keyboard is external: a key that goes down or up puts its bytes on  *)
(* the wire, and each byte is an interrupt.  A byte is a record of the     *)
(* make code it carries and whether it is a break code, or the prefix e0.  *)
(* The right ctrl and alt send the codes of the left ones behind an e0.    *)
(***************************************************************************)
EXTENDS IoQueue

CONSTANT Keys  \* the keys there are

ASSUME KeyboardAssumption ==
  /\ "e0" \notin Keys
  /\ {"l", "L", "a", "A", "1", "!", "^l"} \subseteq Chars

VARIABLES
  ctrl_status, shift_status, alt_status, caps_lock_status,
  ext_scancode,
  wire,   \* bytes the keyboard has sent and the handler has not read
  held    \* the keys that are down

status == <<ctrl_status, shift_status, alt_status, caps_lock_status>>

vars == <<qvars, status, ext_scancode, wire, held>>

-----------------------------------------------------------------------------
(* The keyboard *)

Prefixed == {"ctrl_r", "alt_r", "arrow"}

\* What the make code of a key is without the prefix.
code(k) == CASE k = "ctrl_r" -> "ctrl_l" [] k = "alt_r" -> "alt_l" [] OTHER -> k

Bytes(k, break) ==
  (IF k \in Prefixed THEN <<[code |-> "e0", break |-> FALSE]>> ELSE <<>>)
    \o <<[code |-> code(k), break |-> break]>>

Press(k) == /\ wire = <<>>
            /\ wire' = Bytes(k, FALSE)
            /\ held' = held \cup {k}
            /\ UNCHANGED <<qvars, status, ext_scancode>>

Release(k) == /\ wire = <<>> /\ k \in held
              /\ wire' = Bytes(k, TRUE)
              /\ held' = held \ {k}
              /\ UNCHANGED <<qvars, status, ext_scancode>>

-----------------------------------------------------------------------------
(* The handler *)

Digits == {"1"}       \* keys that shift changes and caps lock does not

Letters == {"l", "a"}

\* keymap[index][shift], for the keys that have a character.
keymap(k, shift) ==
  CASE k = "1" -> IF shift THEN "!" ELSE "1"
    [] k = "l" -> IF shift THEN "L" ELSE "l"
    [] k = "a" -> IF shift THEN "A" ELSE "a"

\* Mutant of use_shift: caps lock does not undo shift.
Mut_use_shift(k) ==
  shift_status \/ (k \in Letters /\ caps_lock_status)

use_shift(k) ==
  IF k \in Digits THEN shift_status
  ELSE IF shift_status /\ caps_lock_status THEN FALSE
  ELSE shift_status \/ caps_lock_status

\* Ctrl turns l, u and c into the control characters the shell acts upon.
cur_char(k) ==
  LET ch == keymap(k, use_shift(k))
  IN  IF ctrl_status /\ ch = "l" THEN "^l" ELSE ch

\* A key with a character: it goes into kbd_buf, or nowhere if that is full.
PutChar(k) ==
  IF ioq_full(ioq) THEN UNCHANGED <<sched, ioq>>
                   ELSE PutByte(sched, ioq, cur_char(k))

\* Mutant of BreakCode: a break code behind an e0 is not recognised.
Mut_BreakCode(c) ==
  /\ ctrl_status'  = (ctrl_status /\ (c # "ctrl_l" \/ ext_scancode))
  /\ shift_status' = (shift_status /\ c \notin {"shift_l", "shift_r"})
  /\ alt_status'   = (alt_status /\ (c # "alt_l" \/ ext_scancode))
  /\ UNCHANGED <<sched, ioq, caps_lock_status>>

\* A break code clears the status of a control key, whichever of the two.
BreakCode(c) ==
  /\ ctrl_status'  = (ctrl_status /\ c # "ctrl_l")
  /\ shift_status' = (shift_status /\ c \notin {"shift_l", "shift_r"})
  /\ alt_status'   = (alt_status /\ c # "alt_l")
  /\ UNCHANGED <<sched, ioq, caps_lock_status>>

\* A make code that has no character is a control key.
ControlKey(c) ==
  /\ ctrl_status'  = (ctrl_status \/ c = "ctrl_l")
  /\ shift_status' = (shift_status \/ c \in {"shift_l", "shift_r"})
  /\ alt_status'   = (alt_status \/ c = "alt_l")
  /\ caps_lock_status' = (caps_lock_status # (c = "caps_lock"))
  /\ UNCHANGED <<sched, ioq>>

\* Behind an e0 only ctrl and alt are known, and the codes from 3b on are not.
Known(c) == c # "arrow" /\ (~ext_scancode \/ c \in {"ctrl_l", "alt_l"})

MakeCode(c) ==
  IF Known(c) /\ c \in Digits \cup Letters
    THEN PutChar(c) /\ UNCHANGED status
  ELSE IF Known(c) THEN ControlKey(c)
  ELSE UNCHANGED <<sched, ioq, status>>

\* The prefix is remembered until the next interrupt.
intr_keyboard_hdl ==
  /\ InterruptsOn
  /\ wire # <<>>
  /\ wire' = Tail(wire)
  /\ LET byte == Head(wire)
     IN  /\ ext_scancode' = (byte.code = "e0")
         /\ IF byte.code = "e0" THEN UNCHANGED <<sched, ioq, status>>
            ELSE IF byte.break THEN BreakCode(byte.code)
            ELSE MakeCode(byte.code)
  /\ EndHlt
  /\ UNCHANGED <<role, left, held>>

-----------------------------------------------------------------------------

\* sys_read on the standard input.
sys_read(t) ==
  /\ Exec(t)
  /\ pc[t] = "user"
  /\ \E count \in 1..MaxCount : Begin(t, "get", count)

Machine == \/ \E t \in Readers : sys_read(t) \/ QueueCode(t)
           \/ Timer \/ Idle

Next ==
  \/ Machine /\ UNCHANGED <<status, ext_scancode, wire, held>>
  \/ intr_keyboard_hdl
  \/ \E k \in Keys : Press(k) \/ Release(k)

\* keyboard_init.
Init == /\ QInit
        /\ ctrl_status = FALSE /\ shift_status = FALSE /\ alt_status = FALSE
        /\ caps_lock_status = FALSE /\ ext_scancode = FALSE
        /\ wire = <<>> /\ held = {}

Spec == Init /\ [][Next]_vars

\* The clock ticks, an interrupt that is pending is served, the kernel runs.
FairSpec ==
  /\ Spec
  /\ SF_vars(Timer /\ UNCHANGED <<status, ext_scancode, wire, held>>)
  /\ WF_vars(Idle /\ UNCHANGED <<status, ext_scancode, wire, held>>)
  /\ SF_vars(intr_keyboard_hdl)
  /\ \A t \in Readers :
       SF_vars(QueueCode(t) /\ UNCHANGED <<status, ext_scancode, wire, held>>)

-----------------------------------------------------------------------------
(* Properties *)

TypeOK ==
  /\ QTypeOK(MaxCount)
  /\ {ctrl_status, shift_status, alt_status, caps_lock_status, ext_scancode}
       \subseteq BOOLEAN
  /\ held \subseteq Keys /\ Len(wire) <= 2

\* No control key is taken to be down when it is not, nor a prefix pending,
\* once the handler has read what the keyboard sent.
NoStuckKey ==
  wire = <<>> =>
    /\ ctrl_status => held \cap {"ctrl_l", "ctrl_r"} # {}
    /\ shift_status => held \cap {"shift_l", "shift_r"} # {}
    /\ alt_status => held \cap {"alt_l", "alt_r"} # {}
    /\ ~ext_scancode

\* What a typist expects of a key, given the keys that are down: shift and
\* caps lock cancel out for letters, ctrl-l is a control character.
Expected(k) ==
  LET shift == held \cap {"shift_l", "shift_r"} # {}
      ctrl  == held \cap {"ctrl_l", "ctrl_r"} # {}
      upper == shift # (k \in Letters /\ caps_lock_status)
  IN  IF ctrl /\ k = "l" /\ ~upper THEN "^l" ELSE keymap(k, upper)

\* On a keyboard with one shift and one ctrl key, a character that enters
\* kbd_buf is the one the keys that are down stand for.
TypedChar ==
  [][ioq'.head # ioq.head =>
       ioq'.buf[ioq.head] = Expected(Head(wire).code)]_vars

\* With one reader, a reader asleep is served when a character comes.
ReaderServed == \A t \in Readers :
  (pc[t] \in {"lock", "slot"} /\ ~ioq_empty(ioq)) ~> ioq_empty(ioq) \/ pc[t] = "user"
=============================================================================
