--------------------------- MODULE ScrollerAvalon ---------------------------
(***************************************************************************)
(* The bus slave (src/scroller_avalon.vhd): it decodes the address of an   *)
(* Avalon write and wires the control block to the display block.  Both    *)
(* blocks see the same edge, so one bus cycle is one step of both.         *)
(***************************************************************************)
EXTENDS Integers, FiniteSets

CONSTANTS
  TextLen, Window,
  DEFAULT_SPEED, Step, MinLimit, MaxLimit, CounterTop, CounterMod,
  WordMod,      \* 2^32, the words of avs_writedata
  BusWrites     \* the <<avs_address, avs_writedata>> the master may write

AddrCtrl  == TextLen            \* 32 (0x20)
AddrSpeed == TextLen + 1        \* 33 (0x21); 34..63 are decoded by nobody

\* to_integer of an unsigned word in a signed integer of the same width.
ToInteger(w) == IF w < WordMod \div 2 THEN w ELSE w - WordMod

SpeedWrites == {ToInteger(aw[2]) : aw \in {x \in BusWrites : x[1] = AddrSpeed}}

ASSUME BusAssumption ==
  /\ TextLen \in Nat \ {0} /\ Window \in 1..TextLen
  /\ {DEFAULT_SPEED, MinLimit, MaxLimit} \subseteq Int /\ Step \in Nat \ {0}
  /\ CounterTop \in Nat /\ CounterMod \in Nat /\ CounterTop < CounterMod
  /\ WordMod \in Nat \ {0}
  /\ \A aw \in BusWrites : aw[1] \in Nat /\ aw[2] \in 0..(WordMod - 1)

VARIABLES
  reset, switch_enable, buttons,
  speed_counter, speed_limit, scroll_idx, is_paused, btn_prev,
  ram

vars == <<reset, switch_enable, buttons,
          speed_counter, speed_limit, scroll_idx, is_paused, btn_prev, ram>>

Ctrl == INSTANCE BlocoControle
Oper == INSTANCE BlocoOperacional

Bit    == {0, 1}
Button == 0..2

TypeOK ==
  /\ Ctrl!TypeOK
  /\ ram \in [0..(TextLen - 1) -> 0..255]

Init == Ctrl!Init /\ Oper!InitRam

\* current_index and system_on of the control block drive the displays.
hex_out == Oper!hex_output(scroll_idx, switch_enable)

Enable(avs_write, selected) == IF selected THEN avs_write ELSE 0

\* A wrong version of BusCycle, on which the properties are tried.
BusCycle_LooseDecode(avs_write, avs_address, avs_writedata) ==
  /\ Ctrl!RisingEdge(Enable(avs_write, avs_address = AddrSpeed),
                     ToInteger(avs_writedata),
                     Enable(avs_write, avs_address >= AddrCtrl /\ avs_address # AddrSpeed),
                     avs_writedata % 2)
  /\ Oper!WriteEdge(Enable(avs_write, avs_address < TextLen),
                    avs_address, avs_writedata)

BusCycle(avs_write, avs_address, avs_writedata) ==
  /\ Ctrl!RisingEdge(Enable(avs_write, avs_address = AddrSpeed),
                     ToInteger(avs_writedata),
                     Enable(avs_write, avs_address = AddrCtrl),
                     avs_writedata % 2)
  /\ Oper!WriteEdge(Enable(avs_write, avs_address < TextLen),
                    avs_address, avs_writedata)

Clock ==
  \/ BusCycle(0, 0, 0)
  \/ \E aw \in BusWrites : BusCycle(1, aw[1], aw[2])

MoveReset     == Ctrl!MoveReset     /\ UNCHANGED ram
MoveSwitch    == Ctrl!MoveSwitch    /\ UNCHANGED ram
MoveButton(b) == Ctrl!MoveButton(b) /\ UNCHANGED ram

Next ==
  \/ Clock
  \/ MoveReset
  \/ MoveSwitch
  \/ \E b \in Button : MoveButton(b)

Spec == Init /\ [][Next]_vars

-----------------------------------------------------------------------------
\* One address space, three destinations: whatever else happens at the edge of a
\* write, a register is given the master's word at its own address only, a text
\* write or a stray one (34..63) is an idle cycle for the control block, and no
\* position of the text changes but the one addressed (scroller_avalon.vhd:59-87,
\* bloco_operacional.vhd:93-103).
EachToItsOwn ==
  [][\A aw \in BusWrites :
       BusCycle(1, aw[1], aw[2]) =>
         /\ aw[1] = AddrCtrl  => Ctrl!WriteCtrl(aw[2] % 2)
         /\ aw[1] = AddrSpeed => Ctrl!WriteSpeed(ToInteger(aw[2]))
         /\ aw[1] \notin {AddrCtrl, AddrSpeed} => Ctrl!IdleCycle
         /\ \A k \in DOMAIN ram \ {aw[1]} : ram'[k] = ram[k]
    ]_vars

\* Behind the decoder the control block behaves as it does alone: it is never
\* given both enables at once, nor a speed that is not of the master, and each
\* write reaches what it addresses and nothing else (scroller_avalon.vhd:59-87).
ImplementsControl == Ctrl!Init /\ [][Ctrl!Next]_(Ctrl!vars) /\ EachToItsOwn

Lit == switch_enable = 1 /\ reset = 0

\* While the displays are lit and nobody resets, one step leaves the picture
\* where it is or moves it left by one display, and no letter of it changes but
\* one that is being rewritten: whatever is written, pressed or scrolled at the
\* same edge, no letter is skipped or torn (bloco_operacional.vhd:93-115 with
\* bloco_controle.vhd:94-106).
Rewritten == {k \in DOMAIN ram : ram'[k] # ram[k]}

TurnsSmoothly ==
  [][Lit /\ Lit' =>
       \E shift \in {0, 1} :
         Cardinality({p \in 0..(Window - 1 - shift) : hex_out'[p] # hex_out[p + shift]})
           <= Cardinality(Rewritten)
    ]_vars

=============================================================================
