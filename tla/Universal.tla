------------------------------ MODULE Universal ------------------------------
(***************************************************************************)
(* tm/universal.rs: one fixed five-tape machine that runs any machine      *)
(* described on its first tape.                                            *)
(*                                                                         *)
(* A step of the guest is: match the rules in Table's order against State  *)
(* and Key; copy the matched rule into Action and State; sweep Guest to    *)
(* the right, applying writes and taking right moves; sweep it back to the *)
(* left, taking left moves and copying the symbols under the heads into    *)
(* Key.                                                                    *)
(***************************************************************************)
EXTENDS Reduction

TableTape == 1      \* ^ accept and rule entries $ the guest's alphabet
StateTape == 2      \* the status and the guest's state
GuestTape == 3      \* the guest's tapes as tracks of every block
KeyTape == 4        \* the code under every guest head
ActionTape == 5     \* the matched rule's move and write for every guest tape

Bit == {"0", "1"}
FlagSymbols == <<"H", "h", "-">>
Delimiters == <<"|", "o">>
ActionMoves == <<"L", "R", "S", "l", "r">>
AnyField == "?"
Running == "?"

(***************************************************************************)
(* Rules: a set of <<tape, read, write, move>>, the other tapes left alone.*)
(***************************************************************************)
Row(parts, field, default) ==
  LET Part(i) == IF \E part \in parts : part[1] = i
                 THEN (CHOOSE part \in parts : part[1] = i)[field] ELSE default
  IN  <<Part(TableTape), Part(StateTape), Part(GuestTape), Part(KeyTape), Part(ActionTape)>>
On(parts, next) ==
  [read |-> Row(parts, 2, Wild), write |-> Row(parts, 3, Wild), moves |-> Row(parts, 4, "S"),
   next |-> next]

Read(tape, s, next) == On({<<tape, s, Wild, "S">>}, next)
Go(tape, mv, next) == On({<<tape, Wild, Wild, mv>>}, next)
\* Guest and Action move together; Swept takes Key along.
Both(g, gw, a, aw, mv, next) ==
  On({<<GuestTape, g, gw, mv>>, <<ActionTape, a, aw, mv>>}, next)
Swept(g, gw, a, aw, mv, next) ==
  On({<<GuestTape, g, gw, mv>>, <<ActionTape, a, aw, mv>>, <<KeyTape, Wild, Wild, mv>>}, next)

\* One rule per symbol of a sequence.
Each(symbols, RuleFor(_)) == [n \in DOMAIN symbols |-> RuleFor(symbols[n])]
EachBit(RuleFor(_)) == Each(<<"0", "1">>, RuleFor)

\* Walk a tape until it shows end, then go on.
Seek(tape, end, mv, here, next) == <<Read(tape, end, next), Go(tape, mv, here)>>

BootPhase ==
  [boot        |-> <<Go(StateTape, "R", "boot_guest")>>,
   boot_guest  |-> Seek(GuestTape, ">", "R", "boot_guest", "boot_others"),
   boot_others |-> <<Read(ActionTape, ">", "sweep_left"),
                     On({<<ActionTape, Wild, Wild, "R">>, <<KeyTape, Wild, Wild, "R">>},
                        "boot_others")>>]

\* Copy the bits of the slot into Key, come back to its flag, set it to H.
ReadSlot(read, back) ==
  EachBit(LAMBDA bit : On({<<GuestTape, bit, Wild, "R">>, <<ActionTape, Wild, Wild, "R">>,
                           <<KeyTape, Wild, bit, "R">>}, read))
    \o <<Swept(Wild, Wild, Wild, Wild, "L", back)>>
ReadBack(back, done) ==
  EachBit(LAMBDA bit : Swept(bit, Wild, Wild, Wild, "L", back))
    \o Each(<<"H", "h">>, LAMBDA f : Swept(f, "H", Wild, Wild, "L", done))

SweepLeftPhase ==
  [sweep_left    |-> <<Swept(Wild, Wild, Wild, Wild, "L", "sl_bits")>>,
   sl_bits       |-> <<Read(GuestTape, "<", "sl_scan")>>
                       \o Each(Delimiters, LAMBDA d : Read(GuestTape, d, "sl_next_block"))
                       \o Each(FlagSymbols, LAMBDA f : Read(GuestTape, f, "sl_flag"))
                       \o <<Swept(Wild, Wild, Wild, Wild, "L", "sl_bits")>>,
   sl_next_block |-> <<Swept(Wild, Wild, ">", Wild, "L", "sl_bits"),
                       On({<<ActionTape, Wild, Wild, "R">>, <<KeyTape, Wild, Wild, "R">>},
                          "sl_next_block")>>,
   sl_flag       |-> <<Swept("H", Wild, "L", Wild, "R", "sl_write"),
                       Swept("-", "h", "l", "S", "R", "sl_read"),
                       Swept("H", Wild, Wild, Wild, "R", "sl_read"),
                       Swept("h", Wild, Wild, Wild, "R", "sl_read"),
                       Swept(Wild, Wild, Wild, Wild, "L", "sl_bits")>>,
   sl_write      |-> Each(FlagSymbols \o Delimiters \o <<">">>,
                          LAMBDA c : Swept(c, Wild, Wild, Wild, "L", "sl_write_back"))
                       \o <<Swept(Wild, Wild, AnyField, Wild, "R", "sl_write")>>
                       \o EachBit(LAMBDA bit : Swept(Wild, bit, bit, Wild, "R", "sl_write")),
   sl_write_back |-> EachBit(LAMBDA bit : Swept(bit, Wild, Wild, Wild, "L", "sl_write_back"))
                       \o <<Swept("H", "-", Wild, "l", "L", "sl_bits")>>,
   sl_read       |-> ReadSlot("sl_read", "sl_read_back"),
   sl_read_back  |-> ReadBack("sl_read_back", "sl_bits"),
   sl_scan       |-> <<Read(ActionTape, "l", "sl_prepend")>>
                       \o Seek(ActionTape, "<", "L", "sl_scan", "sl_key_home"),
   sl_key_home   |-> Seek(KeyTape, "<", "L", "sl_key_home", "match")]

\* A move still pending at the left end: write a blank block in its place.
PrependPhase ==
  [sl_prepend       |-> Seek(ActionTape, ">", "R", "sl_prepend", "sl_prepend_key"),
   sl_prepend_key   |-> <<On({<<KeyTape, ">", Wild, "L">>, <<ActionTape, Wild, Wild, "L">>},
                             "sl_prepend_cell"),
                          Go(KeyTape, "R", "sl_prepend_key")>>,
   sl_prepend_cell  |-> <<On({<<ActionTape, "<", Wild, "S">>, <<GuestTape, Wild, "|", "L">>},
                             "sl_prepend_close")>>
                          \o Each(ActionMoves, LAMBDA mv : Read(ActionTape, mv, "sl_prepend_flag"))
                          \o <<Swept(Wild, "0", Wild, Wild, "L", "sl_prepend_cell")>>,
   sl_prepend_flag  |-> <<Swept(Wild, "h", "l", "S", "R", "sl_prepend_read"),
                          Swept(Wild, "-", Wild, Wild, "L", "sl_prepend_cell")>>,
   sl_prepend_read  |-> ReadSlot("sl_prepend_read", "sl_prepend_back"),
   sl_prepend_back  |-> ReadBack("sl_prepend_back", "sl_prepend_cell"),
   sl_prepend_close |-> <<On({<<GuestTape, Wild, "<", "S">>}, "match")>>]

\* Compare an id on Table with the guest's state.
SameId(here) ==
  EachBit(LAMBDA bit : On({<<TableTape, bit, Wild, "R">>, <<StateTape, bit, Wild, "R">>}, here))
Mark(status, here, halt) ==
  <<On({<<StateTape, Running, status, "S">>}, halt), Go(StateTape, "L", here)>>
StateHome(here, next) == <<On({<<StateTape, Running, Wild, "R">>}, next), Go(StateTape, "L", here)>>

MatchPhase ==
  [match           |-> <<On({<<TableTape, "A", Wild, "R">>}, "m_accept_id"),
                         On({<<TableTape, "Q", Wild, "R">>}, "m_rule_id")>>
                         \o Seek(TableTape, "$", "R", "match", "m_mark_stuck"),
   m_accept_id     |-> SameId("m_accept_id")
                         \o <<On({<<TableTape, ".", Wild, "S">>, <<StateTape, ".", Wild, "S">>},
                                 "m_mark_accepted"),
                              On({}, "m_next_entry")>>,
   m_rule_id       |-> SameId("m_rule_id")
                         \o <<On({<<TableTape, ".", Wild, "R">>, <<StateTape, ".", Wild, "S">>,
                                  <<KeyTape, Wild, Wild, "R">>}, "m_field"),
                              On({}, "m_next_entry")>>,
   m_mark_accepted |-> Mark("Y", "m_mark_accepted", "guest_accepted"),
   m_mark_stuck    |-> Mark("N", "m_mark_stuck", "guest_stuck"),
   m_next_entry    |-> StateHome("m_next_entry", "match"),
   m_field         |-> <<On({<<TableTape, "/", Wild, "R">>, <<KeyTape, ">", Wild, "S">>}, "copy"),
                         On({<<TableTape, AnyField, Wild, "R">>, <<KeyTape, ",", Wild, "R">>},
                            "m_field_any")>>
                         \o EachBit(LAMBDA bit : On({<<TableTape, bit, Wild, "S">>,
                                                     <<KeyTape, ",", Wild, "R">>}, "m_field_bits"))
                         \o <<On({}, "m_next_rule")>>,
   m_field_any     |-> EachBit(LAMBDA bit : On({<<KeyTape, bit, Wild, "R">>}, "m_field_any"))
                         \o <<Go(TableTape, "R", "m_field")>>,
   m_field_bits    |-> EachBit(LAMBDA bit : On({<<TableTape, bit, Wild, "R">>,
                                                <<KeyTape, bit, Wild, "R">>}, "m_field_bits"))
                         \o Each(<<",", ">">>, LAMBDA end : On({<<TableTape, ",", Wild, "R">>,
                                                                <<KeyTape, end, Wild, "S">>}, "m_field"))
                         \o <<On({}, "m_next_rule")>>,
   m_next_rule     |-> Seek(KeyTape, "<", "L", "m_next_rule", "m_next_entry")]

CopyPhase ==
  [copy          |-> <<Go(ActionTape, "R", "c_write_field")>>,
   c_write_field |-> <<On({<<TableTape, "/", Wild, "R">>}, "c_moves_home"),
                       On({<<TableTape, AnyField, Wild, "R">>, <<ActionTape, Wild, Wild, "R">>},
                          "c_write_any"),
                       Go(ActionTape, "R", "c_write_bits")>>,
   c_write_any   |-> Each(<<"0", "1", AnyField>>,
                          LAMBDA c : On({<<ActionTape, c, AnyField, "R">>}, "c_write_any"))
                       \o <<Go(TableTape, "R", "c_write_field")>>,
   c_write_bits  |-> EachBit(LAMBDA bit : On({<<TableTape, bit, Wild, "R">>,
                                              <<ActionTape, Wild, bit, "R">>}, "c_write_bits"))
                       \o <<Go(TableTape, "R", "c_write_field")>>,
   c_moves_home  |-> <<On({<<ActionTape, "<", Wild, "R">>}, "c_move"),
                       Go(ActionTape, "L", "c_moves_home")>>,
   c_move        |-> Each(<<"L", "R", "S">>, LAMBDA mv : On({<<TableTape, mv, Wild, "R">>,
                                                             <<ActionTape, Wild, mv, "R">>}, "c_move_skip"))
                       \o <<Go(TableTape, "R", "c_next_home")>>,
   c_move_skip   |-> Each(ActionMoves \o <<">">>, LAMBDA c : Read(ActionTape, c, "c_move"))
                       \o <<Go(ActionTape, "R", "c_move_skip")>>,
   c_next_home   |-> StateHome("c_next_home", "c_next"),
   c_next        |-> EachBit(LAMBDA bit : On({<<TableTape, bit, Wild, "R">>,
                                              <<StateTape, Wild, bit, "R">>}, "c_next"))
                       \o <<On({}, "c_table_home")>>,
   c_table_home  |-> Seek(TableTape, "^", "L", "c_table_home", "c_state_home"),
   c_state_home  |-> StateHome("c_state_home", "c_action_home"),
   c_action_home |-> Seek(ActionTape, "<", "L", "c_action_home", "sweep_right")]

\* Past the cells a slot's flag was handled for.
SlotEnd ==
  Each(FlagSymbols, LAMBDA f : Read(GuestTape, f, "sr_flag"))
    \o Each(Delimiters \o <<">">>, LAMBDA end : Read(GuestTape, end, "sr_block"))

SweepRightPhase ==
  [sweep_right    |-> <<Go(GuestTape, "R", "sr_block")>>,
   sr_block       |-> <<Read(GuestTape, ">", "sr_scan")>>
                        \o FlattenSeq(Each(Delimiters,
                             LAMBDA d : <<Both(d, Wild, "<", Wild, "R", "sr_flag"),
                                          Read(GuestTape, d, "sr_action_home")>>)),
   sr_action_home |-> Seek(ActionTape, "<", "L", "sr_action_home", "sr_block"),
   sr_flag        |-> <<Both("H", "-", "R", "r", "R", "sr_write"),
                        Both("H", Wild, "S", Wild, "R", "sr_write"),
                        Both("-", "h", "r", "S", "R", "sr_skip"),
                        Both(Wild, Wild, Wild, Wild, "R", "sr_skip")>>,
   sr_write       |-> SlotEnd \o <<Both(Wild, Wild, AnyField, Wild, "R", "sr_write")>>
                        \o EachBit(LAMBDA bit : Both(Wild, bit, bit, Wild, "R", "sr_write")),
   sr_skip        |-> SlotEnd \o <<Both(Wild, Wild, Wild, Wild, "R", "sr_skip")>>,
   sr_scan        |-> <<Read(ActionTape, "r", "sr_append")>>
                        \o Seek(ActionTape, "<", "L", "sr_scan", "sr_action_end"),
   sr_action_end  |-> Seek(ActionTape, ">", "R", "sr_action_end", "sweep_left"),
   sr_append      |-> <<On({<<ActionTape, "<", Wild, "R">>, <<GuestTape, Wild, "|", "R">>},
                           "sr_append_flag"),
                        Go(ActionTape, "L", "sr_append")>>,
   sr_append_flag |-> <<Both(Wild, "h", "r", "S", "R", "sr_append_bits"),
                        On({<<ActionTape, ">", Wild, "S">>, <<GuestTape, Wild, ">", "S">>},
                           "sweep_left"),
                        Both(Wild, "-", Wild, Wild, "R", "sr_append_bits")>>,
   sr_append_bits |-> Each(ActionMoves \o <<">">>, LAMBDA c : Read(ActionTape, c, "sr_append_flag"))
                        \o <<Both(Wild, "0", Wild, Wild, "R", "sr_append_bits")>>]

AllRules ==
  BootPhase @@ SweepLeftPhase @@ PrependPhase @@ MatchPhase @@ CopyPhase @@ SweepRightPhase
    @@ [guest_accepted |-> <<>>, guest_stuck |-> <<>>]

UniversalMachine ==
  [start |-> "boot", tapes |-> 5,
   states |-> Tabulated([s \in DOMAIN AllRules |->
                           [accept |-> s = "guest_accepted", rules |-> AllRules[s]]])]

(***************************************************************************)
(* The tapes of a guest.  Its states and symbols are numbered in order;    *)
(* the characters the code writes in 21 bits after $ are one cell each.    *)
(***************************************************************************)
WidthFor(n) == CHOOSE b \in 1..(n + 1) : 2 ^ b >= n /\ (b = 1 \/ 2 ^ (b - 1) < n)
BitsOf(value, width) ==
  [i \in 1..width |-> IF (value \div 2 ^ (width - i)) % 2 = 1 THEN "1" ELSE "0"]
ValueOf(cells) == FoldLeft(LAMBDA n, c : 2 * n + (IF c = "1" THEN 1 ELSE 0), 0, cells)
Position(seq, x) == (CHOOSE n \in DOMAIN seq : seq[n] = x) - 1

GuestStates(m) == Listing(DOMAIN m.states)
GuestSymbols(m, inits) ==
  <<Blank>> \o Listing((Alphabet(m) \cup UNION {ToSet(inits[i]) : i \in DOMAIN inits}) \ {Blank})
IdOf(m, q) == BitsOf(Position(GuestStates(m), q), WidthFor(Cardinality(DOMAIN m.states)))
CodeOf(symbols, s) == BitsOf(Position(symbols, s), WidthFor(Len(symbols)))

Field(symbols, cell) ==
  (IF cell = Wild THEN <<AnyField>> ELSE CodeOf(symbols, cell)) \o <<",">>
Fields(symbols, cells) ==
  FlattenSeq([i \in DOMAIN cells |-> Field(symbols, cells[i])]) \o <<"/">>
Entry(m, symbols, q) ==
  IF m.states[q].accept THEN <<"A">> \o IdOf(m, q) \o <<".">>
  ELSE FlattenSeq([j \in DOMAIN Rules(m, q) |->
         LET r == Rules(m, q)[j]
         IN  <<"Q">> \o IdOf(m, q) \o <<".">> \o Fields(symbols, r.read)
               \o Fields(symbols, r.write) \o r.moves \o <<"/">> \o IdOf(m, r.next) \o <<".">>])

EncodeOk(m, inits) == Valid(m) /\ m.tapes # 0 /\ Len(inits) <= m.tapes

EncodeGuest(m, inits) ==
  LET symbols == GuestSymbols(m, inits)
      states  == GuestStates(m)
      cells   == Max({1} \cup {Len(inits[i]) : i \in DOMAIN inits})
      \* Accept entries come before every rule.
      Entries(accept) ==
        FlattenSeq([n \in DOMAIN states |->
          IF m.states[states[n]].accept = accept THEN Entry(m, symbols, states[n]) ELSE <<>>])
      Slot(j, t) == <<IF j = 0 THEN "H" ELSE "-">>
                      \o CodeOf(symbols, IF t \in DOMAIN inits THEN CellAt(inits[t], j) ELSE Blank)
      Block(j) == <<IF j = 0 THEN "o" ELSE "|">> \o FlattenSeq([t \in 1..m.tapes |-> Slot(j, t)])
      Slots(first) ==
        <<"<">> \o FlattenSeq([t \in 1..m.tapes |-> <<first>> \o CodeOf(symbols, Blank)]) \o <<">">>
  IN  << <<"^">> \o Entries(TRUE) \o Entries(FALSE) \o <<"$">>
           \o FlattenSeq([n \in DOMAIN symbols |-> <<symbols[n], ",">>]),
         <<Running>> \o IdOf(m, m.start) \o <<".">>,
         <<"<">> \o FlattenSeq([j \in 1..cells |-> Block(j - 1)]) \o <<">">>,
         Slots(","), Slots("S") >>

(***************************************************************************)
(* A guest run read back out of the five tapes.                            *)
(***************************************************************************)
GuestStatus(tapes) ==
  LET status == Head(Snapshot(tapes[StateTape]))
  IN  CASE status = Running -> "Running" [] status = "Y" -> "Accepted" [] status = "N" -> "Stuck"

GuestAlphabet(tapes) ==
  LET table == Snapshot(tapes[TableTape])
      from  == SelectInSeq(table, LAMBDA c : c = "$")
  IN  [n \in 1..((Len(table) - from) \div 2) |-> table[from + 2 * n - 1]]

\* The cells between Guest's ends, the places of the delimiters in them, and
\* the blocks the delimiters open.
Body(tapes) ==
  LET cells == Snapshot(tapes[GuestTape])
  IN  SubSeq(cells, SelectInSeq(cells, LAMBDA c : c = "<") + 1,
                    SelectInSeq(cells, LAMBDA c : c = ">") - 1)
Opened(body) == Ascending({n \in DOMAIN body : body[n] \in {"|", "o"}})
GuestBlocks(body) ==
  LET at == Opened(body)
  IN  [j \in DOMAIN at |->
         SubSeq(body, at[j] + 1, IF j = Len(at) THEN Len(body) ELSE at[j + 1] - 1)]
TrackHeads(blocks, slot, t) ==
  {j \in DOMAIN blocks : blocks[j][(t - 1) * slot + 1] \in {"H", "h"}}

DecodeOk(tapes) ==
  LET body   == Body(tapes)
      blocks == GuestBlocks(body)
      slot   == WidthFor(Len(GuestAlphabet(tapes))) + 1
      size   == Len(blocks[1])
  IN  /\ "o" \in ToSet(body)
      /\ size # 0 /\ size % slot = 0
      /\ \A j \in DOMAIN blocks : Len(blocks[j]) = size
      /\ \A t \in 1..(size \div slot) : Cardinality(TrackHeads(blocks, slot, t)) = 1
DecodeGuest(tapes) ==
  LET body    == Body(tapes)
      blocks  == GuestBlocks(body)
      symbols == GuestAlphabet(tapes)
      slot    == WidthFor(Len(symbols)) + 1
      Cell(j, t) == symbols[ValueOf(SubSeq(blocks[j], (t - 1) * slot + 2, t * slot)) + 1]
      origin  == SelectInSeq(Opened(body), LAMBDA n : body[n] = "o") - 1
  IN  [t \in 1..(Len(blocks[1]) \div slot) |->
         OriginSnapshot([j \in DOMAIN blocks |-> Cell(j, t)],
                        Max(TrackHeads(blocks, slot, t)) - 1, origin)]
\* The state the guest is in, from the bits on State.
GuestState(m, tapes) ==
  LET cells == Snapshot(tapes[StateTape])
  IN  GuestStates(m)[ValueOf(SubSeq(cells, 2, SelectInSeq(cells, LAMBDA c : c = ".") - 1)) + 1]
=============================================================================
