------------------------------ MODULE Waveform ------------------------------
(***************************************************************************)
(* What the tools read out of a VCD file: core/vcd.mjs (values at a time,  *)
(* comparison of logic values), core/assert.mjs (declarative assertions)   *)
(* and the tracks of core/waveform.mjs.  A file describes one scalar,      *)
(* "done", and one bus, "q"; a logic value is a sequence of bits, the most *)
(* significant one first.  A trace gives each signal's value at each time  *)
(* from 0 to its last; the file lists the changes only.                    *)
(***************************************************************************)
EXTENDS Integers, Sequences, FiniteSetsExt

Signals == {"done", "q"}
Bit == {"0", "1", "x"}
AssertionTypes == {"vcd_final_eq", "vcd_at_eq", "vcd_never_eq"}

HasX(v) == \E i \in DOMAIN v : v[i] = "x"

\* What a text of 0s and 1s counts in a base.
Numeral(v, base) ==
  LET Prefix[i \in 0..Len(v)] == IF i = 0 THEN 0 ELSE base * Prefix[i - 1] + (IF v[i] = "1" THEN 1 ELSE 0)
  IN Prefix[Len(v)]

Number(v) == Numeral(v, 2)

\* A value that is asked for, as it is written: as bits, with 0b or a width
\* before them or without; as a number, or a decimal text with other digits, of
\* which `bits` are the binary digits; as a decimal text of 0s and 1s; as such a
\* text after 0x; or in any other way (8'hff, FF, true), which equals no value.
Forms == {"bits", "number", "decimal", "hex", "text"}
Expected == [form : Forms, bits : Seq(Bit) \ {<<>>}]
-----------------------------------------------------------------------------
(* The files simulators write *)

\* A list of changes: the value at 0, and each later value that is another one.
Changes(values) ==
  LET Until[i \in 0..Len(values)] ==
        IF i = 0 THEN <<>>
        ELSE IF i = 1 \/ values[i] # values[i - 1]
             THEN Append(Until[i - 1], [time |-> i - 1, value |-> values[i]])
             ELSE Until[i - 1]
  IN Until[Len(values)]

\* A leading bit that extension gives back.
Spare(v, j) == v[j] # "1" /\ (v[j] = v[j + 1] \/ (v[j] = "0" /\ v[j + 1] = "1"))

\* Icarus writes a bus as a vector without its spare bits.
Shortened(v) == SubSeq(v, Max({i \in DOMAIN v : \A j \in 1..(i - 1) : Spare(v, j)}), Len(v))

\* ModelSim writes each bit of a bus as a signal of its own.  What parseVcd
\* makes of a signal: one list of changes for each variable of the file.
Parsed(values, blasted) ==
  IF blasted
  THEN [b \in DOMAIN values[1] |-> Changes([i \in DOMAIN values |-> <<values[i][b]>>])]
  ELSE <<Changes([i \in DOMAIN values |-> Shortened(values[i])])>>
-----------------------------------------------------------------------------
(* How they are read *)

\* The text that an expected value is compared as; the x of 0x is taken for an
\* unknown bit.
Text(e) == IF e.form = "hex" THEN <<"0", "x">> \o e.bits ELSE e.bits

\* compareLogicValue: values with an unknown bit are compared as texts, and so
\* are those that are no number, which are never equal then; all others as
\* numbers, a text of 0s and 1s in base 2.
LogicEqual(actual, e) ==
  /\ e.form # "text"
  /\ IF HasX(actual) \/ HasX(Text(e)) THEN actual = Text(e) ELSE Number(actual) = Number(Text(e))

\* Seeded fault: a change counts only after its time.
ValueAtLater(changes, at) ==
  LET seen == {i \in DOMAIN changes : changes[i].time < at}
  IN IF seen = {} THEN <<>> ELSE changes[Max(seen)].value

\* The value of the last change up to a time, <<>> when there is none.
ValueAt(changes, at) ==
  LET seen == {i \in DOMAIN changes : changes[i].time <= at}
  IN IF seen = {} THEN <<>> ELSE changes[Max(seen)].value

\* findVcdSignal: the first variable whose name without its index fits.
Found(parsed) == parsed[1]

\* evaluateAssertions, for a VCD assertion a = [type, signal, value, time].
Evaluate(a, trace, blasted) ==
  LET changes == Found(Parsed(trace[a.signal], blasted))
      Is(v) == v # <<>> /\ LogicEqual(v, a.value)
  IN CASE a.type = "vcd_never_eq" -> \A i \in DOMAIN changes : ~Is(changes[i].value)
       [] a.type = "vcd_final_eq" -> Is(changes[Len(changes)].value)
       [] a.type = "vcd_at_eq" -> Is(ValueAt(changes, a.time))

\* combineBits: the bits of a bus are put together again, most significant
\* first, up to the last change of any; where none changes, nor does the bus.
Combined(bits) ==
  LET times == {0} \union UNION {{bits[b][i].time : i \in DOMAIN bits[b]} : b \in DOMAIN bits}
      At(t) == [b \in DOMAIN bits |-> LET v == ValueAt(bits[b], t) IN IF v = <<>> THEN "x" ELSE v[1]]
  IN Changes([i \in 1..(Max(times) + 1) |-> At(i - 1)])

\* buildTracks: a filter by names takes the first variable that fits a name.
Track(parsed, filtered) == IF filtered \/ Len(parsed) = 1 THEN parsed[1] ELSE Combined(parsed)

\* segments: what is drawn from time 0 to the end, "x" before the first change.
Segments(changes, end) ==
  LET from(i) == changes[i].time
      to(i) == IF i < Len(changes) THEN changes[i + 1].time ELSE Max({end, from(i)})
      drawn == [i \in DOMAIN changes |-> [t0 |-> from(i), t1 |-> to(i), value |-> changes[i].value]]
  IN IF changes = <<>> THEN <<[t0 |-> 0, t1 |-> end, value |-> <<"x">>]>>
     ELSE IF from(1) > 0 THEN <<[t0 |-> 0, t1 |-> from(1), value |-> <<"x">>]>> \o drawn
     ELSE drawn
-----------------------------------------------------------------------------
(* What the reading should say *)

\* The values of a signal at the times from 0 on, all of one width.
IsTrace(values) ==
  /\ values \in Seq(Seq(Bit)) /\ values # <<>> /\ values[1] # <<>>
  /\ \A i \in DOMAIN values : Len(values[i]) = Len(values[1])

\* All that is seen of a bus that is written bit by bit by those who take the
\* first variable that fits: its first bit.
FirstBit(values) == [i \in DOMAIN values |-> <<values[i][1]>>]
Seen(values, bitwise) == IF bitwise THEN FirstBit(values) ELSE values

\* The number that an expected value means, and those that are read as it.
Meant(e) == Numeral(e.bits, CASE e.form = "decimal" -> 10 [] e.form = "hex" -> 16 [] OTHER -> 2)
ReadAsMeant(e) == e.form \notin {"hex", "text"} /\ ~HasX(e.bits) /\ Number(e.bits) = Meant(e)

\* An assertion about a signal itself: that it has, or never has, a value that
\* is known and counts what is meant; after its end it keeps its last one.
TrueOf(a, values) ==
  LET Is(v) == ~HasX(v) /\ Number(v) = Meant(a.value)
  IN CASE a.type = "vcd_never_eq" -> \A i \in DOMAIN values : ~Is(values[i])
       [] a.type = "vcd_final_eq" -> Is(values[Len(values)])
       [] a.type = "vcd_at_eq" -> Is(values[IF a.time < Len(values) THEN a.time + 1 ELSE Len(values)])

\* A change, and the changes of a signal in the order of the file; several may
\* have one time.
Change == [time : Nat, value : Seq(Bit) \ {<<>>}]
InOrder(changes) ==
  /\ changes \in Seq(Change)
  /\ \A i, j \in DOMAIN changes : i < j => changes[i].time <= changes[j].time

\* The segments drawn for a signal meet, and show its value at every time, but
\* for spare bits; of a bus that is written bit by bit a filter shows one bit.
DrawsTrace(trace, s, blasted, filtered) ==
  LET end == Len(trace[s]) - 1
      drawn == Segments(Track(Parsed(trace[s], blasted), filtered), end)
      values == Seen(trace[s], blasted /\ filtered)
  IN /\ drawn[1].t0 = 0 /\ drawn[Len(drawn)].t1 = end
     /\ \A i \in 2..Len(drawn) : drawn[i].t0 = drawn[i - 1].t1
     /\ \A i \in DOMAIN drawn : \A t \in drawn[i].t0..(drawn[i].t1 - 1) :
          Shortened(drawn[i].value) = Shortened(values[t + 1])
=============================================================================
