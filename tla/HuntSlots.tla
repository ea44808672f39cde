------------------------------- MODULE HuntSlots -------------------------------
(***************************************************************************)
(* How a row of the HUNT log stores one number per team (integer-slots.ts,   *)
(* hunt-time-slots.ts, packOrders and readOrders of hunt-log.ts): a text is   *)
(* here the sequence of its digits, and of several forms the shortest is kept.*)
(***************************************************************************)
EXTENDS Integers, Sequences, FiniteSets, SequencesExt, FiniteSetsExt

CONSTANTS
    DigitBits,    \* 6: a character of the alphabet is one of 2^6 digits
    MaxRun,       \* 63: the longest run that is counted at once
    Times,        \* the offsets of the model, 0 for a team with no success
    Ranks,        \* the ranks of the model
    MaxSlots      \* bound: the teams a row has a slot for

Base == 2 ^ DigitBits
MaxWidth == 9

SlotBounds ==
    /\ DigitBits \in 1..6 /\ MaxRun \in Nat \ {0} /\ MaxSlots \in Nat \ {0}
    /\ Times \subseteq Nat /\ Ranks \subseteq Nat /\ 0 \in Times \cap Ranks

VARIABLE slots    \* the row under test: a time and a rank per slot

-----------------------------------------------------------------------------
(* packUnsignedSlots: numbers of one width, in digits.                      *)

Width(values) ==
    LET top == Max({1} \cup ToSet(values))
    IN  CHOOSE w \in 1..MaxWidth : Base ^ w > top /\ Base ^ (w - 1) <= top

Digits(value, width) == [i \in 1..width |-> (value \div Base ^ (width - i)) % Base]
Unsigned(values) ==
    [width |-> Width(values),
     text |-> FlattenSeq([i \in DOMAIN values |-> Digits(values[i], Width(values))])]

Number(digits, base) == FoldLeft(LAMBDA n, digit : n * base + digit, 0, digits)
Group(text, i, width) == SubSeq(text, (i - 1) * width + 1, i * width)
ReadUnsigned(text, width) ==
    [i \in 1..(Len(text) \div width) |-> Number(Group(text, i, width), Base)]

-----------------------------------------------------------------------------
(* packHuntTimeSlots: offsets, signed differences, or runs of differences.  *)

\* The last success before slot i.
Previous(values, i) ==
    LET present == {j \in 1..(i - 1) : values[j] # 0}
    IN  IF present = {} THEN 0 ELSE values[Max(present)]

Signed(difference) == IF difference >= 0 THEN 2 * difference + 1 ELSE -2 * difference

Deltas(values) ==
    [i \in DOMAIN values |->
        IF values[i] = 0 THEN 0 ELSE Signed(values[i] - Previous(values, i))]

Runs(deltas) ==
    LET Extend(runs, delta) ==
          IF runs # <<>> /\ Last(runs) = delta /\ runs[Len(runs) - 1] < MaxRun
          THEN [runs EXCEPT ![Len(runs) - 1] = @ + 1]
          ELSE runs \o <<1, delta>>
    IN  FoldLeft(Extend, <<>>, deltas)

Form(form, packed) == [form |-> form, width |-> packed.width, text |-> packed.text]
\* A run's text begins with its width and a colon.
Length(packed) == Len(packed.text) + IF packed.form = "runs" THEN 2 ELSE 0

Pack(values) ==
    LET direct == Form("slots", Unsigned(values))
        deltas == Form("deltas", Unsigned(Deltas(values)))
        smallest == IF Length(deltas) + 1 < Length(direct) THEN deltas ELSE direct
        runs == Form("runs", Unsigned(Runs(Deltas(values))))
    IN  IF Length(runs) + 1 < Length(smallest) THEN runs ELSE smallest

ReadDeltas(deltas) ==
    LET Read(acc, delta) ==
          LET at == acc.previous + IF delta % 2 = 1 THEN (delta - 1) \div 2 ELSE -(delta \div 2)
          IN  IF delta = 0 THEN [acc EXCEPT !.values = Append(@, 0)]
              ELSE [previous |-> at, values |-> Append(acc.values, at)]
    IN  FoldLeft(Read, [previous |-> 0, values |-> <<>>], deltas).values

ReadRuns(runs) ==
    FlattenSeq([i \in 1..(Len(runs) \div 2) |-> [n \in 1..runs[2 * i - 1] |-> runs[2 * i]]])

Unpack(packed) ==
    LET values == ReadUnsigned(packed.text, packed.width)
    IN  IF packed.form = "slots" THEN values
        ELSE ReadDeltas(IF packed.form = "runs" THEN ReadRuns(values) ELSE values)

-----------------------------------------------------------------------------
(* packOrders: ranks, a motif that repeats, a dictionary, or a progression. *)

\* The shortest motif the ranks repeat, the last repeat perhaps cut short.
Period(ranks) ==
    Min({p \in 1..Len(ranks) : \A i \in 1..(Len(ranks) - p) : ranks[i + p] = ranks[i]})
Motif(ranks) == Pack(SubSeq(ranks, 1, Period(ranks)))
MotifLength(motif) == (IF motif.form = "slots" THEN 2 ELSE 3) + Length(motif)

Dictionary(ranks) == SetToSortSeq(ToSet(ranks), LAMBDA a, b : a < b)
IndexBits(dictionary) ==
    CHOOSE b \in 1..Len(dictionary) : 2 ^ b >= Len(dictionary) /\ 2 ^ (b - 1) < Len(dictionary)
Bits(value, count) == [i \in 1..count |-> (value \div 2 ^ (count - i)) % 2]
DigitsFor(count, bits) == (count * bits + DigitBits - 1) \div DigitBits

\* Indices of as many bits as the dictionary needs, the last digit padded with zeros.
Indices(ranks) ==
    LET dictionary == Dictionary(ranks)
        bits == IndexBits(dictionary)
        Index(rank) == CHOOSE k \in DOMAIN dictionary : dictionary[k] = rank
        stream == FlattenSeq([i \in DOMAIN ranks |-> Bits(Index(ranks[i]) - 1, bits)])
        padded == stream \o [i \in 1..(DigitsFor(Len(ranks), bits) * DigitBits - Len(stream)) |-> 0]
    IN  [i \in 1..DigitsFor(Len(ranks), bits) |-> Number(Group(padded, i, DigitBits), 2)]

ReadIndices(dictionary, text, count) ==
    LET bits == IndexBits(dictionary)
        stream == FlattenSeq([i \in DOMAIN text |-> Bits(text[i], DigitBits)])
    IN  [i \in 1..count |-> dictionary[Number(Group(stream, i, bits), 2) + 1]]

\* Positions of a progression count from 0; a missing success is off the line.
Positions(times) == {i \in DOMAIN times : times[i] # 0}
Slope(ranks, times) ==
    LET first == Min(Positions(times))
        later == Positions(times) \ {first}
    IN  IF later = {} THEN 0 ELSE (ranks[Min(later)] - ranks[first]) \div (Min(later) - first)
OnLine(ranks, times, start, step) ==
    \A i \in Positions(times) : start + step * (i - 1) = ranks[i]
RECURSIVE Decimals(_)
Decimals(n) == IF n < 0 THEN 1 + Decimals(-n) ELSE IF n < 10 THEN 1 ELSE 1 + Decimals(n \div 10)

PackOrders(ranks, times) ==
    LET plain == [form |-> "ranks", packed |-> Pack(ranks), length |-> Length(Pack(ranks))]
        motif == [form |-> "motif", packed |-> Motif(ranks), length |-> MotifLength(Motif(ranks))]
        repeated == IF Period(ranks) < Len(ranks) /\ motif.length + 1 < plain.length
                    THEN motif ELSE plain
        keys == Unsigned(Dictionary(ranks))
        named == [form |-> "dictionary", keys |-> keys, text |-> Indices(ranks),
                  length |-> 3 + Len(keys.text) + Len(Indices(ranks))]
        shorter == IF Len(Dictionary(ranks)) > 1 /\ named.length + 1 < repeated.length
                   THEN named ELSE repeated
        step == Slope(ranks, times)
        start == ranks[Min(Positions(times))] - step * (Min(Positions(times)) - 1)
        line == [form |-> "line", start |-> start, step |-> step,
                 length |-> Decimals(start) + 1 + Decimals(step)]
    IN  IF OnLine(ranks, times, start, step) /\ line.length < shorter.length THEN line ELSE shorter

ReadLine(order, times) ==
    [i \in DOMAIN times |-> IF times[i] = 0 THEN 0 ELSE order.start + order.step * (i - 1)]

ReadOrders(order, times) ==
    CASE order.form = "ranks" -> Unpack(order.packed)
      [] order.form = "motif" ->
           LET motif == Unpack(order.packed)
           IN  [i \in DOMAIN times |-> motif[((i - 1) % Len(motif)) + 1]]
      [] order.form = "dictionary" ->
           ReadIndices(ReadUnsigned(order.keys.text, order.keys.width), order.text, Len(times))
      [] order.form = "line" -> ReadLine(order, times)

-----------------------------------------------------------------------------
(* Rows of every size the bounds allow.                                     *)

Init == slots = <<>>

\* A rank belongs to a success.
Add(time, rank) ==
    /\ Len(slots) < MaxSlots /\ (time = 0 => rank = 0)
    /\ slots' = Append(slots, [time |-> time, rank |-> rank])

Next == \E time \in Times, rank \in Ranks : Add(time, rank)

-----------------------------------------------------------------------------
(* Properties.                                                             *)

TypeOK == slots \in Seq([time : Times, rank : Ranks]) /\ Len(slots) <= MaxSlots

TimesOf == [i \in DOMAIN slots |-> slots[i].time]
RanksOf == [i \in DOMAIN slots |-> slots[i].rank]

\* Whatever form is the shortest, the row that is read back is the row that was
\* stored: no time moves, no rank is invented for a team without a success
\* (hunt-log.ts:1-15, hunt-time-slots.ts:1-5).  Ranks are stored when one is not 0.
Lossless ==
    /\ slots # <<>> => Unpack(Pack(TimesOf)) = TimesOf
    /\ (\E i \in DOMAIN slots : slots[i].rank # 0) =>
         ReadOrders(PackOrders(RanksOf, TimesOf), TimesOf) = RanksOf
=============================================================================
