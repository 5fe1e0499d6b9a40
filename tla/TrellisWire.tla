----------------------------- MODULE TrellisWire ------------------------------
(***************************************************************************)
(* The q256 tail-biting trellis wire: how planes are packed, what a reader *)
(* refuses, the plans the device stages, and what the CPU reader and the   *)
(* CUDA kernel decode a column to (gridbook/trellis.py, trellis_scheme.py, *)
(* trellis_ops.py, csrc/trellis_r256.cu).                                  *)
(*                                                                         *)
(* Planes are [family, layout, rate, schedule, u, point, bypass: rows of   *)
(* columns, alphabets: rate -> codes, scales: rows of group scales, gsr].  *)
(* A wire replaces the three planes by [rows, columns, offsets, bodyBits,  *)
(* stride, payload: rows of bits], and a blob is [wire, digest, bytes].    *)
(* Columns and rows count from 1; bits and register positions from 0.      *)
(***************************************************************************)
EXTENDS Integers, SequencesExt

CONSTANTS
    TrellisBlock,   \* SUPERBLOCK, columns
    MemoryOrder,    \* MEMORY_ORDER
    Generators,     \* the bits GENERATOR_0 and GENERATOR_1 tap; MemoryOrder is the newest
    RowAlignment,   \* ROW_ALIGNMENT, bytes
    GroupSize,      \* GROUP_SIZE, columns
    SfInner         \* a quarter of _SF_ROW_TILE

ASSUME WireAssumption ==
    /\ MemoryOrder \in Nat \ {0} /\ RowAlignment \in Nat \ {0}
    /\ GroupSize \in Nat \ {0} /\ SfInner \in Nat \ {0}
    /\ TrellisBlock \in {2 * n : n \in 1..TrellisBlock} /\ MemoryOrder <= TrellisBlock
    /\ Generators \in (SUBSET (0..MemoryOrder)) \X (SUBSET (0..MemoryOrder))

CeilDiv(a, b) == (a + b - 1) \div b
RateSum(rates) == FoldLeft(+, 0, rates)

BitsOf(value, width) == [b \in 1..width |-> (value \div 2^(b - 1)) % 2]
Field(bits, offset, width) ==
    FoldRight(LAMBDA bit, rest : bit + (2 * rest), SubSeq(bits, offset + 1, offset + width), 0)

-----------------------------------------------------------------------------
(* Codes and alphabets. *)

Terminal(family) == IF family = "e2m1" THEN 4 ELSE 8
Half(family)     == 2^(Terminal(family) - 1)
NaNs(family)     == IF family = "e4m3" THEN {127, 255} ELSE {}

\* e2m1_value and e4m3fn_value, up to what a comparison tells apart: the code
\* without its sign bit grows with the magnitude.
Value(family, code) == IF code < Half(family) THEN code ELSE Half(family) - code
CodePositive(code)  == code \in 1..126

\* canonical_full_alphabet
FullAlphabet(family) ==
    LET top   == IF family = "e2m1" THEN 7 ELSE 126
        zeros == IF family = "e2m1" THEN <<0, 8>> ELSE <<0, 0, 128, 128>>
    IN [i \in 1..top |-> Half(family) + top + 1 - i] \o zeros \o [i \in 1..top |-> i]

SortedByValue(family, codes) ==
    \A i \in 1..(Len(codes) - 1) :
        \/ Value(family, codes[i]) < Value(family, codes[i + 1])
        \/ Value(family, codes[i]) = Value(family, codes[i + 1]) /\ codes[i] <= codes[i + 1]

\* validate_alphabets, for one rate: only the canonical alphabet of rate 7
\* names a code twice.
AlphabetOk(family, rate, codes) ==
    /\ rate \in 1..(Terminal(family) - 1) /\ Len(codes) = 2^(rate + 1)
    /\ \A i \in DOMAIN codes : codes[i] \in (0..(2^Terminal(family) - 1)) \ NaNs(family)
    /\ SortedByValue(family, codes)
    /\ (family = "e4m3" /\ rate = 7 /\ codes = FullAlphabet("e4m3")) \/ IsInjective(codes)

-----------------------------------------------------------------------------
(* Schedules and offsets. *)

BlockCount(columns) == CeilDiv(columns, TrellisBlock)
BlockOf(column)     == ((column - 1) \div TrellisBlock) + 1
BlockStart(block)   == (block - 1) * TrellisBlock         \* columns before it
BlockRates(schedule, block) == SubSeq(schedule, BlockStart(block) + 1,
    IF block * TrellisBlock < Len(schedule) THEN block * TrellisBlock ELSE Len(schedule))

\* The columns of a block that store a coded bit, in order.
CodedIn(family, schedule, block) ==
    SelectSeq([i \in DOMAIN BlockRates(schedule, block) |-> BlockStart(block) + i],
              LAMBDA column : schedule[column] < Terminal(family))

RateInRange(family, rate) == rate \in TrellisBlock..((Terminal(family) * TrellisBlock) - MemoryOrder)

\* build_q256_schedule
SpreadSchedule(rate, columns) ==
    LET promoted == rate % TrellisBlock
        at(i)    == ((i % TrellisBlock) * promoted) \div TrellisBlock
        after(i) == (((i % TrellisBlock) + 1) * promoted) \div TrellisBlock
    IN [c \in 1..columns |-> (rate \div TrellisBlock) + after(c - 1) - at(c - 1)]

ScheduleOk(family, schedule) ==
    /\ \A c \in DOMAIN schedule : schedule[c] \in 1..Terminal(family)
    /\ \A b \in 1..BlockCount(Len(schedule)) : Len(CodedIn(family, schedule, b)) >= MemoryOrder

\* A fixed quota holds in every complete block, a tight one over all columns.
QuotaOk(layout, schedule, rate) ==
    IF layout = "fixed"
    THEN \A b \in 1..(Len(schedule) \div TrellisBlock) : RateSum(BlockRates(schedule, b)) = rate
    ELSE LET residual == (RateSum(schedule) * TrellisBlock) - (rate * Len(schedule))
         IN residual < TrellisBlock /\ -residual < TrellisBlock

\* block_offset_bits, with its terminal sentinel.
OffsetsOf(schedule) ==
    [b \in 1..(BlockCount(Len(schedule)) + 1) |->
        RateSum(SubSeq(schedule, 1, IF BlockStart(b) < Len(schedule) THEN BlockStart(b) ELSE Len(schedule)))]

StrideOf(bits) == CeilDiv(CeilDiv(bits, 8), RowAlignment) * RowAlignment

-----------------------------------------------------------------------------
(* Writing. *)

\* One column of a row: a coded bit and a point, or the native code.
ColumnBits(p, row, c) ==
    IF p.schedule[c] = Terminal(p.family) THEN BitsOf(p.bypass[row][c], Terminal(p.family))
    ELSE <<p.u[row][c]>> \o BitsOf(p.point[row][c], p.schedule[c] - 1)

RowBits(p, row) ==
    LET body == FlattenSeq([c \in DOMAIN p.schedule |-> ColumnBits(p, row, c)])
    IN body \o [i \in 1..((8 * StrideOf(Len(body))) - Len(body)) |-> 0]

\* pack_planes
Pack(p) ==
    LET offsets == OffsetsOf(p.schedule)
    IN [family |-> p.family, layout |-> p.layout, rate |-> p.rate, schedule |-> p.schedule,
        rows |-> Len(p.u), columns |-> Len(p.schedule), offsets |-> offsets,
        bodyBits |-> Last(offsets), stride |-> StrideOf(Last(offsets)),
        payload |-> [row \in DOMAIN p.u |-> RowBits(p, row)],
        alphabets |-> p.alphabets, scales |-> p.scales, gsr |-> p.gsr]

\* account: the header, the packed schedule, the offsets of the tight layout,
\* the alphabets, the scale plane and the padded rows.
WireBytes(w) ==
    LET rates == SetToSeq(DOMAIN w.alphabets)
    IN 88 + CeilDiv(w.columns, 2) + (IF w.layout = "tight" THEN 4 * Len(w.offsets) ELSE 0)
          + RateSum([i \in DOMAIN rates |-> 3 + Len(w.alphabets[rates[i]])])
          + (w.rows * (IF w.family = "e2m1" THEN CeilDiv(w.columns, GroupSize) ELSE 4))
          + (w.rows * w.stride)

\* to_bytes
Blob(w) == [wire |-> w, digest |-> w.alphabets, bytes |-> WireBytes(w)]

-----------------------------------------------------------------------------
(* Reading. *)

\* Where each column starts in a row (the walk from its block's offset).
OffsetIn(w, c) ==
    w.offsets[BlockOf(c)] + RateSum(SubSeq(w.schedule, BlockStart(BlockOf(c)) + 1, c - 1))

ScalesOk(w) ==
    /\ Len(w.scales) = w.rows
    /\ \A r \in 1..w.rows :
        /\ Len(w.scales[r]) = IF w.family = "e2m1" THEN CeilDiv(w.columns, GroupSize) ELSE 1
        /\ \A g \in DOMAIN w.scales[r] : CodePositive(w.scales[r][g])
    /\ IF w.family = "e2m1" THEN w.gsr > 0 ELSE w.gsr = 1

PayloadOk(w) ==
    /\ Len(w.payload) = w.rows
    /\ \A r \in 1..w.rows :
        /\ Len(w.payload[r]) = 8 * w.stride
        /\ \A i \in (w.bodyBits + 1)..Len(w.payload[r]) : w.payload[r][i] = 0
        /\ \A c \in 1..w.columns : w.schedule[c] = Terminal(w.family) =>
            Field(w.payload[r], OffsetIn(w, c), Terminal(w.family)) \notin NaNs(w.family)

\* TrellisWire.validate
WireValid(w) ==
    /\ w.rows > 0 /\ w.columns > 0 /\ w.columns = Len(w.schedule)
    /\ ScheduleOk(w.family, w.schedule) /\ RateInRange(w.family, w.rate)
    /\ QuotaOk(w.layout, w.schedule, w.rate)
    /\ w.offsets = OffsetsOf(w.schedule) /\ w.bodyBits = Last(w.offsets)
    /\ w.stride = StrideOf(w.bodyBits)
    /\ DOMAIN w.alphabets = {w.schedule[c] : c \in DOMAIN w.schedule} \ {Terminal(w.family)}
    /\ \A rate \in DOMAIN w.alphabets : AlphabetOk(w.family, rate, w.alphabets[rate])
    /\ ScalesOk(w) /\ PayloadOk(w)

\* from_bytes: the sections fill the blob, the digest is that of the alphabets.
BlobParses(blob) ==
    /\ blob.digest = blob.wire.alphabets
    /\ blob.bytes = WireBytes(blob.wire)
    /\ WireValid(blob.wire)

\* parse_wire_for_scheme
ParsesAs(blob, scheme) ==
    /\ blob.bytes = scheme.bytes
    /\ BlobParses(blob)
    /\ blob.wire.family = scheme.family /\ blob.wire.rate = scheme.rate
    /\ blob.wire.rows = scheme.rows /\ blob.wire.columns = scheme.columns

-----------------------------------------------------------------------------
(* Decoding. *)

Parity(register, taps) == Cardinality({j \in taps : register[j] = 1}) % 2

\* The subset a register of MemoryOrder + 1 bits selects.
SubsetOf(register) == (2 * Parity(register, Generators[1])) + Parity(register, Generators[2])

\* decode_codes, the CPU reader: each coded column gathers its predecessors.
ReaderCode(w, row, c) ==
    LET bits  == w.payload[row]
        coded == CodedIn(w.family, w.schedule, BlockOf(c))
        at    == CHOOSE i \in DOMAIN coded : coded[i] = c
        prev(i)  == coded[((at - 1 - i) % Len(coded)) + 1]
        register == [j \in 0..MemoryOrder |-> Field(bits, OffsetIn(w, prev(MemoryOrder - j)), 1)]
        rate     == w.schedule[c]
    IN IF rate = Terminal(w.family) THEN Field(bits, OffsetIn(w, c), rate)
       ELSE w.alphabets[rate][SubsetOf(register) + (4 * Field(bits, OffsetIn(w, c) + 1, rate - 1)) + 1]

\* derived_decode_plan: the address of every column, and of the coded bits
\* before each coded one.
ScanFreePlan(w) ==
    LET prior(c) ==
            LET coded == CodedIn(w.family, w.schedule, BlockOf(c))
                at    == CHOOSE i \in DOMAIN coded : coded[i] = c
            IN [i \in 1..MemoryOrder |-> OffsetIn(w, coded[((at - 1 - i) % Len(coded)) + 1])]
    IN [offset |-> [c \in 1..w.columns |-> OffsetIn(w, c)],
        prior  |-> [c \in 1..w.columns |->
            IF w.schedule[c] = Terminal(w.family) THEN [i \in 1..MemoryOrder |-> -1] ELSE prior(c)]]

\* derived_block_plan: what the kernel stages of a block.
BlockPlan(w) ==
    [offset  |-> [c \in 1..w.columns |-> OffsetIn(w, c)],
     ordinal |-> [c \in 1..w.columns |->
        IF w.schedule[c] = Terminal(w.family) THEN -1
        ELSE Cardinality({h \in (BlockStart(BlockOf(c)) + 1)..(c - 1) : w.schedule[h] < Terminal(w.family)})],
     meta    |-> [b \in 1..BlockCount(w.columns) |->
        [columns |-> Len(BlockRates(w.schedule, b)), coded |-> Len(CodedIn(w.family, w.schedule, b))]]]

\* alphabet_lut: subset-major, where the alphabet is point-major.
LookUp(w) ==
    [rate \in DOMAIN w.alphabets |-> [i \in 0..(2^(rate + 1) - 1) |->
        w.alphabets[rate][(i \div 2^(rate - 1)) + (4 * (i % 2^(rate - 1))) + 1]]]

\* prepare_wire_cuda: the private copy the hot path decodes from.
Prepared(w) == [wire |-> w, scan |-> ScanFreePlan(w), plan |-> BlockPlan(w), table |-> LookUp(w)]

\* The two validation kernels: the scan-free plan against the schedule, then
\* the block plan against the scan-free one.
DeviceAccepts(q) ==
    LET w == q.wire
        terminal(c) == w.schedule[c] = Terminal(w.family)
        before(c, i) == CHOOSE h \in 1..w.columns :
            /\ BlockOf(h) = BlockOf(c)
            /\ q.plan.ordinal[h] = (q.plan.ordinal[c] - i) % q.plan.meta[BlockOf(c)].coded
    IN /\ \A c \in 1..w.columns :
            /\ q.scan.offset[c] = RateSum(SubSeq(w.schedule, 1, c - 1))
            /\ q.plan.offset[c] = q.scan.offset[c]
            /\ \A i \in 1..MemoryOrder :
                q.scan.prior[c][i] = IF terminal(c) THEN -1 ELSE q.scan.offset[before(c, i)]
       /\ StrideOf(RateSum(w.schedule)) = w.stride
       /\ \A b \in DOMAIN q.plan.meta : q.plan.meta[b].coded >= MemoryOrder
       /\ q.plan.offset[w.columns] + w.schedule[w.columns] = w.bodyBits

CodedBit(q, row, c) ==
    IF q.wire.schedule[c] < Terminal(q.wire.family) THEN Field(q.wire.payload[row], q.plan.offset[c], 1) ELSE 0

\* mutant: the mask is kept in column order also where a column has no bit.
MaskOf_ColumnOrder(q, row, block) ==
    [i \in 0..(q.plan.meta[block].columns - 1) |-> CodedBit(q, row, BlockStart(block) + 1 + i)]

\* stage_mask and stage_mask_by_ordinal: the coded bits of a block, in column
\* order only where every column has one.
MaskOf(q, row, block) ==
    LET meta == q.plan.meta[block]
    IN IF meta.coded = meta.columns
       THEN [i \in 0..(meta.columns - 1) |-> CodedBit(q, row, BlockStart(block) + 1 + i)]
       ELSE [i \in 0..(meta.coded - 1) |->
                CodedBit(q, row, CHOOSE c \in 1..q.wire.columns : BlockOf(c) = block /\ q.plan.ordinal[c] = i)]

\* decode_lane_column, with history8.
KernelCode(q, mask, row, c) ==
    LET w     == q.wire
        bits  == w.payload[row]
        rate  == w.schedule[c]
        at    == q.plan.ordinal[c]
        coded == q.plan.meta[BlockOf(c)].coded
        register == [j \in 0..MemoryOrder |->
            IF j = MemoryOrder THEN Field(bits, q.plan.offset[c], 1)
            ELSE LET index == at - MemoryOrder + j IN mask[IF index < 0 THEN index + coded ELSE index]]
    IN IF rate >= Terminal(w.family) THEN Field(bits, q.plan.offset[c], Terminal(w.family))
       ELSE q.table[rate][(SubsetOf(register) * 2^(rate - 1)) + Field(bits, q.plan.offset[c] + 1, rate - 1)]

\* decode_native_packed_out: nibbles in pairs, low first, or bytes.
DecodedRow(q, row) ==
    LET masks == [b \in DOMAIN q.plan.meta |-> MaskOf(q, row, b)]
        codes == [c \in 1..q.wire.columns |-> KernelCode(q, masks[BlockOf(c)], row, c)]
        high(i) == IF 2 * i <= q.wire.columns THEN codes[2 * i] ELSE 0
    IN IF q.wire.family = "e4m3" THEN codes
       ELSE [i \in 1..CeilDiv(q.wire.columns, 2) |-> codes[(2 * i) - 1] + (16 * high(i))]
DecodedPlane(q) == [row \in 1..q.wire.rows |-> DecodedRow(q, row)]

\* The operand the product reads: the plane viewed as pairs of nibbles, or as
\* bytes (external).
OperandCode(family, plane, row, c) ==
    IF family = "e4m3" THEN plane[row][c]
    ELSE (plane[row][(c + 1) \div 2] \div (IF c % 2 = 1 THEN 1 ELSE 16)) % 16

-----------------------------------------------------------------------------
(* Scales. *)

ScaleTile == 4 * SfInner

\* blocked_scales: pad to whole tiles, then permute each tile.
BlockedScales(scales) ==
    LET across == CeilDiv(Len(scales[1]), 4)
        down   == CeilDiv(Len(scales), ScaleTile)
        rowOf(i) == (((i \div (4 * ScaleTile)) \div across) * ScaleTile)
                        + (((i \div 4) % 4) * SfInner) + ((i \div 16) % SfInner) + 1
        colOf(i) == (((i \div (4 * ScaleTile)) % across) * 4) + (i % 4) + 1
    IN [i \in 0..((down * across * ScaleTile * 4) - 1) |->
            IF rowOf(i) \in DOMAIN scales /\ colOf(i) \in DOMAIN scales[1]
            THEN scales[rowOf(i)][colOf(i)] ELSE 0]

\* Where the block-scaled product looks for the scale of a row and a group
\* (cuBLAS 3.1.4.3.2, external).
ScaleAt(row, group, groups) ==
    LET r == row - 1  g == group - 1
        tile == ((r \div ScaleTile) * CeilDiv(groups, 4)) + (g \div 4)
    IN (tile * ScaleTile * 4) + ((r % SfInner) * 16) + (((r % ScaleTile) \div SfInner) * 4) + (g % 4)

-----------------------------------------------------------------------------
(* The path the encoder walked (external: the offline Viterbi encoder). *)

\* The registers of a tail-biting walk: it starts in the state it ends in.
Walk(us) ==
    LET start == [j \in 0..(MemoryOrder - 1) |-> us[Len(us) - MemoryOrder + j + 1]]
        step(done, u) ==
            LET register == [j \in 0..MemoryOrder |-> IF j = MemoryOrder THEN u ELSE done.state[j]]
            IN [state |-> [j \in 0..(MemoryOrder - 1) |-> register[j + 1]],
                walked |-> Append(done.walked, register)]
    IN FoldLeft(step, [state |-> start, walked |-> << >>], us).walked

\* The code the encoder meant for a column.
MeantCode(p, row, c) ==
    LET coded == CodedIn(p.family, p.schedule, BlockOf(c))
        walked == Walk([i \in DOMAIN coded |-> p.u[row][coded[i]]])
        at    == CHOOSE i \in DOMAIN coded : coded[i] = c
    IN IF p.schedule[c] = Terminal(p.family) THEN p.bypass[row][c]
       ELSE p.alphabets[p.schedule[c]][SubsetOf(walked[at]) + (4 * p.point[row][c]) + 1]
=============================================================================
