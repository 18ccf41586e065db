--------------------------- MODULE SampleAssembler ---------------------------
(***************************************************************************)
(* The sample assembler of one stream of the VITA processor.  Datagrams of *)
(* samples arrive late, twice, out of order or not at all; the assembler   *)
(* sorts them, puts every sample at its ordinal on the timeline of the     *)
(* epoch, and emits a power spectrum for every Size samples, Hop apart.    *)
(* All calls are made by the one thread of run_processor.  Time is counted *)
(* in half samples, so that a packet can lie between two samples.  What a  *)
(* sample is worth, and the marks of the frames it bounds, are left out: a *)
(* sample is known by the time and the tuning it was taken at.             *)
(***************************************************************************)
EXTENDS Integers, Sequences, SequencesExt

CONSTANTS
  Size, Hop,        \* samples of a spectrum, and between two spectra
  PendingLimit,     \* 32 packets
  HintLimit,        \* 128 hints
  CountModulus,     \* 16
  Arrivals,         \* what the radio and the network may deliver
  Epochs,           \* the times the schedule may choose
  MaxDatagrams      \* bound of the model

\* A centre of 0 stands for none.
Datagram == [time : Nat, center : Nat \ {0}, length : Nat \ {0}, count : 0 .. CountModulus - 1]

ASSUME AssemblerAssumption ==
  /\ {Size, Hop, PendingLimit, HintLimit, CountModulus} \subseteq Nat \ {0} /\ Hop <= Size
  /\ MaxDatagrams \in Nat /\ Epochs \subseteq Nat /\ Arrivals \subseteq Datagram

VARIABLES
  epoch,            \* the time of ordinal 0, or Absent
  started,          \* start_epoch was called
  ordinal,          \* ordinal of the next sample
  window,           \* ordinal of samples[1]
  samples,          \* samples_
  work,             \* what consume has still to append
  pending,          \* packets by their time
  hints,            \* time and count of the datagrams observed
  held,             \* datagrams the radio library holds until it knows their context
  count, center,    \* of the last packet consumed
  duplicates, invalid, skipped, sequenceGaps,
  spectra,          \* history: the spectra emitted
  datagrams         \* datagrams so far

assemblerVars == <<epoch, started, ordinal, window, samples, work, pending, hints, held, count, center,
                   duplicates, invalid, skipped, sequenceGaps, spectra, datagrams>>

Absent == -1
NoWork == [gap |-> 0, left |-> 0, time |-> 0]
Idle == work.gap = 0 /\ work.left = 0

AssemblerInit ==
  /\ epoch = Absent /\ started = FALSE /\ ordinal = 0 /\ window = 0 /\ samples = <<>> /\ work = NoWork
  /\ pending = <<>> /\ hints = <<>> /\ held = {} /\ count = Absent /\ center = 0
  /\ duplicates = 0 /\ invalid = 0 /\ skipped = 0 /\ sequenceGaps = 0 /\ spectra = <<>> /\ datagrams = 0

-----------------------------------------------------------------------------
\* The schedule of the graph gives the stream its epoch; skipped samples and
\* the number of the next spectrum go on.
StartEpoch ==
  /\ Idle /\ ~started /\ started' = TRUE
  /\ \E t \in Epochs : epoch' = t
  /\ ordinal' = 0 /\ window' = 0 /\ center' = 0 /\ count' = Absent
  /\ samples' = <<>> /\ pending' = <<>> /\ hints' = <<>>
  /\ UNCHANGED <<work, held, duplicates, invalid, skipped, sequenceGaps, spectra, datagrams>>

\* observe: a datagram of samples leaves a hint, and the library has it.
Observe(d) ==
  /\ Idle /\ datagrams < MaxDatagrams /\ datagrams' = datagrams + 1
  /\ hints' = Append(IF Len(hints) = HintLimit THEN Tail(hints) ELSE hints, [time |-> d.time, count |-> d.count])
  /\ invalid' = IF Len(hints) = HintLimit THEN invalid + 1 ELSE invalid
  /\ held' = held \cup {d}
  /\ UNCHANGED <<epoch, started, ordinal, window, samples, work, pending, count, center, duplicates,
                 skipped, sequenceGaps, spectra>>

\* receive: the library hands the datagram over.  A datagram whose context is
\* unknown or wrong leaves its hint; one whose samples cannot be read does not.
Conditions == {"usable", "wrong", "unreadable"}
HintsOf(d) == {i \in DOMAIN hints : hints[i].time = d.time}
FirstHint(d) == CHOOSE i \in HintsOf(d) : \A j \in HintsOf(d) : i <= j
\* lower_bound
Place(t) == CHOOSE i \in 1 .. Len(pending) + 1 :
              /\ \A j \in 1 .. i - 1 : pending[j].time < t
              /\ i <= Len(pending) => t <= pending[i].time
Receive(d, condition) ==
  /\ Idle /\ d \in held /\ held' = held \ {d}
  /\ IF condition = "wrong" \/ HintsOf(d) = {}
     THEN invalid' = invalid + 1 /\ UNCHANGED <<hints, pending, duplicates>>
     ELSE LET packet == [time |-> d.time, center |-> d.center, length |-> d.length,
                         count |-> hints[FirstHint(d)].count, old |-> FALSE]
              at == Place(d.time)
          IN /\ hints' = RemoveAt(hints, FirstHint(d))
             /\ \/ /\ condition = "unreadable" \/ Len(pending) = PendingLimit
                   /\ invalid' = invalid + 1 /\ UNCHANGED <<pending, duplicates>>
                \/ /\ condition = "usable" /\ Len(pending) < PendingLimit
                   /\ at <= Len(pending) /\ pending[at].time = d.time
                   /\ duplicates' = duplicates + 1 /\ UNCHANGED <<pending, invalid>>
                \/ /\ condition = "usable" /\ Len(pending) < PendingLimit
                   /\ ~(at <= Len(pending) /\ pending[at].time = d.time)
                   /\ pending' = InsertAt(pending, at, packet) /\ UNCHANGED <<duplicates, invalid>>
  /\ UNCHANGED <<epoch, started, ordinal, window, samples, work, count, center, skipped, sequenceGaps,
                 spectra, datagrams>>

\* 10 ms have passed since a packet arrived.
Age ==
  /\ \E i \in DOMAIN pending : ~pending[i].old /\ pending' = [pending EXCEPT ![i].old = TRUE]
  /\ UNCHANGED <<epoch, started, ordinal, window, samples, work, hints, held, count, center, duplicates,
                 invalid, skipped, sequenceGaps, spectra, datagrams>>

-----------------------------------------------------------------------------
\* progress: the first packet is next on the timeline, or has waited enough.
Contiguous == epoch # Absent /\ pending[1].time = epoch + 2 * ordinal
First == IF epoch = Absent THEN pending[1].time ELSE epoch
\* The nearest sample.
At == (pending[1].time - First + 1) \div 2
TooLate == pending[1].time < First \/ At < ordinal
OffGrid == First + 2 * At # pending[1].time
Retuned == center # 0 /\ center # pending[1].center
\* Mutant: the samples of the window that is given up are not counted.
SkipsGapOnly == At - ordinal
Skips == (At - ordinal) + Len(samples)
Breaks == At - ordinal > 2 * Size \/ Retuned
AcceptPacket ==
  /\ sequenceGaps' = IF count # Absent /\ pending[1].count # (count + 1) % CountModulus
                     THEN sequenceGaps + 1 ELSE sequenceGaps
  /\ count' = pending[1].count /\ center' = pending[1].center
  /\ IF Breaks
     THEN /\ skipped' = skipped + Skips
          /\ samples' = <<>> /\ ordinal' = At /\ window' = At
          /\ work' = [gap |-> 0, left |-> pending[1].length, time |-> pending[1].time]
     ELSE /\ work' = [gap |-> At - ordinal, left |-> pending[1].length, time |-> pending[1].time]
          /\ UNCHANGED <<skipped, samples, ordinal, window>>
Due == Contiguous \/ pending[1].old
Consume ==
  /\ Idle /\ pending # <<>> /\ Due
  /\ pending' = Tail(pending) /\ epoch' = First
  /\ \/ /\ TooLate /\ duplicates' = duplicates + 1
        /\ UNCHANGED <<ordinal, window, samples, work, count, center, invalid, skipped, sequenceGaps>>
     \/ /\ ~TooLate /\ OffGrid /\ invalid' = invalid + 1
        /\ UNCHANGED <<ordinal, window, samples, work, count, center, duplicates, skipped, sequenceGaps>>
     \/ /\ ~TooLate /\ ~OffGrid /\ AcceptPacket /\ UNCHANGED <<duplicates, invalid>>
  /\ UNCHANGED <<started, hints, held, spectra, datagrams>>

\* append, once for every missing sample of the gap and every sample of the
\* packet; a full window is a spectrum.
Missing == [missing |-> TRUE, time |-> 0, center |-> 0]
Sample == IF work.gap > 0 THEN Missing ELSE [missing |-> FALSE, time |-> work.time, center |-> center]
Grown == Append(samples, Sample)
Spectrum == [epoch |-> epoch, started |-> started, ordinal |-> window, center |-> center,
             discontinuities |-> skipped, samples |-> Grown]
AppendSample ==
  /\ ~Idle /\ ordinal' = ordinal + 1
  /\ work' = IF work.gap > 0 THEN [work EXCEPT !.gap = @ - 1]
             ELSE [work EXCEPT !.left = @ - 1, !.time = @ + 2]
  /\ IF Len(Grown) < Size
     THEN samples' = Grown /\ UNCHANGED <<window, spectra>>
     ELSE /\ spectra' = Append(spectra, Spectrum)
          /\ samples' = SubSeq(Grown, Hop + 1, Len(Grown)) /\ window' = window + Hop
  /\ UNCHANGED <<epoch, started, pending, hints, held, count, center, duplicates, invalid, skipped,
                 sequenceGaps, datagrams>>

AssemblerNext ==
  \/ StartEpoch \/ Age \/ Consume \/ AppendSample
  \/ \E d \in Arrivals : Observe(d)
  \/ \E d \in held : \E condition \in Conditions : Receive(d, condition)
AssemblerSpec == AssemblerInit /\ [][AssemblerNext]_assemblerVars

-----------------------------------------------------------------------------
SampleRecord == [missing : BOOLEAN, time : Nat, center : Nat]
PacketRecord == [time : Nat, center : Nat \ {0}, length : Nat \ {0}, count : 0 .. CountModulus - 1, old : BOOLEAN]
HintRecord == [time : Nat, count : 0 .. CountModulus - 1]
SpectrumRecord == [epoch : Nat, started : BOOLEAN, ordinal : Nat, center : Nat, discontinuities : Nat,
                   samples : Seq(SampleRecord)]
AssemblerTypeOK ==
  /\ epoch \in Nat \cup {Absent} /\ started \in BOOLEAN /\ ordinal \in Nat /\ window \in Nat
  /\ samples \in Seq(SampleRecord) /\ Len(samples) < Size
  /\ work \in [gap : Nat, left : Nat, time : Nat]
  /\ pending \in Seq(PacketRecord) /\ hints \in Seq(HintRecord) /\ held \subseteq Arrivals
  /\ count \in 0 .. CountModulus - 1 \cup {Absent} /\ center \in Nat
  /\ duplicates \in Nat /\ invalid \in Nat /\ skipped \in Nat /\ sequenceGaps \in Nat /\ datagrams \in Nat
  /\ spectra \in Seq(SpectrumRecord)

\* A sample of a spectrum stands at its place on the timeline of the epoch or
\* is marked as missing, and a spectrum holds samples of one tuning only.
TimelineIsKept ==
  \A k \in DOMAIN spectra : \A i \in 1 .. Size :
    LET s == spectra[k].samples[i] IN
    ~s.missing => /\ s.time = spectra[k].epoch + 2 * (spectra[k].ordinal + i - 1)
                  /\ s.center = spectra[k].center
\* Within an epoch two spectra that follow each other are Hop samples apart
\* and as many as the growth of their discontinuity counter.
DiscontinuitiesAddUp ==
  \A k \in 1 .. Len(spectra) - 1 :
    spectra[k].started = spectra[k + 1].started =>
      spectra[k + 1].ordinal =
        spectra[k].ordinal + Hop + (spectra[k + 1].discontinuities - spectra[k].discontinuities)

\* However packets are delayed, doubled, reordered or lost, and whenever the
\* radio retunes, a reader of the spectra knows when and how tuned each sample
\* was taken, which samples are missing, and of every sample that is in none of
\* the spectra (processing.cpp:191-263; docs/vita_system.md:290-292).
SpectraAreSound == TimelineIsKept /\ DiscontinuitiesAddUp
=============================================================================
