----------------------------- MODULE BackupRuns -----------------------------
(***************************************************************************)
(* The run arithmetic behind --infer-backup-structure-dir                  *)
(* (src/tplink/backup_structure.go).  A run is a stretch of offsets        *)
(* [offset, length]; a backup is [size, byte], where byte gives the bytes  *)
(* that are not zero.                                                      *)
(*                                                                         *)
(* mergeRuns sorts what it is given, and a run that comes twice is         *)
(* absorbed by itself: it takes a set of runs here, and gives a list.      *)
(***************************************************************************)
EXTENDS Integers, Sequences, FiniteSets, SequencesExt

Run(offset, length) == [offset |-> offset, length |-> length]

Runs == [offset : Nat, length : Nat]

End(run) == run.offset + run.length

InRange(data, i) == i < data.size

ByteAt(data, i) ==
  IF InRange(data, i) /\ i \in DOMAIN data.byte THEN data.byte[i] ELSE 0

Longest(sizes) == CHOOSE n \in sizes : \A m \in sizes : m <= n

\* The offsets a run, or a set of runs, covers.
Offset(run)   == run.offset..(End(run) - 1)
Offsets(runs) == UNION {Offset(run) : run \in runs}

\* S in ascending order: the element that i - 1 others are below stands at i.
Ascending(S) ==
  [i \in 1..Cardinality(S) |-> CHOOSE n \in S : Cardinality({m \in S : m < n}) = i - 1]

\* The longest runs that make up a set of offsets, in ascending order.
RunsOf(S) ==
  LET starts == Ascending({i \in S : i - 1 \notin S})
      Length(i) == CHOOSE n \in 1..Cardinality(S) :
                     i + n \notin S /\ \A k \in 0..(n - 1) : i + k \in S
  IN  [i \in DOMAIN starts |-> Run(starts[i], Length(starts[i]))]

\* A byte that only one of the two has differs, whatever its value.
Differs(base, candidate, i) ==
  ByteAt(base, i) # ByteAt(candidate, i) \/ InRange(base, i) # InRange(candidate, i)

ComputeChangedRuns(base, candidate) ==
  RunsOf({i \in 0..(Longest({base.size, candidate.size}) - 1) : Differs(base, candidate, i)})
-----------------------------------------------------------------------------
(* mergeRuns, subtractRuns and complementRuns                              *)

Before(r, s) == r.offset < s.offset \/ (r.offset = s.offset /\ r.length < s.length)

Sorted(runs) ==
  [i \in 1..Cardinality(runs) |->
     CHOOSE r \in runs : Cardinality({s \in runs : Before(s, r)}) = i - 1]

\* Bug shape for Absorb: the last run takes the end of whatever it meets.
AbsorbEnd(merged, run) ==
  IF merged = <<>> \/ run.offset > End(Last(merged)) THEN Append(merged, run)
  ELSE Append(Front(merged), Run(Last(merged).offset, End(run) - Last(merged).offset))

Absorb(merged, run) ==
  IF run.length <= 0 THEN merged
  ELSE IF merged = <<>> \/ run.offset > End(Last(merged)) THEN Append(merged, run)
  ELSE IF End(run) <= End(Last(merged)) THEN merged
  ELSE Append(Front(merged), Run(Last(merged).offset, End(run) - Last(merged).offset))

MergeRuns(runs) ==
  LET sorted == Sorted(runs)
      merged[n \in 0..Len(sorted)] ==
        IF n = 0 THEN <<>> ELSE Absorb(merged[n - 1], sorted[n])
  IN  merged[Len(sorted)]

\* What a cut leaves: left is what stands before the cuts seen so far, from is where
\* the rest begins.
Cut(acc, cut) ==
  [left |-> IF cut.offset > acc.from
              THEN Append(acc.left, Run(acc.from, cut.offset - acc.from)) ELSE acc.left,
   from |-> IF End(cut) > acc.from THEN End(cut) ELSE acc.from]

\* The offsets from..(to - 1) without cuts, which are merged: the loop that subtractRuns
\* has for each run, and complementRuns for all that is there.  A cut that ends before
\* from changes nothing.
Gaps(from, to, cuts) ==
  LET cutting[n \in 0..Len(cuts)] ==
        IF n = 0 THEN [left |-> <<>>, from |-> from]
        ELSE IF cuts[n].offset < to THEN Cut(cutting[n - 1], cuts[n])
        ELSE cutting[n - 1]
      rest == cutting[Len(cuts)]
  IN  IF rest.from < to THEN Append(rest.left, Run(rest.from, to - rest.from)) ELSE rest.left

\* With nothing to subtract the code hands the runs back as they are: they come merged.
SubtractRuns(runs, subtract) ==
  LET cuts == MergeRuns(subtract)
  IN  MergeRuns(UNION {ToSet(Gaps(run.offset, End(run), cuts)) : run \in ToSet(MergeRuns(runs))})

ComplementRuns(covered, span) == MergeRuns(ToSet(Gaps(0, span, MergeRuns(covered))))

\* The report on a baseline and its samples, with the ranges known documents.
InferBackupStructure(known, baseline, samples) ==
  LET changed    == [k \in DOMAIN samples |-> ComputeChangedRuns(baseline, samples[k])]
      union      == MergeRuns(UNION {ToSet(changed[k]) : k \in DOMAIN samples})
      documented == ToSet(MergeRuns(known))
      span       == Longest({baseline.size} \cup {samples[k].size : k \in DOMAIN samples})
  IN  [span         |-> span,
       deltas       |-> changed,
       union        |-> union,
       undocumented |-> SubtractRuns(ToSet(union), documented),
       static       |-> ComplementRuns(documented \cup ToSet(union), span)]
=============================================================================
