-------------------------- MODULE ExperimentRegistry --------------------------
(***************************************************************************)
(* research_registry.py and evaluation/power.py: the append-only file of   *)
(* experiments, chained by hashes, and the review of all its p-values as   *)
(* one family.  Recorders read the last hash and append without a lock,    *)
(* and may die in the middle of a line; somebody may edit the file.  A     *)
(* hash is the sequence of bodies it commits to, a line the sequence of    *)
(* pieces written to it: it parses when it is one whole piece.             *)
(***************************************************************************)
EXTENDS Integers, Sequences, FiniteSets, SequencesExt, FiniteSetsExt

CONSTANTS
    Recorders,     \* processes that record experiments
    RatingReports, \* sets of comparisons [verdict, mean, low, high, size]
    PowerReports,  \* [audited, detectable, observed, low, high, size]
    PValues,       \* p-value in thousandths by 2 |effect| / half width, capped
    DiscoveryRate, \* false_discovery_rate, in thousandths
    MaxLines,      \* bound: nothing is begun once so many pieces are written
    MaxEdits,      \* bound on edits of the file
    MaxDeaths      \* bound on recorders that die while they write

ASSUME PValuesFall ==
    \A i, j \in DOMAIN PValues : i < j => PValues[i] >= PValues[j]

\* paired_comparison calls a difference inconclusive just when its interval holds zero.
ASSUME RegistryAssumption ==
    /\ IsFiniteSet(Recorders) /\ MaxLines \in Nat /\ MaxDeaths \in Nat /\ MaxEdits \in Nat
    /\ \A report \in RatingReports :
          /\ IsFiniteSet(report)
          /\ \A c \in report : c.verdict = "inconclusive" => c.low <= 0 /\ 0 <= c.high

VARIABLES
    erFile,     \* the lines, each a sequence of pieces
    erRecorder, \* for each recorder, what it is about to append
    erAcked,    \* numbers of the entries record_experiment has returned
    erCount,    \* pieces written so far: recorded_at
    erTampered, \* edits of the file
    erOverlaps, \* whether a recorder appended after a hash another had read
    erDeaths
erVars == <<erFile, erRecorder, erAcked, erCount, erTampered, erOverlaps, erDeaths>>

Genesis == <<>>
NoInterval == <<>>
IdleRecorder == [at |-> "idle"]

erInit ==
    /\ erFile = <<>> /\ erRecorder = [p \in Recorders |-> IdleRecorder]
    /\ erAcked = {} /\ erCount = 0 /\ erTampered = 0 /\ erOverlaps = FALSE /\ erDeaths = 0

-----------------------------------------------------------------------------
(* Reading *)

\* A line that does not parse is skipped.
Parses(line) == Len(line) = 1 /\ line[1].whole
read_experiments(file) ==
    LET rows[n \in 0..Len(file)] ==
            IF n = 0 THEN <<>>
            ELSE IF Parses(file[n]) THEN Append(rows[n - 1], file[n][1]) ELSE rows[n - 1]
    IN  rows[Len(file)]

LastHash(rows) == IF rows = <<>> THEN Genesis ELSE Last(rows).entryHash

\* A digest commits to the body and to the hash before it.
EntryHash(body, previous) == Append(previous, body)

\* Each entry names the hash before it and has the one its body gives.
verify_registry(rows) ==
    \A i \in DOMAIN rows :
        /\ rows[i].previousHash = IF i = 1 THEN Genesis ELSE rows[i - 1].entryHash
        /\ rows[i].entryHash = EntryHash(rows[i].body, rows[i].previousHash)
ChainValid(file) == verify_registry(read_experiments(file))

-----------------------------------------------------------------------------
(* What is recorded *)

Interval(r) == <<r.low, r.high>>
HoldsZero(interval) == interval[1] <= 0 /\ 0 <= interval[2]

\* record_sports_ratings_experiment: an entry for every comparison with a verdict,
\* decided by its own interval.
ComparisonRecords(report) ==
    {[hypothesis |-> c.baseline, effect |-> c.mean, interval |-> Interval(c), size |-> c.size,
      decision |-> CASE c.verdict = "model_better" -> "accepted"
                     [] c.verdict = "baseline_better" -> "rejected"
                     [] c.verdict = "inconclusive" -> "inconclusive"] :
       c \in {d \in report :
                 d.verdict \in {"model_better", "baseline_better", "inconclusive"}}}

Magnitude(x) == IF x < 0 THEN -x ELSE x

\* record_power_audit_experiment: the effect must clear what the volume can detect.
PowerRecord(r) ==
    LET demonstrable == Magnitude(r.observed) >= r.detectable /\ ~HoldsZero(Interval(r))
    IN  [hypothesis |-> "volume", effect |-> r.detectable, size |-> r.size,
         interval |-> IF demonstrable THEN Interval(r) ELSE NoInterval,
         decision |-> IF demonstrable THEN "accepted" ELSE "rejected"]

\* _validate; both recorders give a sample size
ValidRecord(x) ==
    /\ x.interval # NoInterval => x.interval[1] <= x.interval[2]
    /\ x.decision = "accepted" =>
          x.interval # NoInterval /\ ~HoldsZero(x.interval)

-----------------------------------------------------------------------------
(* Recording *)

Unended(file) == file # <<>> /\ ~Last(Last(file)).whole

\* Text appended to a line without an end becomes part of that line.
AppendPiece(file, piece) ==
    IF Unended(file) THEN [file EXCEPT ![Len(file)] = Append(@, piece)]
    ELSE Append(file, <<piece>>)

StartReport(p, records) ==
    /\ erRecorder[p].at = "idle" /\ erCount < MaxLines /\ records # <<>>
    /\ erRecorder' = [erRecorder EXCEPT ![p] = [at |-> "next", left |-> records]]
    /\ UNCHANGED <<erFile, erAcked, erCount, erTampered, erOverlaps, erDeaths>>

\* record_experiment up to the append; an invalid record ends the run.
ReadLastHash(p) ==
    LET r == erRecorder[p]
        x == r.left[1]
        rows == read_experiments(erFile)
    IN  /\ r.at = "next"
        /\ erRecorder' = [erRecorder EXCEPT ![p] =
              IF ValidRecord(x) /\ erCount < MaxLines
              THEN [at |-> "append", left |-> Tail(r.left), body |-> x,
                    previousHash |-> LastHash(rows),
                    seen |-> [i \in DOMAIN rows |-> rows[i].number]]
              ELSE IdleRecorder]
        /\ UNCHANGED <<erFile, erAcked, erCount, erTampered, erOverlaps, erDeaths>>

Piece(r, whole) ==
    LET body == [number |-> erCount + 1, record |-> r.body]
    IN  [body |-> body, previousHash |-> r.previousHash, number |-> erCount + 1,
         entryHash |-> EntryHash(body, r.previousHash), seen |-> r.seen, whole |-> whole]

AppendEntry(p) ==
    LET r == erRecorder[p]
        rows == read_experiments(erFile)
    IN  /\ r.at = "append"
        /\ erFile' = AppendPiece(erFile, Piece(r, TRUE))
        /\ erCount' = erCount + 1
        /\ erAcked' = erAcked \cup {erCount + 1}
        /\ erOverlaps' = (erOverlaps \/ r.seen # [i \in DOMAIN rows |-> rows[i].number])
        /\ erRecorder' = [erRecorder EXCEPT ![p] =
              IF r.left = <<>> THEN IdleRecorder ELSE [at |-> "next", left |-> r.left]]
        /\ UNCHANGED <<erTampered, erDeaths>>

\* The process dies with part of its line written, or none of it.
DieAppending(p, some) ==
    /\ erRecorder[p].at = "append" /\ erDeaths < MaxDeaths
    /\ erFile' = IF some THEN AppendPiece(erFile, Piece(erRecorder[p], FALSE)) ELSE erFile
    /\ erCount' = IF some THEN erCount + 1 ELSE erCount
    /\ erRecorder' = [erRecorder EXCEPT ![p] = IdleRecorder]
    /\ erDeaths' = erDeaths + 1
    /\ UNCHANGED <<erAcked, erTampered, erOverlaps>>

\* Somebody changes the verdict of an entry, or takes a line out.
RewriteEntry(i) ==
    /\ i \in DOMAIN erFile /\ Parses(erFile[i]) /\ erTampered < MaxEdits
    /\ erFile[i][1].body.record.decision = "rejected"
    /\ erFile' = [erFile EXCEPT ![i] =
          <<[erFile[i][1] EXCEPT !.body.record.decision = "inconclusive"]>>]
    /\ erTampered' = erTampered + 1
    /\ UNCHANGED <<erRecorder, erAcked, erCount, erOverlaps, erDeaths>>

RemoveLine(i) ==
    /\ i \in DOMAIN erFile /\ erTampered < MaxEdits
    /\ erFile' = RemoveAt(erFile, i)
    /\ erTampered' = erTampered + 1
    /\ UNCHANGED <<erRecorder, erAcked, erCount, erOverlaps, erDeaths>>

erNext ==
    \/ \E p \in Recorders :
          \/ \E report \in RatingReports : StartReport(p, SetToSeq(ComparisonRecords(report)))
          \/ \E r \in PowerReports : r.audited /\ StartReport(p, <<PowerRecord(r)>>)
          \/ ReadLastHash(p)
          \/ AppendEntry(p)
          \/ \E some \in BOOLEAN : DieAppending(p, some)
    \/ \E i \in DOMAIN erFile : RewriteEntry(i) \/ RemoveLine(i)

-----------------------------------------------------------------------------
(* review_experiment_significance *)

\* p_value_from_interval, by the ratio of the effect to the interval's half width.
PValue(x) ==
    LET ratio == (4 * Magnitude(x.effect)) \div (x.interval[2] - x.interval[1])
        last == Max(DOMAIN PValues)
    IN  PValues[IF ratio > last THEN last ELSE ratio]

ScoredRows(rows) ==
    SelectSeq(rows, LAMBDA r : /\ r.body.record.interval # NoInterval
                               /\ r.body.record.interval[2] > r.body.record.interval[1])

\* Every p-value is multiplied by count / rank: AdjustmentScale makes that whole.
AdjustmentScale == 60

\* From the largest p-value down, the adjusted value is the least seen so far.
benjamini_hochberg(p) ==
    LET count == Len(p)
        order == SetToSortSeq(DOMAIN p, LAMBDA i, j : p[i] < p[j] \/ (p[i] = p[j] /\ i < j))
        candidate(rank) == (p[order[rank]] * count * AdjustmentScale) \div rank
        rankOf(i) == CHOOSE rank \in DOMAIN order : order[rank] = i
    IN  [i \in DOMAIN p |->
            Min({candidate(rank) : rank \in rankOf(i) .. count} \cup {1000 * AdjustmentScale})]

bonferroni(p) ==
    [i \in DOMAIN p |-> Min({p[i] * Len(p) * AdjustmentScale, 1000 * AdjustmentScale})]

Significant(adjusted) ==
    {i \in DOMAIN adjusted : adjusted[i] <= DiscoveryRate * AdjustmentScale}

significance_review(file) ==
    LET rows == read_experiments(file)
        scored == ScoredRows(rows)
        p == [i \in DOMAIN scored |-> PValue(scored[i].body.record)]
        kept == Significant(benjamini_hochberg(p))
    IN  [family |-> Len(rows), scored |-> scored, p |-> p, significant |-> kept,
         unscored |-> Len(rows) - Len(scored),
         demoted |-> {i \in DOMAIN scored :
                         scored[i].body.record.decision = "accepted" /\ i \notin kept}]

-----------------------------------------------------------------------------
(* Properties *)

\* The file, the recorders and the counters keep their shape (record_experiment).
erTypeOK ==
    /\ \A i \in DOMAIN erFile : Len(erFile[i]) \in 1 .. erCount
    /\ erCount \in 0 .. MaxLines + Cardinality(Recorders) /\ erAcked \subseteq 1 .. erCount
    /\ \A p \in Recorders : erRecorder[p].at \in {"idle", "next", "append"}

Numbers(file) == LET rows == read_experiments(file) IN {rows[i].number : i \in DOMAIN rows}

\* What the registry promises about its own history (module docstring): while
\* nobody edits the file and no two recorders overlap the chain verifies, whatever
\* dies; a chain that verifies has, without overlap, every entry unaltered and,
\* before it, every entry that could be read when it was recorded; an acknowledged
\* entry is lost only to an edit or, one for each death, to the torn line before it.
HistoryIsKept ==
    /\ erTampered = 0 /\ ~erOverlaps => ChainValid(erFile)
    /\ ~erOverlaps /\ ChainValid(erFile) =>
          LET rows == read_experiments(erFile)
          IN  \A i \in DOMAIN rows :
                 /\ rows[i].entryHash = EntryHash(rows[i].body, rows[i].previousHash)
                 /\ \A n \in ToSet(rows[i].seen) : \E j \in 1 .. i - 1 : rows[j].number = n
    /\ erTampered = 0 =>
          Cardinality(erAcked \ Numbers(erFile)) <= erDeaths

\* An entry of the file that says accepted has an interval without zero, one that
\* says inconclusive an interval around it (record_experiment and its two callers).
VerdictsAreEarned ==
    erTampered = 0 =>
        LET rows == read_experiments(erFile)
        IN  \A i \in DOMAIN rows :
               LET x == rows[i].body.record
               IN  /\ x.decision = "accepted" => ~HoldsZero(x.interval)
                   /\ x.decision = "inconclusive" => HoldsZero(x.interval)

\* The review is the textbook procedure: significant are the tests with a p-value
\* up to the largest p(k) with p(k) <= k q / m, the entries without an interval stay
\* in the family size, Bonferroni never finds more, and correcting never adds.
IsTextbook(review, p) ==
    LET below(v) == Cardinality({i \in DOMAIN p : p[i] <= v})
        passing == {p[i] : i \in {j \in DOMAIN p : p[j] * Len(p) <= below(p[j]) * DiscoveryRate}}
    IN  /\ review.significant = {i \in DOMAIN p : passing # {} /\ p[i] <= Max(passing)}
        /\ Significant(bonferroni(p)) \subseteq review.significant
        /\ \A i \in review.significant : p[i] <= DiscoveryRate
        /\ review.family = Len(review.scored) + review.unscored
        /\ \A i \in review.demoted : i \notin Significant(bonferroni(p))
ReviewIsTextbook ==
    IsTextbook(significance_review(erFile), significance_review(erFile).p)
=============================================================================
