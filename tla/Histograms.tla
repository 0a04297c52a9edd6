----------------------------- MODULE Histograms -----------------------------
(***************************************************************************)
(* The histograms of iperf2's reporter (histogram.c).  A value is the bin  *)
(* it is in: below 0 and above Bins are out of bounds.  The largest value, *)
(* the percentiles and the outliers are measurements and left out.         *)
(***************************************************************************)
EXTENDS Integers, FiniteSets

CONSTANT Bins  \* bincount

ASSUME BinsAssumption == Bins \in Nat \ {0}

\* A bin is the one that is behind the array, whose memory belongs to another.
Behind == Bins

\* histogram_init, and histogram_clear.
Empty == [mybins |-> [b \in 0 .. Behind |-> 0], populationcnt |-> 0,
          cntloweroutofbounds |-> 0, cntupperoutofbounds |-> 0]

\* A value at the end of the range is neither in a bin nor out of bounds.
Insert(h, bin) ==
    LET counted == [h EXCEPT !.populationcnt = @ + 1]
    IN  CASE bin < 0    -> [counted EXCEPT !.cntloweroutofbounds = @ + 1]
          [] bin > Bins -> [counted EXCEPT !.cntupperoutofbounds = @ + 1]
          [] OTHER      -> [counted EXCEPT !.mybins[bin] = @ + 1]

\* What has come to h since prev, as it is printed: a bin that has not grown is
\* not listed, and what is behind the array is not looked at.
Grown(h, prev) ==
    [mybins |-> [b \in 0 .. Bins - 1 |->
                    IF h.mybins[b] > prev.mybins[b] THEN h.mybins[b] - prev.mybins[b] ELSE 0],
     populationcnt |-> h.populationcnt - prev.populationcnt,
     cntloweroutofbounds |-> h.cntloweroutofbounds - prev.cntloweroutofbounds,
     cntupperoutofbounds |-> h.cntupperoutofbounds - prev.cntupperoutofbounds]

\* Mutant: the values above the range are not remembered.
PrintOutForgetful(h, prev, final) ==
    LET from == IF final THEN Empty ELSE prev
    IN  [shown |-> Grown(h, from),
         prev  |-> [h EXCEPT !.cntupperoutofbounds = from.cntupperoutofbounds]]

\* What is printed, and what the next one begins with.  The final one begins
\* with nothing.
PrintOut(h, prev, final) ==
    LET from == IF final THEN Empty ELSE prev
    IN  [shown |-> Grown(h, from), prev |-> h]

\* The values that a line of the report lists, those in the bins one by one.
InBins(mybins) == UNION {{b} \X (1 .. mybins[b]) : b \in 0 .. Bins - 1}
Listed(shown) ==
    shown.cntloweroutofbounds + shown.cntupperoutofbounds + Cardinality(InBins(shown.mybins))
=============================================================================
